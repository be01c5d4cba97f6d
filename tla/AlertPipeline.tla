--------------------------- MODULE AlertPipeline ---------------------------
(***************************************************************************)
(* Delivery of native GJC alerts: the lane store, the reconciler passes    *)
(* that replay pending alerts, the dispatcher's queue and the per-         *)
(* destination delivery journal (src/gjc_lane.rs, src/dispatch.rs).        *)
(*                                                                         *)
(*   lane store    the records behind one mutex: in memory and, after a    *)
(*                 tmp-write + rename, on disk.  A write may fail after    *)
(*                 memory has already changed.                             *)
(*   passes        calls of replay_pending_alerts on one lane: the poll    *)
(*                 loop, and an HTTP reconcile request beside it.  Each    *)
(*                 holds a copy of the record and writes by compare and    *)
(*                 swap on its revision.                                   *)
(*   dispatcher    one task that takes events off the bounded channel.     *)
(*   registries    two process-wide maps keyed by event id: who waits for  *)
(*                 the acceptance, and the delivery journal.               *)
(*                                                                         *)
(* Alerts are numbered in the order the lane stages them.  The revision of *)
(* the record is abstracted to `fresh`: the passes whose copy is still the *)
(* store's record, so that w \in fresh is "my expected revision matches".  *)
(***************************************************************************)
EXTENDS Naturals, Sequences, FiniteSets

CONSTANTS NumAlerts,      \* alerts the lane ever stages
          Dests,          \* destinations (alert_destination_key)
          Route,          \* Route[a]: the deliveries of alert a, in order
          Passes,         \* concurrent replay passes
          FailureAlerts,  \* the alerts of kind session.failed
          QueueCap,       \* capacity of the event channel
          MaxPending,     \* MAX_PENDING_ALERTS
          LedgerOn,       \* [ledger] enabled
          Faults          \* what may go wrong in this instance

Alerts == 1..NumAlerts
FaultKinds == {"timeout", "crash", "persist", "ledger", "route", "sink", "mutation"}

ASSUME PipelineConstants ==
  /\ NumAlerts \in Nat
  /\ Route \in [Alerts -> Seq(Dests)]
  /\ IsFiniteSet(Passes)
  /\ FailureAlerts \subseteq Alerts
  /\ QueueCap \in Nat \ {0}
  /\ MaxPending \in Nat \ {0}
  /\ LedgerOn \in BOOLEAN
  /\ Faults \subseteq FaultKinds

VARIABLES
  mem,      \* lane store in memory: [life, deliv]
  disk,     \* lane store as last renamed into place
  fresh,    \* passes whose record copy has the current revision
  pc,       \* pc[w]: where pass w is
  item,     \* item[w]: the alert pass w is replaying
  verdict,  \* verdict[w]: what the acceptance channel of w holds
  queue,    \* the event channel
  acc,      \* ALERT_ACCEPTANCE: acc[a] = passes with a sender registered
  journal,  \* ALERT_DELIVERY_JOURNALS: the alerts with a journal
  ledger,   \* the event ledger's dedupe keys: [mem, disk]
  disp,     \* the dispatcher: [at, a, i, ok, j]
  sent,     \* history: sent[a][d] messages d accepted (2 means "2 or more")
  jsent     \* history: the ones of them sent under a journal

store      == <<mem, disk, fresh>>
passes     == <<pc, item, verdict>>
registries == <<acc, journal>>
history    == <<sent, jsent>>
vars == <<mem, disk, fresh, pc, item, verdict, queue, acc, journal, ledger, disp, sent, jsent>>

Life          == {"unseen", "pending", "retired", "suppressed"}
DeliveryState == {"none", "claimed", "delivered", "failed"}
StoreState    == [life : [Alerts -> Life], deliv : [Alerts -> [Dests -> DeliveryState]]]
Count         == 0..2
Idle          == [at |-> "idle", a |-> 0, i |-> 0, ok |-> FALSE, j |-> FALSE]

EmptyStore == [life  |-> [a \in Alerts |-> "unseen"],
               deliv |-> [a \in Alerts |-> [d \in Dests |-> "none"]]]

Init ==
  /\ mem = EmptyStore /\ disk = EmptyStore /\ fresh = {}
  /\ pc = [w \in Passes |-> "idle"]
  /\ item = [w \in Passes |-> 0]
  /\ verdict = [w \in Passes |-> "none"]
  /\ queue = <<>>
  /\ acc = [a \in Alerts |-> {}] /\ journal = {}
  /\ ledger = [mem |-> {}, disk |-> {}]
  /\ disp = Idle
  /\ sent  = [a \in Alerts |-> [d \in Dests |-> 0]]
  /\ jsent = [a \in Alerts |-> [d \in Dests |-> 0]]

----------------------------------------------------------------------------
(* The lane store.                                                         *)

Pending(a) == mem.life[a] = "pending"

\* Every mutation changes memory first; persist_locked then renames a new file
\* into place, or fails before the rename or (on the directory sync) after it.
\* The holders of the updated copy are the only ones whose revision matches.
Persisted(m, holders) ==
  /\ mem' = m
  /\ disk' = m
  /\ fresh' = holders

PersistFails(m) ==
  /\ "persist" \in Faults
  /\ mem' = m
  /\ disk' \in {disk, m}
  /\ fresh' = {}

WithLife(a, l)     == [mem EXCEPT !.life[a] = l]
WithDeliv(a, d, s) == [mem EXCEPT !.deliv[a][d] = s]

\* Mutant: an alert is only compared with the alerts still pending, so that the
\* observation it came from can stage it once more.
StageOnceMore(a) ==
  /\ mem.life[a] # "pending"
  /\ Cardinality({b \in Alerts : Pending(b)}) < MaxPending
  /\ LET m == [life  |-> [mem.life EXCEPT ![a] = "pending"],
               deliv |-> [mem.deliv EXCEPT ![a] = [d \in Dests |-> "none"]]]
     IN Persisted(m, {})
  /\ UNCHANGED <<passes, queue, registries, ledger, disp, history>>

\* apply_observation, mark_unavailable, enqueue_endpoint_failure: an alert is
\* staged in the same write as the observation it comes from.  A full queue
\* rejects the observation.  The write may fail with the alert in memory only.
Stage(a) ==
  /\ mem.life[a] = "unseen"
  /\ \A b \in Alerts : b < a => mem.life[b] # "unseen"
  /\ Cardinality({b \in Alerts : Pending(b)}) < MaxPending
  /\ LET m == [life  |-> [mem.life EXCEPT ![a] = "pending"],
               deliv |-> [mem.deliv EXCEPT ![a] = [d \in Dests |-> "none"]]]
     IN Persisted(m, {}) \/ PersistFails(m)
  /\ UNCHANGED <<passes, queue, registries, ledger, disp, history>>

\* Any other handler that moves the record's revision: bridge ingress,
\* resume_suspended, set_sdk_revision_if, a PR reconcile.
OtherMutation ==
  /\ "mutation" \in Faults
  /\ Persisted(mem, {}) \/ PersistFails(mem)
  /\ UNCHANGED <<passes, queue, registries, ledger, disp, history>>

----------------------------------------------------------------------------
(* A replay pass.                                                          *)

Goto(w, l) == pc' = [pc EXCEPT ![w] = l]

\* The loop head: the first pending alert of the copy the pass holds.
Oldest(a) == Pending(a) /\ \A b \in Alerts : b < a => ~Pending(b)

Begin(w) ==
  /\ pc[w] = "idle"
  /\ \E a \in Alerts :
       /\ Oldest(a)
       /\ item' = [item EXCEPT ![w] = a]
  /\ fresh' = fresh \cup {w}
  /\ Goto(w, "reserve")
  /\ UNCHANGED <<mem, disk, verdict, queue, registries, ledger, disp, history>>

\* mpsc capacity: queued events and permits held by passes.
Permits == {w \in Passes : pc[w] \in {"check", "send"}}
Room    == Len(queue) + Cardinality(Permits) < QueueCap

\* The permit comes first, then the compare-and-swap that counts the attempt.
\* A stale copy, or a failed write, ends the pass and gives the permit back.
Reserve(w) ==
  /\ pc[w] = "reserve"
  /\ Room
  /\ \/ /\ w \in fresh
        /\ Persisted(mem, {w})
        /\ Goto(w, IF item[w] \in FailureAlerts THEN "check" ELSE "send")
     \/ /\ w \in fresh
        /\ PersistFails(mem)
        /\ Goto(w, "idle")
     \/ /\ w \notin fresh
        /\ Goto(w, "idle")
        /\ UNCHANGED store
  /\ UNCHANGED <<item, verdict, queue, registries, ledger, disp, history>>

\* tx.reserve timed out on a full channel.
ReserveTimeout(w) ==
  /\ pc[w] = "reserve"
  /\ ~Room
  /\ Goto(w, "idle")
  /\ UNCHANGED <<store, item, verdict, queue, registries, ledger, disp, history>>

\* A turn failure is checked against the session as it is now.  The query may
\* fail or say nothing about the turn (Unknown): the pass ends.  A newer
\* observation is applied first, which moves the revision or, on a stale copy,
\* ends the pass.  Current goes on to send; Superseded withdraws the alert.
Authority(w) ==
  /\ pc[w] = "check"
  /\ \/ /\ Goto(w, "idle")
        /\ UNCHANGED store
     \/ /\ Goto(w, "send")
        /\ UNCHANGED store \/ (w \in fresh /\ Persisted(mem, {w}))
     \/ /\ w \in fresh
        /\ LET m == IF Pending(item[w]) THEN WithLife(item[w], "suppressed") ELSE mem
           IN Persisted(m, {w}) \/ PersistFails(m)
        /\ Goto(w, "idle")
  /\ UNCHANGED <<item, verdict, queue, registries, ledger, disp, history>>

\* register_alert_delivery_journal, register_alert_acceptance, permit.send.
Send(w) ==
  /\ pc[w] = "send"
  /\ journal' = journal \cup {item[w]}
  /\ acc' = [acc EXCEPT ![item[w]] = @ \cup {w}]
  /\ verdict' = [verdict EXCEPT ![w] = "none"]
  /\ queue' = Append(queue, item[w])
  /\ Goto(w, "wait")
  /\ UNCHANGED <<store, item, ledger, disp, history>>

Accepted(w) ==
  /\ pc[w] = "wait" /\ verdict[w] = "yes"
  /\ Goto(w, "accepted")
  /\ UNCHANGED <<store, item, verdict, queue, registries, ledger, disp, history>>

NotAccepted(w) ==
  /\ pc[w] = "wait" /\ verdict[w] = "no"
  /\ Goto(w, "cancel")
  /\ UNCHANGED <<store, item, verdict, queue, registries, ledger, disp, history>>

\* ALERT_ACCEPTANCE_TIMEOUT: five seconds from the send, whatever the
\* dispatcher is doing with this event or with those before it.
AcceptanceTimeout(w) ==
  /\ "timeout" \in Faults
  /\ pc[w] = "wait" /\ verdict[w] = "none"
  /\ Goto(w, "cancel")
  /\ UNCHANGED <<store, item, verdict, queue, registries, ledger, disp, history>>

\* Mutant: the entry goes, but the other passes waiting on it are never told.
CancelSilently(w) ==
  /\ pc[w] = "cancel"
  /\ acc' = [acc EXCEPT ![item[w]] = {}]
  /\ Goto(w, "cancelled")
  /\ UNCHANGED <<store, item, verdict, queue, journal, ledger, disp, history>>

\* Removing the entry drops the senders of every pass that waits on this alert,
\* and a dropped sender is a refusal.
Cancel(w) ==
  /\ pc[w] = "cancel"
  /\ acc' = [acc EXCEPT ![item[w]] = {}]
  /\ verdict' = [v \in Passes |-> IF v \in acc[item[w]] THEN "no" ELSE verdict[v]]
  /\ Goto(w, "cancelled")
  /\ UNCHANGED <<store, item, queue, journal, ledger, disp, history>>

\* clear_alert_delivery_journal removes whatever journal the id has, also one
\* another pass has just registered.
DropJournal(w) ==
  /\ \/ pc[w] = "cancelled" /\ Goto(w, "idle")
     \/ pc[w] = "accepted"  /\ Goto(w, "ack")
  /\ journal' = journal \ {item[w]}
  /\ UNCHANGED <<store, item, verdict, queue, acc, ledger, disp, history>>

\* acknowledge_pending_alert: nothing to write when the alert is gone already.
Acknowledge(w) ==
  LET m == WithLife(item[w], "retired")
  IN IF Pending(item[w]) THEN Persisted(m, {w}) \/ PersistFails(m) ELSE UNCHANGED store

\* A first attempt with the revision of the copy, a second one with a re-read
\* record; a second conflict leaves the alert for the next turn of the loop.
Ack(w) ==
  /\ \/ /\ pc[w] = "ack" /\ w \notin fresh
        /\ fresh' = fresh \cup {w}
        /\ Goto(w, "ack again")
        /\ UNCHANGED <<mem, disk>>
     \/ /\ pc[w] \in {"ack", "ack again"} /\ w \in fresh
        /\ Acknowledge(w)
        /\ Goto(w, "idle")
     \/ /\ pc[w] = "ack again" /\ w \notin fresh
        /\ Goto(w, "idle")
        /\ UNCHANGED store
  /\ UNCHANGED <<item, verdict, queue, registries, ledger, disp, history>>

----------------------------------------------------------------------------
(* The dispatcher.                                                         *)

\* Mutant: every dispatched event counts as accepted.
ResolveAccepted(a, accepted) ==
  /\ acc' = [acc EXCEPT ![a] = {}]
  /\ verdict' = [w \in Passes |-> IF w \in acc[a] THEN "yes" ELSE verdict[w]]

\* Mutant: the senders are removed and forgotten.
ResolveNobody(a, accepted) == acc' = [acc EXCEPT ![a] = {}] /\ UNCHANGED verdict

\* resolve_alert_acceptance_id: every registered sender gets the verdict.
Resolve(a, accepted) ==
  /\ acc' = [acc EXCEPT ![a] = {}]
  /\ verdict' = [w \in Passes |-> IF w \in acc[a]
                                  THEN IF accepted THEN "yes" ELSE "no"
                                  ELSE verdict[w]]

\* A recorded event that no journal owns is suppressed (and counts as accepted).
Suppressed(a) == LedgerOn /\ a \in ledger.mem /\ a \notin journal

\* rx.recv: the oldest event of the channel is taken while the dispatcher is free.
Received(a) ==
  /\ disp.at = "idle"
  /\ queue # <<>>
  /\ a = Head(queue)
  /\ queue' = Tail(queue)
  /\ UNCHANGED <<store, pc, item, journal, history>>

SkipDuplicate(a) ==
  /\ Received(a)
  /\ Suppressed(a)
  /\ Resolve(a, TRUE)
  /\ UNCHANGED <<disp, ledger>>

\* A failed append rejects the event; its line may be on disk all the same (a
\* sync error after the write).
RejectUnrecorded(a) ==
  /\ Received(a)
  /\ LedgerOn /\ "ledger" \in Faults /\ a \notin ledger.mem
  /\ ledger' \in {ledger, [ledger EXCEPT !.disk = @ \cup {a}]}
  /\ Resolve(a, FALSE)
  /\ UNCHANGED disp

\* The event enters dispatch, recorded first if there is a ledger.  A routing
\* error, or a route with no delivery, ends it at once as not accepted.
Enter(a) ==
  /\ Received(a)
  /\ ~Suppressed(a)
  /\ ledger' = IF LedgerOn THEN [mem  |-> ledger.mem \cup {a},
                                 disk |-> ledger.disk \cup {a}] ELSE ledger
  /\ \/ /\ Route[a] # <<>>
        /\ disp' = [at |-> "next", a |-> a, i |-> 1, ok |-> TRUE, j |-> FALSE]
     \/ /\ Route[a] = <<>> \/ "route" \in Faults
        /\ disp' = [at |-> "next", a |-> a, i |-> Len(Route[a]) + 1, ok |-> FALSE, j |-> FALSE]
  /\ UNCHANGED <<acc, verdict>>

Receive == \E a \in Alerts : SkipDuplicate(a) \/ RejectUnrecorded(a) \/ Enter(a)

Dest == Route[disp.a][disp.i]

\* Mutant: the last destination decides (`accepted =` for `accepted &=`).
StepLastDecides(ok) ==
  [at |-> "next", a |-> disp.a, i |-> disp.i + 1, ok |-> ok, j |-> FALSE]

\* The next delivery; the event is accepted if all of its deliveries are.
Step(ok) ==
  [at |-> "next", a |-> disp.a, i |-> disp.i + 1, ok |-> disp.ok /\ ok, j |-> FALSE]

\* The same delivery, one stage further; j: under a journal.
Stay(place, j) == [at |-> place, a |-> disp.a, i |-> disp.i, ok |-> disp.ok, j |-> j]

\* Mutant: a claim without an outcome is taken for unserved.
SkipsDelivered(a, d) == Pending(a) /\ mem.deliv[a][d] = "delivered"

\* A destination another attempt owns or has served is not sent again.
Skips(a, d) == Pending(a) /\ mem.deliv[a][d] \in {"claimed", "delivered"}

\* update_pending_alert_delivery: only a pending alert has a delivery map, a
\* delivered destination and a repeated claim stay as they are, and a change
\* that did not reach the disk is reported as refused, although memory keeps it.
Keeps(old, new) == old = "delivered" \/ (old = "claimed" /\ new = "claimed")

\* Mutant: a claim that failed to reach the disk is granted.
UpdateUnsynced(a, d, new, ok) ==
  \/ Pending(a) /\ Keeps(mem.deliv[a][d], new) /\ ok /\ UNCHANGED store
  \/ /\ Pending(a) /\ ~Keeps(mem.deliv[a][d], new) /\ ok
     /\ Persisted(WithDeliv(a, d, new), {}) \/ PersistFails(WithDeliv(a, d, new))
  \/ ~Pending(a) /\ ~ok /\ UNCHANGED store

UpdateDelivery(a, d, new, ok) ==
  \/ Pending(a) /\ Keeps(mem.deliv[a][d], new) /\ ok /\ UNCHANGED store
  \/ /\ Pending(a) /\ ~Keeps(mem.deliv[a][d], new)
     /\ IF ok THEN Persisted(WithDeliv(a, d, new), {})
              ELSE PersistFails(WithDeliv(a, d, new))
  \/ ~Pending(a) /\ ~ok /\ UNCHANGED store

\* The head of send_delivery.  The journal is looked up per delivery, so it may
\* be there for one destination of an event and gone for the next.
SendDelivery ==
  /\ disp.at = "next"
  /\ disp.i <= Len(Route[disp.a])
  /\ \/ /\ disp.a \in journal
        /\ Skips(disp.a, Dest)
        /\ disp' = Step(TRUE)
        /\ UNCHANGED store
     \/ /\ disp.a \in journal
        /\ ~Skips(disp.a, Dest)
        /\ \E claimed \in BOOLEAN :
             /\ UpdateDelivery(disp.a, Dest, "claimed", claimed)
             /\ disp' = IF claimed THEN Stay("send", TRUE) ELSE Step(FALSE)
     \/ /\ disp.a \notin journal
        /\ disp' = Stay("send", FALSE)
        /\ UNCHANGED store
  /\ UNCHANGED <<passes, queue, registries, ledger, history>>

Up(n) == IF n = 2 THEN 2 ELSE n + 1

SinkAccepts ==
  /\ disp.at = "send"
  /\ disp' = Stay("sent", disp.j)
  /\ sent' = [sent EXCEPT ![disp.a][Dest] = Up(@)]
  /\ jsent' = IF disp.j THEN [jsent EXCEPT ![disp.a][Dest] = Up(@)] ELSE jsent
  /\ UNCHANGED <<store, passes, queue, registries, ledger>>

\* The sink is missing, the rendering fails, or the destination refuses.
SinkFails ==
  /\ "sink" \in Faults
  /\ disp.at = "send"
  /\ disp' = Stay("failed", disp.j)
  /\ UNCHANGED <<store, passes, queue, registries, ledger, history>>

\* finish: under a journal the outcome is recorded, and a success that could not
\* be recorded does not count.
Finish ==
  /\ disp.at \in {"sent", "failed"}
  /\ LET delivered == disp.at = "sent"
         outcome   == IF delivered THEN "delivered" ELSE "failed"
     IN \/ /\ ~disp.j
           /\ disp' = Step(delivered)
           /\ UNCHANGED store
        \/ /\ disp.j
           /\ \E recorded \in BOOLEAN :
                /\ UpdateDelivery(disp.a, Dest, outcome, recorded)
                /\ disp' = Step(delivered /\ recorded)
  /\ UNCHANGED <<passes, queue, registries, ledger, history>>

\* All deliveries done: the journal goes first, the verdict second.
Conclude ==
  /\ \/ /\ disp.at = "next" /\ disp.i > Len(Route[disp.a])
        /\ journal' = journal \ {disp.a}
        /\ disp' = Stay("resolve", FALSE)
        /\ UNCHANGED <<acc, verdict>>
     \/ /\ disp.at = "resolve"
        /\ Resolve(disp.a, disp.ok)
        /\ disp' = Idle
        /\ UNCHANGED journal
  /\ UNCHANGED <<store, pc, item, queue, ledger, history>>

----------------------------------------------------------------------------
\* A crash loses everything but the two files; open() and load() read them back.
Crash ==
  /\ "crash" \in Faults
  /\ mem' = disk /\ fresh' = {}
  /\ pc' = [w \in Passes |-> "idle"]
  /\ item' = [w \in Passes |-> 0]
  /\ verdict' = [w \in Passes |-> "none"]
  /\ queue' = <<>>
  /\ acc' = [a \in Alerts |-> {}] /\ journal' = {}
  /\ ledger' = [ledger EXCEPT !.mem = ledger.disk]
  /\ disp' = Idle
  /\ UNCHANGED <<disk, history>>

Pass(w) ==
  \/ Begin(w) \/ Reserve(w) \/ ReserveTimeout(w) \/ Authority(w) \/ Send(w)
  \/ Accepted(w) \/ NotAccepted(w) \/ AcceptanceTimeout(w)
  \/ Cancel(w) \/ DropJournal(w) \/ Ack(w)

Dispatch ==
  Receive \/ SendDelivery \/ SinkAccepts \/ SinkFails \/ Finish \/ Conclude

Next ==
  \/ \E a \in Alerts : Stage(a)
  \/ OtherMutation
  \/ \E w \in Passes : Pass(w)
  \/ Dispatch
  \/ Crash

Spec == Init /\ [][Next]_vars

\* Tasks are scheduled fairly; a destination that is tried again and again is
\* reached in the end.
Fairness ==
  /\ \A w \in Passes : WF_vars(Pass(w))
  /\ WF_vars(Dispatch)
  /\ SF_vars(SinkAccepts)

FairSpec == Spec /\ Fairness

----------------------------------------------------------------------------
(* Properties.                                                             *)

\* The values each variable takes.
StoreTypes == mem \in StoreState /\ disk \in StoreState /\ fresh \subseteq Passes

PassTypes ==
  /\ pc \in [Passes -> {"idle", "reserve", "check", "send", "wait", "accepted",
                        "cancel", "cancelled", "ack", "ack again"}]
  /\ item \in [Passes -> Alerts \cup {0}]
  /\ \A w \in Passes : pc[w] # "idle" => item[w] \in Alerts
  /\ verdict \in [Passes -> {"none", "yes", "no"}]

ChannelTypes ==
  /\ queue \in Seq(Alerts)
  /\ acc \in [Alerts -> SUBSET Passes]
  /\ journal \subseteq Alerts
  /\ ledger \in [mem : SUBSET Alerts, disk : SUBSET Alerts]

Places == {"idle", "next", "send", "sent", "failed", "resolve"}

DispatchTypes ==
  /\ disp \in [at : Places, a : Alerts \cup {0}, i : Nat, ok : BOOLEAN, j : BOOLEAN]
  /\ disp.at # "idle" => disp.a \in Alerts /\ disp.i \in 1..(Len(Route[disp.a]) + 1)
  /\ disp.at \in {"send", "sent", "failed"} => disp.i <= Len(Route[disp.a])

HistoryTypes == sent \in [Alerts -> [Dests -> Count]] /\ jsent \in [Alerts -> [Dests -> Count]]

Types == StoreTypes /\ PassTypes /\ ChannelTypes /\ DispatchTypes /\ HistoryTypes

\* The channel never holds more than its capacity, the permits of the passes
\* that have not sent yet included (tx.reserve, permit.send).
ChannelBounded == Len(queue) + Cardinality(Permits) <= QueueCap

\* Every variable keeps its type, and the event channel its bound.
TypeOK == Types /\ ChannelBounded

\* Under a journal no destination gets an alert twice, whatever is lost, late,
\* repeated or restarted in between (dispatch.rs 39-44).
JournaledAtMostOnce ==
  \A a \in Alerts, d \in Dests : jsent[a][d] <= 1

\* The strengthening that makes it inductive: a message that went out under a
\* journal is on record as claimed or delivered in memory AND on disk, so that
\* neither a retry nor a restart can take the destination for unserved.
ServedIsRecorded ==
  \A a \in Alerts, d \in Dests :
    jsent[a][d] = 1 => /\ mem.deliv[a][d]  \in {"claimed", "delivered"}
                       /\ disk.deliv[a][d] \in {"claimed", "delivered"}

\* The sink is called under a journal only while the claim is durable and the
\* destination has not been served.
ClaimedBeforeSend ==
  disp.j /\ disp.at \in {"send", "failed"} =>
    /\ mem.deliv[disp.a][Dest] = "claimed"
    /\ disk.deliv[disp.a][Dest] = "claimed"
    /\ jsent[disp.a][Dest] = 0

\* A claim on disk implies its alert was staged on disk.
UnseenIsUnclaimed ==
  \A a \in Alerts, d \in Dests :
    /\ mem.life[a]  = "unseen" => mem.deliv[a][d]  = "none"
    /\ disk.life[a] = "unseen" => disk.deliv[a][d] = "none"

\* The inductive invariant behind JournaledAtMostOnce.
ServiceInv ==
  /\ JournaledAtMostOnce
  /\ ServedIsRecorded
  /\ ClaimedBeforeSend
  /\ UnseenIsUnclaimed

\* No destination ever gets an alert twice, by any path.
AtMostOnce == \A a \in Alerts, d \in Dests : sent[a][d] <= 1

\* An alert is retired only after every destination has accepted it or is in
\* doubt, a claim a crash has cut off: an explicit failure stays retryable, and
\* no destination is passed over (dispatch.rs 43-44).
RetiredMeansDelivered ==
  \A a \in Alerts : mem.life[a] = "retired" =>
    \A i \in 1..Len(Route[a]) :
      LET d == Route[a][i] IN sent[a][d] >= 1 \/ mem.deliv[a][d] = "claimed"

\* Alerts of one lane go out in the order they were staged: the pass works on
\* the head of the list and stops there when it fails (replay_pending_alerts).
InOrder ==
  \A a, b \in Alerts : a < b /\ (\E d \in Dests : sent[b][d] > 0)
    => mem.life[a] \in {"retired", "suppressed"}

\* The outbox of a lane is a queue whose entries leave it only when they are served:
\* none is retired too early, and none overtaken.
RetiredInOrder == RetiredMeansDelivered /\ InOrder

\* A sender in the acceptance map belongs to a pass that still waits for this
\* alert and has no answer, and a pass that waits without an answer has a sender
\* there: no verdict reaches a pass that has moved on, and no pass is left waiting
\* on an entry that another pass or the dispatcher has removed.
AcceptanceOwned ==
  /\ \A a \in Alerts, w \in Passes : w \in acc[a] =>
       pc[w] \in {"wait", "cancel"} /\ item[w] = a /\ verdict[w] = "none"
  /\ \A w \in Passes : pc[w] = "wait" /\ verdict[w] = "none" => w \in acc[item[w]]

PipelineInv == TypeOK /\ AcceptanceOwned

\* What the disk says was delivered, it says for good.
DeliveredIsFinal ==
  [][\A a \in Alerts, d \in Dests :
       disk.deliv[a][d] = "delivered" => disk'.deliv[a][d] = "delivered"]_vars

\* What may keep an alert from settling if it never ends: crashes, writes of
\* other handlers between a pass and its acknowledgement, a ledger or a router
\* that refuses, a session that does not answer for its turn.
Disturbance ==
  \/ Crash
  \/ OtherMutation
  \/ \E a \in Alerts : RejectUnrecorded(a)
  \/ disp.at = "idle" /\ disp'.at = "next" /\ ~disp'.ok
  \/ \E w \in Passes : pc[w] = "check" /\ pc'[w] = "idle" /\ Pending(item[w]) /\ mem' = mem

Calm == <>[][~Disturbance]_vars

\* A staged alert is retired or withdrawn once the disturbances end, however
\* many there were and wherever they struck: nothing they leave behind (a
\* recorded event, a stale copy, a claim without an outcome, a dead sender)
\* blocks the lane (replay_pending_alerts, Dispatcher::run).
EveryAlertSettles ==
  Calm => <>[](\A a \in Alerts : mem.life[a] \in {"unseen", "retired", "suppressed"})

----------------------------------------------------------------------------
(* The pipeline implements the outbox: the disk is the outbox, and a claim  *)
(* the dispatcher does not hold is a delivery in doubt.                    *)

InFlight(a, d) == disp.j /\ disp.at \in {"send", "sent", "failed"} /\ disp.a = a /\ Dest = d

Outbox == INSTANCE AlertOutbox WITH
  Owed <- [a \in Alerts |-> {Route[a][i] : i \in 1..Len(Route[a])}],
  life <- disk.life,
  slot <- [a \in Alerts |-> [d \in Dests |->
             IF disk.deliv[a][d] = "claimed" /\ ~InFlight(a, d) THEN "doubt"
             ELSE disk.deliv[a][d]]]

ImplementsOutbox == Outbox!Spec
=============================================================================
