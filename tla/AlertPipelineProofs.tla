------------------------ MODULE AlertPipelineProofs ------------------------
(***************************************************************************)
(* Proofs about AlertPipeline, for every number of alerts, destinations,   *)
(* routes and concurrent passes, with every fault allowed.                 *)
(*                                                                         *)
(*   TypeCorrectness  Spec => []TypeOK (types, and the channel bound)      *)
(*   AcceptanceAlwaysOwned                                                 *)
(*                    Spec => []PipelineInv, by itself inductive with      *)
(*                    the types: who waits owns the entry it waits on      *)
(*   AtMostOnceUnderJournal                                                *)
(*                    Spec => []JournaledAtMostOnce, by the inductive      *)
(*                    invariant ServiceInv (checked by TLC as well)        *)
(*   DeliveredForGood                                                      *)
(*                    Spec => DeliveredIsFinal: a delivery the disk has on *)
(*                    record is never unmade                               *)
(*   AtMostOnceAlone, RetiredInOrderAlone                                  *)
(*                    Spec => []AtMostOnce and Spec => []RetiredInOrder,   *)
(*                    for one pass at a time whose verdicts are not late:  *)
(*                    both are false of the code without that              *)
(*   PipelineIsOutbox                                                      *)
(*                    Spec => ImplementsOutbox under the same hypothesis,  *)
(*                    when no write of the store fails                     *)
(***************************************************************************)
EXTENDS AlertPipeline, FiniteSetTheorems, TLAPS

----------------------------------------------------------------------------
(* Facts about the operators the actions are built from.                   *)

\* The destination the dispatcher is at is one of the alert's route.
LEMMA DestType ==
  ASSUME DispatchTypes, disp.at # "idle", disp.i <= Len(Route[disp.a])
  PROVE  disp.a \in Alerts /\ Dest \in Dests
<1>1. disp.a \in Alerts /\ disp.i \in 1..(Len(Route[disp.a]) + 1)
  BY DEF DispatchTypes
<1>2. Route[disp.a] \in Seq(Dests)
  BY <1>1, PipelineConstants DEF PipelineConstants
<1>3. disp.i \in 1..Len(Route[disp.a])
  BY <1>1, <1>2
<1>4. QED
  BY <1>1, <1>2, <1>3 DEF Dest

\* The store operators build stores (gjc_lane.rs, the record updates).
LEMMA StoreUpdates ==
  ASSUME StoreTypes, NEW a \in Alerts, NEW d \in Dests,
         NEW l \in Life, NEW s \in DeliveryState
  PROVE  WithLife(a, l) \in StoreState /\ WithDeliv(a, d, s) \in StoreState
BY DEF StoreTypes, WithLife, WithDeliv, StoreState

\* Whatever becomes of a write, memory and disk hold stores afterwards.
LEMMA WritesKeepStores ==
  ASSUME StoreTypes, NEW m \in StoreState, NEW h \in SUBSET Passes,
         Persisted(m, h) \/ PersistFails(m)
  PROVE  mem' \in StoreState /\ disk' \in StoreState /\ fresh' \subseteq Passes
BY DEF StoreTypes, Persisted, PersistFails

----------------------------------------------------------------------------
(* Types.                                                                  *)

\* The initial state is well typed (GjcLaneStore::open on a missing file).
LEMMA TypesInit == Init => Types
BY PipelineConstants
   DEF Init, Types, StoreTypes, PassTypes, ChannelTypes, DispatchTypes, HistoryTypes,
       StoreState, EmptyStore, Life, DeliveryState, Count, Idle, Places

\* What a step of a pass does to the program counters.
LEMMA GotoType ==
  ASSUME PassTypes, NEW w \in Passes, item[w] \in Alerts,
         NEW l \in {"idle", "reserve", "check", "send", "wait", "accepted",
                    "cancel", "cancelled", "ack", "ack again"},
         Goto(w, l), UNCHANGED <<item, verdict>>
  PROVE  PassTypes'
BY DEF PassTypes, Goto

LEMMA TypesStage ==
  ASSUME Types, NEW a \in Alerts, Stage(a)  PROVE Types'
<1> DEFINE m == [life  |-> [mem.life EXCEPT ![a] = "pending"],
                 deliv |-> [mem.deliv EXCEPT ![a] = [d \in Dests |-> "none"]]]
<1>1. m \in StoreState
  BY DEF Types, StoreTypes, StoreState, Life, DeliveryState
<1>2. StoreTypes'
  <2>1. Persisted(m, {}) \/ PersistFails(m)
    BY DEF Stage
  <2>2. QED
    BY <1>1, <2>1, WritesKeepStores DEF Types, StoreTypes
<1>3. PassTypes' /\ ChannelTypes' /\ DispatchTypes' /\ HistoryTypes'
  BY DEF Types, Stage, PassTypes, ChannelTypes, DispatchTypes, HistoryTypes,
         passes, registries, history
<1>4. QED
  BY <1>2, <1>3 DEF Types

LEMMA TypesOtherMutation ==
  ASSUME Types, OtherMutation  PROVE Types'
<1>1. StoreTypes'
  BY WritesKeepStores DEF Types, StoreTypes, OtherMutation
<1>2. PassTypes' /\ ChannelTypes' /\ DispatchTypes' /\ HistoryTypes'
  BY DEF Types, OtherMutation, PassTypes, ChannelTypes, DispatchTypes, HistoryTypes,
         passes, registries, history
<1>3. QED
  BY <1>1, <1>2 DEF Types

LEMMA TypesPass ==
  ASSUME Types, NEW w \in Passes, Pass(w)  PROVE Types'
<1>1. StoreTypes'
  <2>0. mem \in StoreState
    BY DEF Types, StoreTypes
  <2>1. CASE Reserve(w)
    BY <2>0, <2>1, WritesKeepStores DEF Types, StoreTypes, Reserve, store
  <2>2. CASE Authority(w)
    <3>1. item[w] \in Alerts
      BY <2>2 DEF Types, PassTypes, Authority
    <3>2. WithLife(item[w], "suppressed") \in StoreState
      BY <3>1, StoreUpdates DEF Types, StoreTypes, StoreState, WithLife, Life
    <3>3. QED
      BY <2>0, <2>2, <3>2, WritesKeepStores DEF Types, StoreTypes, Authority, store
  <2>3. CASE Ack(w)
    <3>1. item[w] \in Alerts
      BY <2>3 DEF Types, PassTypes, Ack
    <3>2. WithLife(item[w], "retired") \in StoreState
      BY <3>1, StoreUpdates DEF Types, StoreTypes, StoreState, WithLife, Life
    <3>3. QED
      BY <2>0, <2>3, <3>2, WritesKeepStores DEF Types, StoreTypes, Ack, Acknowledge, store
  <2>4. CASE Begin(w)
    BY <2>4 DEF Types, StoreTypes, Begin
  <2>5. CASE UNCHANGED store
    BY <2>5 DEF Types, StoreTypes, store
  <2>6. QED
    BY <2>1, <2>2, <2>3, <2>4, <2>5
       DEF Pass, ReserveTimeout, Send, Accepted, NotAccepted, AcceptanceTimeout, Cancel, DropJournal
<1>2. PassTypes'
  <2>1. CASE Begin(w)
    BY <2>1 DEF Types, PassTypes, Begin, Goto, Oldest
  <2>2. CASE Reserve(w) \/ ReserveTimeout(w) \/ Authority(w)
    BY <2>2, GotoType DEF Types, PassTypes, Reserve, ReserveTimeout, Authority, Goto
  <2>3. CASE Send(w) \/ Cancel(w)
    BY <2>3 DEF Types, PassTypes, Send, Cancel, Goto
  <2>4. CASE Accepted(w) \/ NotAccepted(w) \/ AcceptanceTimeout(w)
    BY <2>4 DEF Types, PassTypes, Accepted, NotAccepted, AcceptanceTimeout, Goto
  <2>5. CASE DropJournal(w) \/ Ack(w)
    BY <2>5 DEF Types, PassTypes, DropJournal, Ack, Goto
  <2>6. QED
    BY <2>1, <2>2, <2>3, <2>4, <2>5 DEF Pass
<1>3. ChannelTypes'
  <2>1. CASE Send(w)
    <3>1. item[w] \in Alerts
      BY <2>1 DEF Types, PassTypes, Send
    <3>2. QED
      BY <2>1, <3>1 DEF Types, ChannelTypes, Send
  <2>2. CASE Cancel(w)
    BY <2>2 DEF Types, ChannelTypes, Cancel
  <2>3. CASE DropJournal(w)
    BY <2>3 DEF Types, ChannelTypes, DropJournal
  <2>4. CASE UNCHANGED <<queue, acc, journal, ledger>>
    BY <2>4 DEF Types, ChannelTypes
  <2>5. QED
    BY <2>1, <2>2, <2>3, <2>4
       DEF Pass, Begin, Reserve, ReserveTimeout, Authority, Accepted, NotAccepted,
           AcceptanceTimeout, Ack, registries
<1>4. DispatchTypes' /\ HistoryTypes'
  <2>1. UNCHANGED <<disp, sent, jsent>>
    BY DEF Pass, Begin, Reserve, ReserveTimeout, Authority, Send, Accepted, NotAccepted,
           AcceptanceTimeout, Cancel, DropJournal, Ack, history
  <2>2. QED
    BY <2>1 DEF Types, DispatchTypes, HistoryTypes
<1>5. QED
  BY <1>1, <1>2, <1>3, <1>4 DEF Types

\* The outcome of a delivery is written to the store, or the store stays.
LEMMA UpdateTypes ==
  ASSUME StoreTypes, NEW a \in Alerts, NEW d \in Dests, NEW s \in DeliveryState,
         NEW ok \in BOOLEAN, UpdateDelivery(a, d, s, ok)
  PROVE  StoreTypes'
<1>1. WithDeliv(a, d, s) \in StoreState
  BY StoreUpdates DEF Life
<1>2. QED
  BY <1>1, WritesKeepStores DEF UpdateDelivery, StoreTypes, store

\* Where the dispatcher stands after a delivery, or after a stage of it.
LEMMA StepType ==
  ASSUME DispatchTypes, disp.at # "idle", disp.i <= Len(Route[disp.a]),
         NEW ok \in BOOLEAN, disp' = Step(ok)
  PROVE  DispatchTypes'
<1>1. Len(Route[disp.a]) \in Nat
  BY PipelineConstants DEF PipelineConstants, DispatchTypes
<1>2. (disp.ok /\ ok) \in BOOLEAN
  OBVIOUS
<1>3. disp'.at = "next" /\ disp'.a = disp.a /\ disp'.i = disp.i + 1
  BY DEF Step
<1>4. disp' \in [at : Places, a : Alerts \cup {0}, i : Nat, ok : BOOLEAN, j : BOOLEAN]
  BY <1>2 DEF Step, DispatchTypes, Places
<1>5. QED
  BY <1>1, <1>3, <1>4 DEF DispatchTypes

LEMMA StayType ==
  ASSUME DispatchTypes, disp.at # "idle",
         NEW place \in Places \ {"idle"}, NEW j \in BOOLEAN, disp' = Stay(place, j),
         place \in {"send", "sent", "failed"} => disp.i <= Len(Route[disp.a])
  PROVE  DispatchTypes'
BY DEF Stay, DispatchTypes

LEMMA TypesDispatch ==
  ASSUME Types, Dispatch  PROVE Types'
<1> USE DEF Types
<1>0. \/ Receive \/ SendDelivery \/ SinkAccepts \/ SinkFails \/ Finish \/ Conclude
  BY DEF Dispatch
<1>1. StoreTypes'
  <2>1. CASE SendDelivery
    <3>1. disp.a \in Alerts /\ Dest \in Dests
      BY <2>1, DestType DEF SendDelivery
    <3>2. CASE UNCHANGED store
      BY <3>2 DEF StoreTypes, store
    <3>3. CASE \E ok \in BOOLEAN : UpdateDelivery(disp.a, Dest, "claimed", ok)
      BY <3>1, <3>3, UpdateTypes DEF DeliveryState
    <3>4. QED
      BY <2>1, <3>2, <3>3 DEF SendDelivery
  <2>2. CASE Finish
    <3>1. disp.a \in Alerts /\ Dest \in Dests
      BY <2>2, DestType DEF DispatchTypes, Finish
    <3>2. CASE UNCHANGED store
      BY <3>2 DEF StoreTypes, store
    <3>3. CASE \E ok \in BOOLEAN, s \in {"delivered", "failed"} :
                 UpdateDelivery(disp.a, Dest, s, ok)
      BY <3>1, <3>3, UpdateTypes DEF DeliveryState
    <3>4. QED
      BY <2>2, <3>2, <3>3 DEF Finish
  <2>3. CASE UNCHANGED store
    BY <2>3 DEF StoreTypes, store
  <2>4. QED
    BY <1>0, <2>1, <2>2, <2>3
       DEF Receive, SkipDuplicate, RejectUnrecorded, Enter, Received, SinkAccepts, SinkFails,
           Conclude
<1>2. PassTypes'
  <2>1. CASE UNCHANGED passes
    BY <2>1 DEF PassTypes, passes
  <2>2. CASE UNCHANGED <<pc, item>> /\ \E a \in Alerts, ok \in BOOLEAN : Resolve(a, ok)
    BY <2>2 DEF PassTypes, Resolve
  <2>3. CASE Receive
    BY <2>1, <2>2, <2>3
       DEF Receive, SkipDuplicate, RejectUnrecorded, Enter, Received, passes
  <2>4. CASE Conclude
    <3>1. disp.a \in Alerts /\ disp.ok \in BOOLEAN
      BY <2>4 DEF DispatchTypes, Conclude
    <3>2. QED
      BY <2>1, <2>2, <2>4, <3>1 DEF Conclude, passes
  <2>5. QED
    BY <1>0, <2>1, <2>3, <2>4 DEF SendDelivery, SinkAccepts, SinkFails, Finish
<1>3. ChannelTypes'
  <2>1. CASE Receive
    <3>1. PICK a \in Alerts : SkipDuplicate(a) \/ RejectUnrecorded(a) \/ Enter(a)
      BY <2>1 DEF Receive
    <3>2. queue' \in Seq(Alerts) /\ UNCHANGED journal
      <4>1. queue # <<>> /\ queue' = Tail(queue) /\ UNCHANGED journal
        BY <3>1 DEF SkipDuplicate, RejectUnrecorded, Enter, Received
      <4>2. QED
        BY <4>1 DEF ChannelTypes
    <3>3. acc' \in [Alerts -> SUBSET Passes]
      BY <3>1 DEF ChannelTypes, SkipDuplicate, RejectUnrecorded, Enter, Resolve
    <3>4. ledger' \in [mem : SUBSET Alerts, disk : SUBSET Alerts]
      <4>1. CASE ledger' = ledger
        BY <4>1 DEF ChannelTypes
      <4>2. CASE ledger' = [ledger EXCEPT !.disk = @ \cup {a}]
        BY <4>2 DEF ChannelTypes
      <4>3. CASE ledger' = [mem |-> ledger.mem \cup {a}, disk |-> ledger.disk \cup {a}]
        BY <4>3 DEF ChannelTypes
      <4>4. QED
        BY <3>1, <4>1, <4>2, <4>3 DEF SkipDuplicate, RejectUnrecorded, Enter
    <3>5. QED
      BY <3>2, <3>3, <3>4 DEF ChannelTypes
  <2>2. CASE Conclude
    <3>1. /\ acc' = acc \/ acc' = [acc EXCEPT ![disp.a] = {}]
          /\ journal' \subseteq journal
          /\ UNCHANGED <<queue, ledger>>
      BY <2>2 DEF Conclude, Resolve
    <3>2. QED
      BY <3>1 DEF ChannelTypes
  <2>3. CASE UNCHANGED <<queue, acc, journal, ledger>>
    BY <2>3 DEF ChannelTypes
  <2>4. QED
    BY <1>0, <2>1, <2>2, <2>3 DEF SendDelivery, SinkAccepts, SinkFails, Finish, registries
<1>4. DispatchTypes'
  <2>1. CASE Receive
    <3>1. CASE UNCHANGED disp
      BY <3>1 DEF DispatchTypes
    <3>2. CASE \E a \in Alerts : Enter(a)
      <4>1. PICK a \in Alerts : Enter(a)
        BY <3>2
      <4>2. Len(Route[a]) \in Nat /\ (Route[a] # <<>> => Len(Route[a]) >= 1)
        BY PipelineConstants DEF PipelineConstants
      <4>3. CASE Route[a] # <<>> /\ disp' = [at |-> "next", a |-> a, i |-> 1, ok |-> TRUE, j |-> FALSE]
        BY <4>2, <4>3 DEF DispatchTypes, Places
      <4>4. CASE disp' = [at |-> "next", a |-> a, i |-> Len(Route[a]) + 1, ok |-> FALSE, j |-> FALSE]
        BY <4>2, <4>4 DEF DispatchTypes, Places
      <4>5. QED
        BY <4>1, <4>3, <4>4 DEF Enter
    <3>3. QED
      BY <2>1, <3>1, <3>2 DEF Receive, SkipDuplicate, RejectUnrecorded
  <2>2. CASE SendDelivery
    <3>1. disp.at = "next" /\ disp.i <= Len(Route[disp.a])
      BY <2>2 DEF SendDelivery
    <3>2. CASE \E ok \in BOOLEAN : disp' = Step(ok)
      BY <3>1, <3>2, StepType
    <3>3. CASE \E j \in BOOLEAN : disp' = Stay("send", j)
      BY <3>1, <3>3, StayType DEF Places
    <3>4. QED
      BY <2>2, <3>2, <3>3 DEF SendDelivery
  <2>3. CASE SinkAccepts \/ SinkFails
    <3>1. disp.at = "send" /\ disp.i <= Len(Route[disp.a]) /\ disp.j \in BOOLEAN
      BY <2>3 DEF DispatchTypes, SinkAccepts, SinkFails
    <3>2. PICK place \in {"sent", "failed"} : disp' = Stay(place, disp.j)
      BY <2>3 DEF SinkAccepts, SinkFails
    <3>3. QED
      BY <3>1, <3>2, StayType DEF Places
  <2>4. CASE Finish
    <3>1. disp.at # "idle" /\ disp.i <= Len(Route[disp.a])
      BY <2>4 DEF DispatchTypes, Finish
    <3>2. \E ok \in BOOLEAN : disp' = Step(ok)
      BY <2>4, Zenon DEF Finish
    <3>3. QED
      BY <3>1, <3>2, StepType
  <2>5. CASE Conclude
    <3>1. CASE disp' = Idle
      BY <3>1 DEF DispatchTypes, Idle, Places
    <3>2. CASE disp.at = "next" /\ disp' = Stay("resolve", FALSE)
      BY <3>2, StayType DEF Places
    <3>3. QED
      BY <2>5, <3>1, <3>2 DEF Conclude
  <2>6. QED
    BY <1>0, <2>1, <2>2, <2>3, <2>4, <2>5
<1>5. HistoryTypes'
  <2>1. CASE SinkAccepts
    <3>1. disp.a \in Alerts /\ Dest \in Dests
      BY <2>1, DestType DEF DispatchTypes, SinkAccepts
    <3>2. \A n \in Count : Up(n) \in Count
      BY DEF Count, Up
    <3>3. QED
      BY <2>1, <3>1, <3>2 DEF HistoryTypes, SinkAccepts
  <2>2. CASE UNCHANGED history
    BY <2>2 DEF HistoryTypes, history
  <2>3. QED
    BY <1>0, <2>1, <2>2
       DEF Receive, SkipDuplicate, RejectUnrecorded, Enter, Received, SendDelivery,
           SinkFails, Finish, Conclude
<1>6. QED
  BY <1>1, <1>2, <1>3, <1>4, <1>5

LEMMA TypesCrash ==
  ASSUME Types, Crash  PROVE Types'
<1>1. StoreTypes' /\ HistoryTypes'
  BY DEF Types, StoreTypes, HistoryTypes, Crash, history
<1>2. PassTypes'
  BY DEF Types, PassTypes, Crash
<1>3. ChannelTypes'
  BY DEF Types, ChannelTypes, Crash
<1>4. DispatchTypes'
  BY DEF DispatchTypes, Crash, Idle, Places
<1>5. QED
  BY <1>1, <1>2, <1>3, <1>4 DEF Types

\* Types is an invariant of the pipeline.
THEOREM TypesAlways == Spec => []Types
<1>1. Init => Types
  BY TypesInit
<1>2. Types /\ [Next]_vars => Types'
  <2>1. CASE UNCHANGED vars
    BY <2>1 DEF vars, Types, StoreTypes, PassTypes, ChannelTypes, DispatchTypes, HistoryTypes
  <2>2. CASE Next
    BY <2>2, TypesStage, TypesOtherMutation, TypesPass, TypesDispatch, TypesCrash DEF Next
  <2>3. QED
    BY <2>1, <2>2
<1>3. QED
  BY <1>1, <1>2, PTL DEF Spec

----------------------------------------------------------------------------
(* At most once under a journal.                                           *)

LEMMA ServiceInit == Init => ServiceInv
BY DEF Init, ServiceInv, JournaledAtMostOnce, ServedIsRecorded, ClaimedBeforeSend,
       UnseenIsUnclaimed, EmptyStore, Idle

\* A write that leaves the delivery maps alone: attempts, acknowledgements,
\* suppressions, observations (gjc_lane.rs mutate, acknowledge_pending_alert).
LEMMA OtherWrites ==
  ASSUME Types, ServiceInv,
         mem'.deliv = mem.deliv,
         \A a \in Alerts : mem'.life[a] = "unseen" => mem.life[a] = "unseen",
         disk' \in {disk, mem'},
         UNCHANGED <<disp, jsent>>
  PROVE  ServiceInv'
<1>1. JournaledAtMostOnce'
  BY DEF ServiceInv, JournaledAtMostOnce
<1>2. ServedIsRecorded'
  BY DEF ServiceInv, ServedIsRecorded
<1>3. ClaimedBeforeSend'
  BY DEF ServiceInv, ClaimedBeforeSend, Dest
<1>4. UnseenIsUnclaimed'
  BY DEF ServiceInv, UnseenIsUnclaimed
<1>5. QED
  BY <1>1, <1>2, <1>3, <1>4 DEF ServiceInv

LEMMA ServiceStage ==
  ASSUME Types, ServiceInv, NEW a \in Alerts, Stage(a)  PROVE ServiceInv'
<1> DEFINE m == [life  |-> [mem.life EXCEPT ![a] = "pending"],
                 deliv |-> [mem.deliv EXCEPT ![a] = [d \in Dests |-> "none"]]]
<1>1. mem' = m /\ disk' \in {disk, m} /\ UNCHANGED <<disp, jsent>>
  BY DEF Stage, Persisted, PersistFails, history
<1>2. \A d \in Dests : mem.deliv[a][d] = "none"
  BY DEF Stage, ServiceInv, UnseenIsUnclaimed
<1>3. mem.deliv[a] = [d \in Dests |-> "none"]
  BY <1>2 DEF Types, StoreTypes, StoreState
<1>4. mem'.deliv = mem.deliv
  BY <1>1, <1>3 DEF Types, StoreTypes, StoreState
<1>5. \A b \in Alerts : mem'.life[b] = "unseen" => mem.life[b] = "unseen"
  BY <1>1 DEF Types, StoreTypes, StoreState
<1>6. QED
  BY <1>1, <1>4, <1>5, OtherWrites

LEMMA ServicePass ==
  ASSUME Types, ServiceInv, NEW w \in Passes, Pass(w)  PROVE ServiceInv'
<1>1. UNCHANGED <<disp, jsent>>
  BY DEF Pass, Begin, Reserve, ReserveTimeout, Authority, Send, Accepted, NotAccepted,
         AcceptanceTimeout, Cancel, DropJournal, Ack, history
<1>2. \/ mem' = mem /\ disk' \in {disk, mem}
      \/ \E l \in {"suppressed", "retired"} :
           item[w] \in Alerts /\ mem' = WithLife(item[w], l) /\ disk' \in {disk, mem'}
  <2>1. CASE Authority(w)
    BY <2>1 DEF Authority, Persisted, PersistFails, store, Types, PassTypes
  <2>2. CASE Ack(w)
    BY <2>2 DEF Ack, Acknowledge, Persisted, PersistFails, store, Types, PassTypes
  <2>3. CASE Reserve(w)
    BY <2>3 DEF Reserve, Persisted, PersistFails, store
  <2>4. QED
    BY <2>1, <2>2, <2>3
       DEF Pass, Begin, ReserveTimeout, Send, Accepted, NotAccepted, AcceptanceTimeout,
           Cancel, DropJournal, store
<1>3. CASE mem' = mem /\ disk' \in {disk, mem}
  BY <1>1, <1>3, OtherWrites
<1>4. CASE \E l \in {"suppressed", "retired"} :
             item[w] \in Alerts /\ mem' = WithLife(item[w], l) /\ disk' \in {disk, mem'}
  <2>1. mem'.deliv = mem.deliv
    BY <1>4 DEF WithLife, Types, StoreTypes, StoreState
  <2>2. \A b \in Alerts : mem'.life[b] = "unseen" => mem.life[b] = "unseen"
    BY <1>4 DEF WithLife, Types, StoreTypes, StoreState
  <2>3. QED
    BY <1>1, <1>4, <2>1, <2>2, OtherWrites
<1>5. QED
  BY <1>2, <1>3, <1>4

\* What update_pending_alert_delivery leaves behind when it changes anything.
LEMMA DeliveryWritten ==
  ASSUME Types, NEW a \in Alerts, NEW d \in Dests, NEW s \in DeliveryState,
         NEW ok \in BOOLEAN, UpdateDelivery(a, d, s, ok)
  PROVE  \/ mem' = mem /\ disk' = disk
         \/ /\ Pending(a)
            /\ mem' = WithDeliv(a, d, s) /\ disk' \in {disk, mem'}
            /\ ok => disk' = mem'
BY DEF UpdateDelivery, Persisted, PersistFails, store

\* Recording an outcome or a claim keeps the records of what was served, if a
\* destination that was served is not given back.
LEMMA DeliveryWrites ==
  ASSUME Types, ServiceInv, NEW a \in Alerts, NEW d \in Dests, NEW s \in DeliveryState,
         Pending(a),
         mem' = WithDeliv(a, d, s), disk' \in {disk, mem'},
         jsent[a][d] = 1 => s \in {"claimed", "delivered"},
         UNCHANGED jsent
  PROVE  JournaledAtMostOnce' /\ ServedIsRecorded' /\ UnseenIsUnclaimed'
<1>1. /\ mem'.life = mem.life
      /\ mem'.deliv[a][d] = s
      /\ \A b \in Alerts, e \in Dests :
           b # a \/ e # d => mem'.deliv[b][e] = mem.deliv[b][e]
  BY DEF WithDeliv, Types, StoreTypes, StoreState
<1>2. JournaledAtMostOnce'
  BY DEF ServiceInv, JournaledAtMostOnce
<1>3. ServedIsRecorded'
  BY <1>1 DEF ServiceInv, ServedIsRecorded
<1>4. UnseenIsUnclaimed'
  BY <1>1 DEF ServiceInv, UnseenIsUnclaimed, Pending
<1>5. QED
  BY <1>2, <1>3, <1>4

LEMMA ServiceSendDelivery ==
  ASSUME Types, ServiceInv, SendDelivery  PROVE ServiceInv'
<1>1. disp.a \in Alerts /\ Dest \in Dests /\ UNCHANGED jsent
  BY DestType DEF Types, SendDelivery, history
<1> DEFINE Claims(claimed) ==
             /\ UpdateDelivery(disp.a, Dest, "claimed", claimed)
             /\ disp' = IF claimed THEN Stay("send", TRUE) ELSE Step(FALSE)
<1>2. CASE UNCHANGED store /\ ~disp'.j
  BY <1>1, <1>2
     DEF ServiceInv, JournaledAtMostOnce, ServedIsRecorded, ClaimedBeforeSend,
         UnseenIsUnclaimed, store
<1>3. CASE Pending(disp.a) /\ ~Skips(disp.a, Dest) /\ \E claimed \in BOOLEAN : Claims(claimed)
  <2>1. PICK claimed \in BOOLEAN : Claims(claimed)
    BY <1>3
  <2>2. mem.deliv[disp.a][Dest] \notin {"claimed", "delivered"}
    BY <1>3 DEF Skips
  <2>3. /\ mem' = WithDeliv(disp.a, Dest, "claimed") /\ disk' \in {disk, mem'}
        /\ claimed => disk' = mem'
    BY <1>3, <2>1, <2>2 DEF UpdateDelivery, Keeps, Persisted, PersistFails
  <2>4. jsent[disp.a][Dest] = 0
    BY <1>1, <2>2 DEF ServiceInv, ServedIsRecorded, JournaledAtMostOnce, Types, HistoryTypes, Count
  <2>5. JournaledAtMostOnce' /\ ServedIsRecorded' /\ UnseenIsUnclaimed'
    BY <1>1, <1>3, <2>3, <2>4, DeliveryWrites DEF DeliveryState
  <2>6. ClaimedBeforeSend'
    <3>1. CASE claimed
      <4>1. mem'.deliv[disp.a][Dest] = "claimed" /\ disk'.deliv[disp.a][Dest] = "claimed"
        BY <1>1, <2>3, <3>1 DEF WithDeliv, Types, StoreTypes, StoreState
      <4>2. disp'.a = disp.a /\ disp'.i = disp.i
        BY <2>1, <3>1 DEF Stay
      <4>3. QED
        BY <1>1, <2>4, <4>1, <4>2 DEF ClaimedBeforeSend, Dest
    <3>2. CASE ~claimed
      BY <2>1, <3>2 DEF ClaimedBeforeSend, Step
    <3>3. QED
      BY <3>1, <3>2
  <2>7. QED
    BY <2>5, <2>6 DEF ServiceInv
<1>4. CASE ~Pending(disp.a) /\ \E claimed \in BOOLEAN : Claims(claimed)
  <2>1. PICK claimed \in BOOLEAN : Claims(claimed)
    BY <1>4
  <2>2. ~claimed /\ UNCHANGED store
    BY <1>4, <2>1 DEF UpdateDelivery
  <2>3. disp' = Step(FALSE)
    BY <2>1, <2>2
  <2>4. QED
    BY <1>2, <2>2, <2>3 DEF Step
<1>5. CASE UNCHANGED store /\ (disp' = Step(TRUE) \/ disp' = Stay("send", FALSE))
  BY <1>2, <1>5 DEF Step, Stay
<1>6. QED
  BY <1>3, <1>4, <1>5 DEF SendDelivery

LEMMA ServiceSink ==
  ASSUME Types, ServiceInv, SinkAccepts \/ SinkFails  PROVE ServiceInv'
<1>1. disp.a \in Alerts /\ Dest \in Dests /\ UNCHANGED store
  BY DestType DEF Types, DispatchTypes, SinkAccepts, SinkFails
<1>2. disp'.a = disp.a /\ disp'.i = disp.i /\ disp'.j = disp.j
  BY DEF SinkAccepts, SinkFails, Stay
<1>3. CASE UNCHANGED jsent /\ (disp.j => disp'.at = "failed" /\ disp.at = "send")
  <2>1. JournaledAtMostOnce' /\ ServedIsRecorded' /\ UnseenIsUnclaimed'
    BY <1>1, <1>3 DEF ServiceInv, JournaledAtMostOnce, ServedIsRecorded, UnseenIsUnclaimed, store
  <2>2. Dest' = Dest
    BY <1>2 DEF Dest
  <2>3. ClaimedBeforeSend'
    BY <1>1, <1>2, <1>3, <2>2 DEF ServiceInv, ClaimedBeforeSend, store
  <2> QED
    BY <2>1, <2>3 DEF ServiceInv
<1>4. CASE disp.j /\ SinkAccepts
  <2>1. /\ mem.deliv[disp.a][Dest] = "claimed" /\ disk.deliv[disp.a][Dest] = "claimed"
        /\ jsent[disp.a][Dest] = 0
    BY <1>4 DEF ServiceInv, ClaimedBeforeSend, SinkAccepts
  <2>2. jsent' = [jsent EXCEPT ![disp.a][Dest] = 1]
    BY <1>4, <2>1 DEF SinkAccepts, Up
  <2>3. /\ jsent'[disp.a][Dest] = 1
        /\ \A b \in Alerts, e \in Dests :
             b # disp.a \/ e # Dest => jsent'[b][e] = jsent[b][e]
    BY <1>1, <2>2 DEF Types, HistoryTypes
  <2>4. disp'.at = "sent"
    BY <1>4 DEF SinkAccepts, Stay
  <2>5. JournaledAtMostOnce' /\ ServedIsRecorded'
    BY <1>1, <2>1, <2>3 DEF ServiceInv, JournaledAtMostOnce, ServedIsRecorded, store
  <2>6. ClaimedBeforeSend' /\ UnseenIsUnclaimed'
    BY <1>1, <2>4 DEF ServiceInv, ClaimedBeforeSend, UnseenIsUnclaimed, store
  <2>7. QED
    BY <2>5, <2>6 DEF ServiceInv
<1>5. QED
  BY <1>3, <1>4 DEF SinkAccepts, SinkFails, Stay, history

LEMMA ServiceFinish ==
  ASSUME Types, ServiceInv, Finish  PROVE ServiceInv'
<1>1. disp.a \in Alerts /\ Dest \in Dests /\ UNCHANGED jsent
  BY DestType DEF Types, DispatchTypes, Finish, history
<1>2. ClaimedBeforeSend'
  BY DEF Finish, ClaimedBeforeSend, Step
<1>3. CASE UNCHANGED store
  BY <1>1, <1>2, <1>3
     DEF ServiceInv, JournaledAtMostOnce, ServedIsRecorded, UnseenIsUnclaimed, store
<1>4. CASE /\ disp.j
           /\ \E ok \in BOOLEAN, s \in {"delivered", "failed"} :
                /\ UpdateDelivery(disp.a, Dest, s, ok)
                /\ s = "failed" => disp.at = "failed"
  <2>1. PICK ok \in BOOLEAN, s \in {"delivered", "failed"} :
                /\ UpdateDelivery(disp.a, Dest, s, ok)
                /\ s = "failed" => disp.at = "failed"
    BY <1>4
  <2>2. CASE mem' = mem /\ disk' = disk
    BY <1>1, <1>2, <2>2
       DEF ServiceInv, JournaledAtMostOnce, ServedIsRecorded, UnseenIsUnclaimed
  <2>3. CASE /\ Pending(disp.a)
             /\ mem' = WithDeliv(disp.a, Dest, s) /\ disk' \in {disk, mem'}
    <3>1. jsent[disp.a][Dest] = 1 => s = "delivered"
      BY <1>4, <2>1 DEF ServiceInv, ClaimedBeforeSend
    <3>2. QED
      BY <1>1, <1>2, <2>3, <3>1, DeliveryWrites DEF DeliveryState, ServiceInv
  <2>4. QED
    BY <1>1, <2>1, <2>2, <2>3, DeliveryWritten DEF DeliveryState
<1>5. QED
  BY <1>3, <1>4 DEF Finish

LEMMA ServiceRest ==
  ASSUME Types, ServiceInv, OtherMutation \/ Receive \/ Conclude \/ Crash  PROVE ServiceInv'
<1>1. CASE OtherMutation
  BY <1>1, OtherWrites DEF OtherMutation, Persisted, PersistFails, history
<1>2. CASE Receive \/ Conclude
  <2>1. UNCHANGED <<mem, disk, jsent>> /\ (disp' = disp \/ ~disp'.j)
    <3>1. CASE Receive
      <4>1. PICK a \in Alerts : SkipDuplicate(a) \/ RejectUnrecorded(a) \/ Enter(a)
        BY <3>1 DEF Receive
      <4>2. UNCHANGED <<mem, disk, jsent>>
        BY <4>1 DEF SkipDuplicate, RejectUnrecorded, Enter, Received, store, history
      <4>3. disp' = disp \/ ~disp'.j
        <5>1. CASE disp' = disp
          BY <5>1
        <5>2. CASE Enter(a)
          BY <5>2 DEF Enter
        <5>3. QED
          BY <4>1, <5>1, <5>2 DEF SkipDuplicate, RejectUnrecorded
      <4>4. QED
        BY <4>2, <4>3
    <3>2. CASE Conclude
      <4>1. UNCHANGED <<mem, disk, jsent>>
        BY <3>2 DEF Conclude, store, history
      <4>2. disp' = Stay("resolve", FALSE) \/ disp' = Idle
        BY <3>2 DEF Conclude
      <4>3. ~disp'.j
        BY <4>2 DEF Stay, Idle
      <4>4. QED
        BY <4>1, <4>3
    <3>3. QED
      BY <1>2, <3>1, <3>2
  <2>2. QED
    BY <2>1 DEF ServiceInv, JournaledAtMostOnce, ServedIsRecorded, ClaimedBeforeSend,
                UnseenIsUnclaimed, Dest
<1>3. CASE Crash
  BY <1>3 DEF Crash, Idle, history, ServiceInv, JournaledAtMostOnce, ServedIsRecorded,
              ClaimedBeforeSend, UnseenIsUnclaimed
<1>4. QED
  BY <1>1, <1>2, <1>3

\* What is on record of the destinations served stays on record.
LEMMA ServiceAlways == Spec => []ServiceInv
<1>1. Init => ServiceInv
  BY ServiceInit
<1>2. Types /\ ServiceInv /\ [Next]_vars => ServiceInv'
  <2>1. CASE UNCHANGED vars
    BY <2>1 DEF vars, ServiceInv, JournaledAtMostOnce, ServedIsRecorded, ClaimedBeforeSend,
                UnseenIsUnclaimed, Dest
  <2>2. CASE Next
    BY <2>2, ServiceStage, ServicePass, ServiceSendDelivery, ServiceSink, ServiceFinish,
       ServiceRest DEF Next, Dispatch
  <2>3. QED
    BY <2>1, <2>2
<1>3. QED
  BY <1>1, <1>2, TypesAlways, PTL DEF Spec

\* Whatever is lost, late, repeated or restarted, no destination gets an alert
\* twice under a journal (dispatch.rs 39-44, send_delivery).
THEOREM AtMostOnceUnderJournal == Spec => []JournaledAtMostOnce
<1>1. ServiceInv => JournaledAtMostOnce
  BY DEF ServiceInv
<1>2. QED
  BY <1>1, ServiceAlways, PTL

----------------------------------------------------------------------------
(* The event channel never overflows.                                      *)

\* The permits are counted by a natural number; fewer passes, fewer permits.
LEMMA PermitsFinite == IsFiniteSet(Permits) /\ Cardinality(Permits) \in Nat
<1>1. Permits \subseteq Passes
  BY DEF Permits
<1>2. QED
  BY <1>1, PipelineConstants, FS_Subset, FS_CardinalityType DEF PipelineConstants

LEMMA FewerPermits ==
  ASSUME Types, ChannelBounded, Permits' \subseteq Permits,
         queue' \in Seq(Alerts), Len(queue') <= Len(queue)
  PROVE  ChannelBounded'
<1>1. Cardinality(Permits') <= Cardinality(Permits) /\ Cardinality(Permits') \in Nat
  BY PermitsFinite, FS_Subset, FS_CardinalityType
<1>2. Len(queue) \in Nat /\ Len(queue') \in Nat
  BY DEF Types, ChannelTypes
<1>3. QED
  BY <1>1, <1>2, PermitsFinite, PipelineConstants DEF ChannelBounded, PipelineConstants

LEMMA ChannelPass ==
  ASSUME Types, ChannelBounded, NEW w \in Passes, Pass(w)  PROVE ChannelBounded'
<1>1. queue \in Seq(Alerts) /\ Len(queue) \in Nat
  BY DEF Types, ChannelTypes
<1>2. CASE Reserve(w)
  <2>1. Room /\ queue' = queue
    BY <1>2 DEF Reserve
  <2>2. Permits' \subseteq Permits \cup {w}
    BY <1>2 DEF Reserve, Goto, Permits, Types, PassTypes
  <2>3. Cardinality(Permits') <= Cardinality(Permits) + 1 /\ Cardinality(Permits') \in Nat
    <3>1. /\ IsFiniteSet(Permits \cup {w})
          /\ Cardinality(Permits \cup {w}) <= Cardinality(Permits) + 1
      BY PermitsFinite, FS_AddElement
    <3>2. QED
      BY <2>2, <3>1, PermitsFinite, FS_Subset, FS_CardinalityType
  <2>4. QED
    BY <1>1, <2>1, <2>3, PermitsFinite, PipelineConstants
       DEF Room, ChannelBounded, PipelineConstants
<1>3. CASE Send(w)
  <2>1. w \in Permits /\ Permits' \subseteq Permits \ {w}
    BY <1>3 DEF Send, Goto, Permits, Types, PassTypes
  <2>2. Len(queue') = Len(queue) + 1
    <3>1. item[w] \in Alerts
      BY <1>3 DEF Types, PassTypes, Send
    <3>2. QED
      BY <1>1, <1>3, <3>1 DEF Send
  <2>3. Cardinality(Permits') <= Cardinality(Permits) - 1 /\ Cardinality(Permits') \in Nat
    <3>1. /\ IsFiniteSet(Permits \ {w})
          /\ Cardinality(Permits \ {w}) = Cardinality(Permits) - 1
      BY <2>1, PermitsFinite, FS_RemoveElement
    <3>2. QED
      BY <2>1, <3>1, FS_Subset, FS_CardinalityType
  <2>4. QED
    BY <1>1, <2>2, <2>3, PermitsFinite, PipelineConstants DEF ChannelBounded, PipelineConstants
<1>4. CASE queue' = queue /\ Permits' \subseteq Permits
  BY <1>1, <1>4, FewerPermits
<1>5. QED
  <2>1. CASE Begin(w) \/ ReserveTimeout(w) \/ Authority(w)
    BY <1>4, <2>1 DEF Begin, ReserveTimeout, Authority, Goto, Permits, Types, PassTypes
  <2>2. CASE Accepted(w) \/ NotAccepted(w) \/ AcceptanceTimeout(w)
    BY <1>4, <2>2 DEF Accepted, NotAccepted, AcceptanceTimeout, Goto, Permits, Types, PassTypes
  <2>3. CASE Cancel(w) \/ DropJournal(w) \/ Ack(w)
    BY <1>4, <2>3 DEF Cancel, DropJournal, Ack, Goto, Permits, Types, PassTypes
  <2>4. QED
    BY <1>2, <1>3, <2>1, <2>2, <2>3 DEF Pass

LEMMA ChannelRest ==
  ASSUME Types, ChannelBounded,
         (\E a \in Alerts : Stage(a)) \/ OtherMutation \/ Dispatch \/ Crash
  PROVE  ChannelBounded'
<1>1. queue \in Seq(Alerts)
  BY DEF Types, ChannelTypes
<1>2. CASE UNCHANGED <<pc, queue>>
  BY <1>1, <1>2, FewerPermits DEF Permits
<1>3. CASE queue # <<>> /\ queue' = Tail(queue) /\ UNCHANGED pc
  <2>1. Len(queue') <= Len(queue) /\ queue' \in Seq(Alerts)
    BY <1>1, <1>3
  <2>2. QED
    BY <1>3, <2>1, FewerPermits DEF Permits
<1>4. CASE Crash
  <2>1. Permits' \subseteq Permits /\ queue' = <<>>
    BY <1>4 DEF Crash, Permits
  <2>2. QED
    BY <1>1, <2>1, FewerPermits
<1>5. CASE Receive
  BY <1>3, <1>5 DEF Receive, SkipDuplicate, RejectUnrecorded, Enter, Received
<1>6. QED
  BY <1>2, <1>4, <1>5
     DEF Stage, OtherMutation, Dispatch, SendDelivery, SinkAccepts, SinkFails, Finish, Conclude,
         passes

\* Types hold and the event channel stays within its capacity (tx.reserve).
THEOREM TypeCorrectness == Spec => []TypeOK
<1>1. Init => ChannelBounded
  <2>1. SUFFICES ASSUME Init PROVE ChannelBounded
    OBVIOUS
  <2>2. Permits = {} /\ queue = <<>>
    BY <2>1 DEF Init, Permits
  <2>3. QED
    BY <2>2, FS_EmptySet, PipelineConstants DEF ChannelBounded, PipelineConstants
<1>2. Types /\ ChannelBounded /\ [Next]_vars => ChannelBounded'
  <2>1. CASE UNCHANGED vars
    BY <2>1 DEF vars, ChannelBounded, Permits
  <2>2. CASE Next
    BY <2>2, ChannelPass, ChannelRest DEF Next
  <2>3. QED
    BY <2>1, <2>2
<1>3. Types /\ ChannelBounded => TypeOK
  BY DEF TypeOK
<1>4. QED
  BY <1>1, <1>2, <1>3, TypesAlways, PTL DEF Spec

----------------------------------------------------------------------------
(* The acceptance map and the passes that wait on it.                      *)

\* A move of a pass that neither registers nor removes a sender, and does not
\* end a wait without its verdict (replay_pending_alerts, between its calls).
LEMMA OwnedGoto ==
  ASSUME Types, AcceptanceOwned, NEW w \in Passes,
         NEW l \in {"idle", "reserve", "check", "send", "accepted", "cancel", "ack", "ack again"},
         Goto(w, l), UNCHANGED <<verdict, acc>>,
         \A v \in Passes : v # w => item'[v] = item[v],
         \/ pc[w] \notin {"wait", "cancel"}
         \/ pc[w] = "wait" /\ verdict[w] # "none"
         \/ pc[w] = "wait" /\ item' = item /\ l = "cancel"
  PROVE  AcceptanceOwned'
<1>1. \A v \in Passes : pc'[v] = IF v = w THEN l ELSE pc[v]
  BY DEF Goto, Types, PassTypes
<1>2. \A a \in Alerts, v \in Passes : v \in acc'[a] =>
        pc'[v] \in {"wait", "cancel"} /\ item'[v] = a /\ verdict'[v] = "none"
  <2>1. TAKE a \in Alerts, v \in Passes
  <2>2. HAVE v \in acc'[a]
  <2>3. pc[v] \in {"wait", "cancel"} /\ item[v] = a /\ verdict[v] = "none" /\ verdict'[v] = "none"
    BY <2>2 DEF AcceptanceOwned
  <2>4. CASE v = w
    <3>1. item' = item /\ l = "cancel"
      BY <2>3, <2>4
    <3>2. QED
      BY <1>1, <2>3, <2>4, <3>1
  <2>5. CASE v # w
    BY <1>1, <2>3, <2>5
  <2>6. QED
    BY <2>4, <2>5
<1>3. \A v \in Passes : pc'[v] = "wait" /\ verdict'[v] = "none" => v \in acc'[item'[v]]
  <2>1. TAKE v \in Passes
  <2>2. HAVE pc'[v] = "wait" /\ verdict'[v] = "none"
  <2>3. v # w /\ pc[v] = "wait" /\ verdict[v] = "none"
    BY <1>1, <2>2
  <2>4. item'[v] = item[v] /\ v \in acc[item[v]]
    BY <2>3 DEF AcceptanceOwned
  <2>5. QED
    BY <2>4
<1>4. QED
  BY <1>2, <1>3 DEF AcceptanceOwned

\* The removal of an entry with a verdict for every sender in it
\* (resolve_alert_acceptance_id).
LEMMA OwnedResolve ==
  ASSUME Types, AcceptanceOwned, NEW a \in Alerts, NEW accepted \in BOOLEAN,
         Resolve(a, accepted), UNCHANGED <<pc, item>>
  PROVE  AcceptanceOwned'
<1>1. acc' = [acc EXCEPT ![a] = {}] /\ acc \in [Alerts -> SUBSET Passes]
  BY DEF Resolve, Types, ChannelTypes
<1>2. \A v \in Passes : /\ v \in acc[a] => verdict'[v] # "none"
                        /\ v \notin acc[a] => verdict'[v] = verdict[v]
  BY DEF Resolve
<1>3. \A b \in Alerts, v \in Passes : v \in acc'[b] => v \in acc[b] /\ v \notin acc[a]
  BY <1>1 DEF AcceptanceOwned
<1>4. \A v \in Passes : pc[v] = "wait" /\ verdict'[v] = "none" => v \in acc'[item[v]]
  <2>1. TAKE v \in Passes
  <2>2. HAVE pc[v] = "wait" /\ verdict'[v] = "none"
  <2>3. v \notin acc[a] /\ v \in acc[item[v]] /\ item[v] \in Alerts
    BY <1>2, <2>2 DEF AcceptanceOwned, Types, PassTypes
  <2>4. QED
    BY <1>1, <2>3
<1>5. QED
  BY <1>2, <1>3, <1>4 DEF AcceptanceOwned

\* Every step of a pass (replay_pending_alerts).
LEMMA OwnedPass ==
  ASSUME Types, AcceptanceOwned, NEW w \in Passes, Pass(w)
  PROVE  AcceptanceOwned'
<1>1. CASE Begin(w)
  <2>1. Goto(w, "reserve") /\ UNCHANGED <<verdict, acc>> /\ pc[w] = "idle"
    BY <1>1 DEF Begin, registries
  <2>2. \A v \in Passes : v # w => item'[v] = item[v]
    BY <1>1 DEF Begin, Types, PassTypes
  <2>3. QED
    BY <2>1, <2>2, OwnedGoto
<1>2. CASE Reserve(w) \/ ReserveTimeout(w) \/ Authority(w)
  <2>1. pc[w] \in {"reserve", "check"} /\ UNCHANGED <<item, verdict, acc>>
    BY <1>2 DEF Reserve, ReserveTimeout, Authority, registries
  <2>2. PICK l \in {"idle", "check", "send"} : Goto(w, l)
    BY <1>2 DEF Reserve, ReserveTimeout, Authority
  <2>3. QED
    BY <2>1, <2>2, OwnedGoto
<1>3. CASE Send(w)
  <2>1. /\ pc[w] = "send" /\ item' = item /\ item[w] \in Alerts
        /\ acc' = [acc EXCEPT ![item[w]] = acc[item[w]] \cup {w}]
        /\ verdict' = [verdict EXCEPT ![w] = "none"]
        /\ Goto(w, "wait")
    BY <1>3 DEF Send, Types, PassTypes
  <2>2. \A v \in Passes : /\ pc'[v] = IF v = w THEN "wait" ELSE pc[v]
                          /\ verdict'[v] = IF v = w THEN "none" ELSE verdict[v]
    BY <2>1 DEF Goto, Types, PassTypes
  <2>3. \A a \in Alerts : acc'[a] = IF a = item[w] THEN acc[a] \cup {w} ELSE acc[a]
    BY <2>1 DEF Types, ChannelTypes
  <2>4. \A a \in Alerts : w \notin acc[a]
    BY <2>1 DEF AcceptanceOwned
  <2>5. \A v \in Passes : pc[v] = "wait" => item[v] \in Alerts
    BY DEF Types, PassTypes
  <2>6. \A a \in Alerts, v \in Passes : v \in acc'[a] =>
          pc'[v] \in {"wait", "cancel"} /\ item'[v] = a /\ verdict'[v] = "none"
    BY <2>1, <2>2, <2>3, <2>4 DEF AcceptanceOwned
  <2>7. \A v \in Passes : pc'[v] = "wait" /\ verdict'[v] = "none" => v \in acc'[item'[v]]
    BY <2>1, <2>2, <2>3, <2>5 DEF AcceptanceOwned
  <2>8. QED
    BY <2>6, <2>7 DEF AcceptanceOwned
<1>4. CASE Accepted(w) \/ NotAccepted(w)
  <2>1. pc[w] = "wait" /\ verdict[w] # "none" /\ UNCHANGED <<item, verdict, acc>>
    BY <1>4 DEF Accepted, NotAccepted, registries
  <2>2. PICK l \in {"accepted", "cancel"} : Goto(w, l)
    BY <1>4 DEF Accepted, NotAccepted
  <2>3. QED
    BY <2>1, <2>2, OwnedGoto
<1>5. CASE AcceptanceTimeout(w)
  BY <1>5, OwnedGoto DEF AcceptanceTimeout, registries
<1>6. CASE Cancel(w)
  <2>1. pc[w] = "cancel" /\ item' = item /\ item[w] \in Alerts /\ Goto(w, "cancelled")
    BY <1>6 DEF Cancel, Types, PassTypes
  <2>2. Resolve(item[w], FALSE)
    BY <1>6 DEF Cancel, Resolve
  <2>3. \A v \in Passes : pc'[v] = IF v = w THEN "cancelled" ELSE pc[v]
    BY <2>1 DEF Goto, Types, PassTypes
  <2>4. \A a \in Alerts : acc'[a] = IF a = item[w] THEN {} ELSE acc[a]
    BY <2>2 DEF Resolve, Types, ChannelTypes
  <2>5. \A v \in Passes : verdict'[v] = IF v \in acc[item[w]] THEN "no" ELSE verdict[v]
    BY <2>2 DEF Resolve
  <2>6. \A v \in Passes : pc[v] = "wait" => item[v] \in Alerts
    BY DEF Types, PassTypes
  <2>7. \A a \in Alerts, v \in Passes : v \in acc'[a] =>
          pc'[v] \in {"wait", "cancel"} /\ item'[v] = a /\ verdict'[v] = "none"
    BY <2>1, <2>3, <2>4, <2>5 DEF AcceptanceOwned
  <2>8. \A v \in Passes : pc'[v] = "wait" /\ verdict'[v] = "none" => v \in acc'[item'[v]]
    BY <2>1, <2>3, <2>4, <2>5, <2>6 DEF AcceptanceOwned
  <2>9. QED
    BY <2>7, <2>8 DEF AcceptanceOwned
<1>7. CASE DropJournal(w) \/ Ack(w)
  <2>1. pc[w] \in {"cancelled", "accepted", "ack", "ack again"} /\ UNCHANGED <<item, verdict, acc>>
    BY <1>7 DEF DropJournal, Ack, registries
  <2>2. PICK l \in {"idle", "ack", "ack again"} : Goto(w, l)
    BY <1>7 DEF DropJournal, Ack
  <2>3. QED
    BY <2>1, <2>2, OwnedGoto
<1>8. QED
  BY <1>1, <1>2, <1>3, <1>4, <1>5, <1>6, <1>7 DEF Pass

\* Every other step: the dispatcher resolves an entry or leaves the map alone.
LEMMA OwnedRest ==
  ASSUME Types, AcceptanceOwned,
         (\E a \in Alerts : Stage(a)) \/ OtherMutation \/ Dispatch \/ Crash
  PROVE  AcceptanceOwned'
<1>1. CASE UNCHANGED <<pc, item, verdict, acc>>
  BY <1>1 DEF AcceptanceOwned
<1>2. CASE Receive
  <2>1. PICK a \in Alerts : SkipDuplicate(a) \/ RejectUnrecorded(a) \/ Enter(a)
    BY <1>2 DEF Receive
  <2>2. UNCHANGED <<pc, item>>
    BY <2>1 DEF SkipDuplicate, RejectUnrecorded, Enter, Received
  <2>3. Resolve(a, TRUE) \/ Resolve(a, FALSE) \/ UNCHANGED <<acc, verdict>>
    BY <2>1 DEF SkipDuplicate, RejectUnrecorded, Enter
  <2>4. QED
    BY <1>1, <2>2, <2>3, OwnedResolve
<1>3. CASE Conclude
  <2>1. UNCHANGED <<pc, item>>
    BY <1>3 DEF Conclude
  <2>2. UNCHANGED <<acc, verdict>> \/ (disp.at = "resolve" /\ Resolve(disp.a, disp.ok))
    BY <1>3 DEF Conclude
  <2>3. disp.at = "resolve" => disp.a \in Alerts /\ disp.ok \in BOOLEAN
    BY DEF Types, DispatchTypes
  <2>4. QED
    BY <1>1, <2>1, <2>2, <2>3, OwnedResolve
<1>4. CASE Crash
  BY <1>4 DEF Crash, AcceptanceOwned
<1>5. CASE (\E a \in Alerts : Stage(a)) \/ OtherMutation
  BY <1>1, <1>5 DEF Stage, OtherMutation, passes, registries
<1>6. CASE SendDelivery \/ SinkAccepts \/ SinkFails \/ Finish
  BY <1>1, <1>6 DEF SendDelivery, SinkAccepts, SinkFails, Finish, passes, registries
<1>7. QED
  BY <1>2, <1>3, <1>4, <1>5, <1>6 DEF Dispatch

\* No verdict reaches a pass that has moved on, and no pass waits on an entry
\* that somebody else has removed (register_alert_acceptance,
\* cancel_alert_acceptance, resolve_alert_acceptance_id).
THEOREM AcceptanceAlwaysOwned == Spec => []PipelineInv
<1>1. Init => AcceptanceOwned
  BY DEF Init, AcceptanceOwned
<1>2. Types /\ AcceptanceOwned /\ [Next]_vars => AcceptanceOwned'
  <2>1. CASE UNCHANGED vars
    BY <2>1 DEF vars, passes, registries, AcceptanceOwned
  <2>2. CASE Next
    BY <2>2, OwnedPass, OwnedRest DEF Next
  <2>3. QED
    BY <2>1, <2>2
<1>3. TypeOK /\ AcceptanceOwned => PipelineInv
  BY DEF PipelineInv
<1>4. QED
  BY <1>1, <1>2, <1>3, TypesAlways, TypeCorrectness, PTL DEF Spec

----------------------------------------------------------------------------
(* What is delivered is delivered for good.                                *)

\* What the disk says was delivered, memory says so too: memory is written first.
NotAhead ==
  \A a \in Alerts, d \in Dests :
    disk.deliv[a][d] = "delivered" => mem.deliv[a][d] = "delivered"

\* What a step may do to the two copies of the store.
WritesOther == mem'.deliv = mem.deliv /\ disk' \in {disk, mem'}
WritesDelivery(a, d, s) ==
  /\ Pending(a) /\ ~Keeps(mem.deliv[a][d], s)
  /\ mem' = WithDeliv(a, d, s) /\ disk' \in {disk, mem'}
Reopens == mem' = disk /\ disk' = disk

LEMMA UpdateWrites ==
  ASSUME NEW a, NEW d, NEW s, NEW ok \in BOOLEAN, UpdateDelivery(a, d, s, ok)
  PROVE  WritesOther \/ WritesDelivery(a, d, s)
BY DEF UpdateDelivery, Persisted, PersistFails, store, WritesOther, WritesDelivery

LEMMA StoreSteps ==
  ASSUME Types, ServiceInv, Next
  PROVE  \/ WritesOther \/ Reopens
         \/ \E a \in Alerts, d \in Dests, s \in DeliveryState : WritesDelivery(a, d, s)
<1>1. ASSUME NEW a \in Alerts, Stage(a) PROVE WritesOther
  <2> DEFINE m == [life  |-> [mem.life EXCEPT ![a] = "pending"],
                   deliv |-> [mem.deliv EXCEPT ![a] = [d \in Dests |-> "none"]]]
  <2>1. mem' = m /\ disk' \in {disk, m}
    BY <1>1 DEF Stage, Persisted, PersistFails
  <2>2. \A d \in Dests : mem.deliv[a][d] = "none"
    BY <1>1 DEF Stage, ServiceInv, UnseenIsUnclaimed
  <2>3. mem.deliv \in [Alerts -> [Dests -> DeliveryState]]
    BY DEF Types, StoreTypes, StoreState
  <2>4. mem.deliv[a] = [d \in Dests |-> "none"]
    BY <2>2, <2>3
  <2>5. m.deliv = mem.deliv
    BY <2>3, <2>4
  <2> HIDE DEF m
  <2> QED
    BY <2>1, <2>5 DEF WritesOther
<1>2. CASE OtherMutation
  BY <1>2 DEF OtherMutation, Persisted, PersistFails, WritesOther
<1>3. ASSUME NEW w \in Passes, Pass(w) PROVE WritesOther
  <2>1. CASE Reserve(w)
    BY <2>1 DEF Reserve, Persisted, PersistFails, store, WritesOther
  <2>0. \A a, l : WithLife(a, l).deliv = mem.deliv
    BY DEF WithLife, Types, StoreTypes, StoreState
  <2>2. CASE Authority(w)
    <3>1. mem' = mem \/ \E l : mem' = WithLife(item[w], l)
      BY <2>2 DEF Authority, Persisted, PersistFails, store
    <3>2. disk' \in {disk, mem'}
      BY <2>2 DEF Authority, Persisted, PersistFails, store
    <3> QED
      BY <2>0, <3>1, <3>2 DEF WritesOther
  <2>3. CASE Ack(w)
    <3>1. mem' = mem \/ \E l : mem' = WithLife(item[w], l)
      BY <2>3 DEF Ack, Acknowledge, Persisted, PersistFails, store
    <3>2. disk' \in {disk, mem'}
      BY <2>3 DEF Ack, Acknowledge, Persisted, PersistFails, store
    <3> QED
      BY <2>0, <3>1, <3>2 DEF WritesOther
  <2>4. CASE UNCHANGED <<mem, disk>>
    BY <2>4 DEF WritesOther
  <2> QED
    BY <1>3, <2>1, <2>2, <2>3, <2>4
       DEF Pass, Begin, ReserveTimeout, Send, Accepted, NotAccepted, AcceptanceTimeout,
           Cancel, DropJournal, store
<1>4. CASE SendDelivery \/ Finish
  <2>1. disp.a \in Alerts /\ Dest \in Dests
    BY <1>4, DestType DEF Types, DispatchTypes, SendDelivery, Finish
  <2>2. \/ UNCHANGED store
        \/ \E s \in DeliveryState, ok \in BOOLEAN : UpdateDelivery(disp.a, Dest, s, ok)
    <3>1. CASE SendDelivery
      BY <3>1 DEF SendDelivery, DeliveryState
    <3>2. CASE Finish
      BY <3>2 DEF Finish, DeliveryState
    <3> QED
      BY <1>4, <3>1, <3>2
  <2>3. CASE UNCHANGED store
    BY <2>3 DEF store, WritesOther
  <2>4. CASE \E s \in DeliveryState, ok \in BOOLEAN : UpdateDelivery(disp.a, Dest, s, ok)
    BY <2>1, <2>4, UpdateWrites
  <2> QED
    BY <2>2, <2>3, <2>4
<1>5. CASE Receive \/ SinkAccepts \/ SinkFails \/ Conclude
  BY <1>5 DEF Receive, SkipDuplicate, RejectUnrecorded, Enter, Received, SinkAccepts, SinkFails,
              Conclude, store, WritesOther
<1>6. CASE Crash
  BY <1>6 DEF Crash, Reopens
<1> QED
  BY <1>1, <1>2, <1>3, <1>4, <1>5, <1>6 DEF Next, Dispatch

LEMMA FinalStep ==
  ASSUME Types, ServiceInv, NotAhead, [Next]_vars
  PROVE  /\ NotAhead'
         /\ \A a \in Alerts, d \in Dests :
              disk.deliv[a][d] = "delivered" => disk'.deliv[a][d] = "delivered"
<1>1. CASE WritesOther
  BY <1>1 DEF WritesOther, NotAhead
<1>2. CASE Reopens
  BY <1>2 DEF Reopens, NotAhead
<1>3. ASSUME NEW b \in Alerts, NEW e \in Dests, NEW s \in DeliveryState, WritesDelivery(b, e, s)
      PROVE  /\ NotAhead'
             /\ \A a \in Alerts, d \in Dests :
                  disk.deliv[a][d] = "delivered" => disk'.deliv[a][d] = "delivered"
  <2>1. mem.deliv[b][e] # "delivered" /\ disk' \in {disk, mem'}
    BY <1>3 DEF WritesDelivery, Keeps
  <2>2. \A a \in Alerts, d \in Dests :
          a # b \/ d # e => mem'.deliv[a][d] = mem.deliv[a][d]
    BY <1>3 DEF WritesDelivery, WithDeliv, Types, StoreTypes, StoreState
  <2>3. \A a \in Alerts, d \in Dests :
          mem.deliv[a][d] = "delivered" => mem'.deliv[a][d] = "delivered"
    BY <2>1, <2>2
  <2> QED
    BY <2>1, <2>3 DEF NotAhead
<1>4. CASE UNCHANGED vars
  BY <1>4 DEF vars, NotAhead
<1> QED
  BY <1>1, <1>2, <1>3, <1>4, StoreSteps

\* No write, no failed write, no crash and no other pass takes back that a
\* destination was served (update_pending_alert_delivery, persist_locked).
THEOREM DeliveredForGood == Spec => DeliveredIsFinal
<1>1. Init => NotAhead
  BY DEF Init, NotAhead, EmptyStore
<1>2. Types /\ ServiceInv /\ NotAhead /\ [Next]_vars => NotAhead'
  BY FinalStep
<1>3. Types /\ ServiceInv /\ NotAhead /\ [Next]_vars =>
        [\A a \in Alerts, d \in Dests :
           disk.deliv[a][d] = "delivered" => disk'.deliv[a][d] = "delivered"]_vars
  BY FinalStep
<1> QED
  BY <1>1, <1>2, <1>3, TypesAlways, ServiceAlways, PTL DEF Spec, DeliveredIsFinal

----------------------------------------------------------------------------
(* One pass at a time, and no verdict that is late: what the outbox's       *)
(* promises rest on.  A pass then holds its alert from the reservation to   *)
(* the acknowledgement, and its event is the only one there is.             *)
Alone ==
  /\ \A v, w \in Passes : v = w
  /\ "timeout" \notin Faults

Flying == disp.at \in {"send", "sent", "failed"}
Awaiting(w) == pc[w] = "wait" /\ verdict[w] = "none"
Over == {"retired", "suppressed"}

\* The destinations of an alert need no message any more: served, or in doubt.
AllServed(s, a) ==
  \A n \in 1..Len(Route[a]) : s.deliv[a][Route[a][n]] \in {"claimed", "delivered"}

\* What a copy of the store says, if r are the messages sent: alerts are staged
\* in their order, a delivery has been one, an alert that is retired has been
\* served, and no message went out for an alert before those ahead were over.
StagedInOrder(s) ==
  \A a, b \in Alerts : a < b /\ s.life[a] = "unseen" => s.life[b] = "unseen"
DeliveredWasSent(s, r) ==
  \A a \in Alerts, d \in Dests : s.deliv[a][d] = "delivered" => r[a][d] = 1
RetiredWasServed(s) == \A a \in Alerts : s.life[a] = "retired" => AllServed(s, a)
SentIsFirst(s, r) ==
  \A a, b \in Alerts : a < b /\ (\E d \in Dests : r[b][d] > 0) => s.life[a] \in Over
Sound(s, r) ==
  /\ StagedInOrder(s)
  /\ DeliveredWasSent(s, r)
  /\ RetiredWasServed(s)
  /\ SentIsFirst(s, r)
StoresSound == Sound(mem, sent) /\ Sound(disk, sent)

\* A pass under way works on the head of the list, and once it has counted its
\* attempt the disk knows that the alerts before it are over.
AtHead ==
  \A w \in Passes :
    /\ pc[w] # "idle" => Oldest(item[w])
    /\ pc[w] \notin {"idle", "reserve"} =>
         \A b \in Alerts : b < item[w] => disk.life[b] \in Over

\* There is an event exactly while a pass awaits its verdict, it is the alert
\* the pass sent, and it has its journal until all of its deliveries are done.
Carried(w) ==
  \/ queue = <<item[w]>> /\ disp.at = "idle" /\ item[w] \in journal
  \/ /\ queue = <<>> /\ disp.at # "idle" /\ disp.a = item[w]
     /\ disp.at # "resolve" => item[w] \in journal
OneEvent ==
  \/ queue = <<>> /\ disp.at = "idle" /\ \A w \in Passes : ~Awaiting(w)
  \/ \E w \in Passes : Awaiting(w) /\ Carried(w)

\* Every message goes out under a journal, and its claim is there meanwhile.
Journaled ==
  /\ sent = jsent
  /\ Flying => disp.j
  /\ disp.at = "sent" => /\ mem.deliv[disp.a][Dest] = "claimed"
                         /\ jsent[disp.a][Dest] = 1

\* An event that still counts as accepted has served the destinations it has
\* passed, and so has a pass that was told so.
Passed ==
  /\ disp.at # "idle" /\ disp.ok =>
       \A n \in 1..(disp.i - 1) :
         /\ mem.deliv[disp.a][Route[disp.a][n]] \in {"claimed", "delivered"}
         /\ Flying => Route[disp.a][n] # Dest
  /\ disp.at = "resolve" => disp.i = Len(Route[disp.a]) + 1
Told ==
  \A w \in Passes :
    pc[w] \in {"accepted", "ack", "ack again"} \/ (pc[w] = "wait" /\ verdict[w] = "yes")
      => AllServed(mem, item[w])

AloneInv == StoresSound /\ AtHead /\ OneEvent /\ Journaled /\ Passed /\ Told

\* The invariants proved above, which the steps below rely on.
Before == Types /\ ServiceInv /\ AcceptanceOwned

\* What the steps write to a store keeps it sound: an alert is staged, it is
\* over, a delivery of a pending alert is recorded, a message has gone out.
LEMMA SoundStaged ==
  ASSUME NEW s \in StoreState, NEW r, NEW m, Sound(s, r), NEW a \in Alerts,
         m.deliv = s.deliv, m.life = [s.life EXCEPT ![a] = "pending"],
         s.life[a] = "unseen", \A b \in Alerts : b < a => s.life[b] # "unseen"
  PROVE  Sound(m, r)
<1>1. s.life \in [Alerts -> Life]
  BY DEF StoreState
<1>2. \A b \in Alerts : m.life[b] = IF b = a THEN "pending" ELSE s.life[b]
  BY <1>1
<1>3. StagedInOrder(m)
  BY <1>2 DEF Sound, StagedInOrder
<1>4. DeliveredWasSent(m, r) /\ RetiredWasServed(m)
  BY <1>2 DEF Sound, DeliveredWasSent, RetiredWasServed, AllServed
<1>5. SentIsFirst(m, r)
  BY <1>2 DEF Sound, SentIsFirst, Over
<1> QED
  BY <1>3, <1>4, <1>5 DEF Sound

LEMMA SoundOver ==
  ASSUME NEW s \in StoreState, NEW r, NEW m, Sound(s, r), NEW a \in Alerts, NEW l \in Over,
         m.deliv = s.deliv, m.life = [s.life EXCEPT ![a] = l],
         s.life[a] = "pending", l = "retired" => AllServed(s, a)
  PROVE  Sound(m, r)
<1>1. s.life \in [Alerts -> Life]
  BY DEF StoreState
<1>2. \A b \in Alerts : m.life[b] = IF b = a THEN l ELSE s.life[b]
  BY <1>1
<1>3. StagedInOrder(m)
  BY <1>2 DEF Sound, StagedInOrder, Over
<1>4. DeliveredWasSent(m, r)
  BY DEF Sound, DeliveredWasSent
<1>5. RetiredWasServed(m)
  BY <1>2 DEF Sound, RetiredWasServed, AllServed
<1>6. SentIsFirst(m, r)
  BY <1>2 DEF Sound, SentIsFirst
<1> QED
  BY <1>3, <1>4, <1>5, <1>6 DEF Sound

LEMMA SoundRecorded ==
  ASSUME NEW s \in StoreState, NEW r, NEW m, Sound(s, r),
         NEW a \in Alerts, NEW d \in Dests, NEW v,
         m.life = s.life, m.deliv = [s.deliv EXCEPT ![a][d] = v],
         s.life[a] = "pending", v = "delivered" => r[a][d] = 1
  PROVE  Sound(m, r)
<1>1. s.deliv \in [Alerts -> [Dests -> DeliveryState]]
  BY DEF StoreState
<1>2. \A b \in Alerts : b # a => m.deliv[b] = s.deliv[b]
  BY <1>1
<1>3. \A e \in Dests : m.deliv[a][e] = IF e = d THEN v ELSE s.deliv[a][e]
  BY <1>1
<1>4. DeliveredWasSent(m, r)
  BY <1>2, <1>3 DEF Sound, DeliveredWasSent
<1>5. RetiredWasServed(m)
  BY <1>2 DEF Sound, RetiredWasServed, AllServed
<1>6. StagedInOrder(m) /\ SentIsFirst(m, r)
  BY DEF Sound, StagedInOrder, SentIsFirst
<1> QED
  BY <1>4, <1>5, <1>6 DEF Sound

LEMMA SoundSent ==
  ASSUME NEW s \in StoreState, NEW r \in [Alerts -> [Dests -> Count]], Sound(s, r),
         NEW a \in Alerts, NEW d \in Dests,
         \A b \in Alerts : b < a => s.life[b] \in Over
  PROVE  Sound(s, [r EXCEPT ![a][d] = 1])
<1> DEFINE q == [r EXCEPT ![a][d] = 1]
<1>1. \A b \in Alerts, e \in Dests :
        q[b][e] = IF b = a /\ e = d THEN 1 ELSE r[b][e]
  OBVIOUS
<1> HIDE DEF q
<1>2. DeliveredWasSent(s, q)
  BY <1>1 DEF Sound, DeliveredWasSent
<1>3. SentIsFirst(s, q)
  BY <1>1 DEF Sound, SentIsFirst
<1>4. Sound(s, q)
  BY <1>2, <1>3 DEF Sound
<1> QED
  BY <1>4 DEF q

\* The alerts ahead of the one a pass works on are over.
LEMMA HeadOver ==
  ASSUME NEW s \in StoreState, StagedInOrder(s), NEW a \in Alerts, s.life[a] = "pending",
         \A b \in Alerts : b < a => s.life[b] # "pending"
  PROVE  \A b \in Alerts : b < a => s.life[b] \in Over
BY DEF StagedInOrder, StoreState, Life, Over

LEMMA AloneInit == Init => AloneInv
<1> SUFFICES ASSUME Init PROVE AloneInv
  OBVIOUS
<1>1. Sound(EmptyStore, sent)
  BY DEF Init, EmptyStore, Sound, StagedInOrder, DeliveredWasSent, RetiredWasServed, SentIsFirst
<1>2. StoresSound
  BY <1>1 DEF Init, StoresSound
<1>3. AtHead /\ OneEvent /\ Told
  BY DEF Init, Idle, AtHead, OneEvent, Awaiting, Told
<1>4. Journaled /\ Passed
  BY DEF Init, Idle, Journaled, Passed, Flying
<1> QED
  BY <1>2, <1>3, <1>4 DEF AloneInv

\* Steps that leave the dispatcher and the deliveries alone leave these parts.
LEMMA FlightFrame ==
  ASSUME Journaled, Passed, UNCHANGED <<disp, sent, jsent>>, mem'.deliv = mem.deliv
  PROVE  Journaled' /\ Passed'
<1>1. Dest' = Dest
  BY DEF Dest
<1>2. Journaled'
  BY <1>1 DEF Journaled, Flying
<1>3. Passed'
  BY <1>1 DEF Passed, Flying
<1> QED
  BY <1>2, <1>3

\* While the one pass there is awaits nothing, nothing is under way.
LEMMA QuietPass ==
  ASSUME Alone, OneEvent, NEW w \in Passes, ~Awaiting(w)
  PROVE  queue = <<>> /\ disp.at = "idle"
<1>1. \A v \in Passes : v = w
  BY DEF Alone
<1> QED
  BY <1>1 DEF OneEvent

LEMMA QuietAfter ==
  ASSUME Alone, NEW w \in Passes, ~Awaiting(w)', queue' = <<>>, disp'.at = "idle"
  PROVE  OneEvent'
<1>1. \A v \in Passes : v = w
  BY DEF Alone
<1>2. \A v \in Passes : ~Awaiting(v)'
  BY <1>1
<1> QED
  BY <1>2 DEF OneEvent

LEMMA ServedFrame ==
  ASSUME mem'.deliv = mem.deliv
  PROVE  \A a : AllServed(mem, a) <=> AllServed(mem', a)
BY DEF AllServed

\* A step of the pass while it awaits nothing.
LEMMA AloneGoto ==
  ASSUME Before, Alone, AloneInv, NEW w \in Passes, NEW l, Goto(w, l),
         UNCHANGED <<queue, disp, sent, jsent>>, ~Awaiting(w), l # "wait",
         mem'.deliv = mem.deliv, StoresSound',
         l # "idle" => Oldest(item[w])',
         l \notin {"idle", "reserve"} =>
           \A b \in Alerts : b < item'[w] => disk'.life[b] \in Over,
         l \in {"accepted", "ack", "ack again"} => AllServed(mem, item'[w])
  PROVE  AloneInv'
<1>1. pc'[w] = l /\ \A v \in Passes : v = w
  BY DEF Goto, Before, Types, PassTypes, Alone
<1>2. AtHead'
  <2> SUFFICES ASSUME NEW v \in Passes
               PROVE  /\ pc'[v] # "idle" => Oldest(item[v])'
                      /\ pc'[v] \notin {"idle", "reserve"} =>
                           \A b \in Alerts : b < item'[v] => disk'.life[b] \in Over
    BY DEF AtHead
  <2>1. v = w
    BY <1>1
  <2> QED
    BY <1>1, <2>1
<1>3. OneEvent'
  <2>1. queue = <<>> /\ disp.at = "idle"
    BY QuietPass DEF AloneInv
  <2>2. ~Awaiting(w)'
    BY <1>1 DEF Awaiting
  <2> QED
    BY <2>1, <2>2, QuietAfter
<1>4. Told'
  <2>1. l \in {"accepted", "ack", "ack again"} => AllServed(mem', item'[w])
    BY ServedFrame
  <2> QED
    BY <1>1, <2>1 DEF Told
<1>5. Journaled' /\ Passed'
  BY FlightFrame DEF AloneInv
<1> QED
  BY <1>2, <1>3, <1>4, <1>5 DEF AloneInv

\* What the pass that is under way knows of its alert.
LEMMA OwnAlert ==
  ASSUME Before, AloneInv, NEW w \in Passes, pc[w] # "idle"
  PROVE  /\ item[w] \in Alerts /\ Pending(item[w]) /\ Oldest(item[w])
         /\ \A b \in Alerts : b < item[w] => mem.life[b] \in Over
<1>1. item[w] \in Alerts /\ Oldest(item[w])
  BY DEF Before, Types, PassTypes, AloneInv, AtHead
<1>2. mem \in StoreState /\ StagedInOrder(mem)
  BY DEF Before, Types, StoreTypes, AloneInv, StoresSound, Sound
<1>3. mem.life[item[w]] = "pending" /\ \A b \in Alerts : b < item[w] => mem.life[b] # "pending"
  BY <1>1 DEF Oldest, Pending
<1> QED
  BY <1>1, <1>2, <1>3, HeadOver DEF Pending

\* The pass takes its alert off the list.
LEMMA OverWritten ==
  ASSUME Before, AloneInv, NEW w \in Passes, pc[w] # "idle", NEW l \in Over,
         l = "retired" => AllServed(mem, item[w])
  PROVE  /\ Sound(WithLife(item[w], l), sent)
         /\ WithLife(item[w], l).deliv = mem.deliv
<1>1. item[w] \in Alerts /\ mem.life[item[w]] = "pending"
  BY OwnAlert DEF Pending
<1>2. mem \in StoreState /\ Sound(mem, sent)
  BY DEF Before, Types, StoreTypes, AloneInv, StoresSound
<1>3. /\ WithLife(item[w], l).deliv = mem.deliv
      /\ WithLife(item[w], l).life = [mem.life EXCEPT ![item[w]] = l]
  BY <1>2 DEF WithLife, StoreState
<1> QED
  BY <1>1, <1>2, <1>3, SoundOver

LEMMA SoundWritten ==
  ASSUME StoresSound, NEW m, Sound(m, sent), mem' = m, disk' \in {disk, m}, UNCHANGED sent
  PROVE  StoresSound'
BY DEF StoresSound

LEMMA AloneReserve ==
  ASSUME Before, Alone, AloneInv, NEW w \in Passes, Reserve(w)  PROVE AloneInv'
<1>1. /\ pc[w] = "reserve" /\ ~Awaiting(w)
      /\ UNCHANGED <<item, queue, disp, sent, jsent>>
  BY DEF Reserve, Awaiting, history
<1>2. PICK l \in {"idle", "check", "send"} :
        /\ Goto(w, l) /\ mem' = mem /\ disk' \in {disk, mem}
        /\ l # "idle" => disk' = mem
  BY DEF Reserve, Persisted, PersistFails, store
<1>3. Oldest(item[w])'
  BY <1>1, <1>2, OwnAlert DEF Oldest, Pending
<1>4. StoresSound'
  BY <1>1, <1>2 DEF AloneInv, StoresSound
<1>5. l # "idle" => \A b \in Alerts : b < item'[w] => disk'.life[b] \in Over
  BY <1>1, <1>2, OwnAlert
<1> QED
  BY <1>1, <1>2, <1>3, <1>4, <1>5, AloneGoto

LEMMA AloneAuthority ==
  ASSUME Before, Alone, AloneInv, NEW w \in Passes, Authority(w)  PROVE AloneInv'
<1>1. /\ pc[w] = "check" /\ ~Awaiting(w)
      /\ UNCHANGED <<item, queue, disp, sent, jsent>>
  BY DEF Authority, Awaiting, history
<1>2. \/ Goto(w, "idle") /\ mem' = mem /\ disk' \in {disk, mem}
      \/ Goto(w, "send") /\ mem' = mem /\ disk' \in {disk, mem}
      \/ /\ Goto(w, "idle")
         /\ mem' = WithLife(item[w], "suppressed") /\ disk' \in {disk, mem'}
  BY DEF Authority, Persisted, PersistFails, store
<1>3. CASE mem' = mem /\ disk' \in {disk, mem} /\ (Goto(w, "idle") \/ Goto(w, "send"))
  <2>1. Oldest(item[w])'
    BY <1>1, <1>3, OwnAlert DEF Oldest, Pending
  <2>2. StoresSound'
    BY <1>1, <1>3 DEF AloneInv, StoresSound
  <2>3. \A b \in Alerts : b < item'[w] => disk'.life[b] \in Over
    BY <1>1, <1>3, OwnAlert DEF AloneInv, AtHead
  <2> QED
    BY <1>1, <1>3, <2>1, <2>2, <2>3, AloneGoto
<1>4. CASE /\ Goto(w, "idle")
           /\ mem' = WithLife(item[w], "suppressed") /\ disk' \in {disk, mem'}
  <2>1. mem'.deliv = mem.deliv /\ Sound(mem', sent)
    BY <1>1, <1>4, OverWritten DEF Over
  <2>2. StoresSound'
    BY <1>1, <1>4, <2>1 DEF AloneInv, StoresSound
  <2> QED
    BY <1>1, <1>4, <2>1, <2>2, AloneGoto
<1> QED
  BY <1>2, <1>3, <1>4

LEMMA AloneAck ==
  ASSUME Before, Alone, AloneInv, NEW w \in Passes, Ack(w)  PROVE AloneInv'
<1>1. /\ pc[w] \in {"ack", "ack again"} /\ ~Awaiting(w)
      /\ UNCHANGED <<item, queue, disp, sent, jsent>>
  BY DEF Ack, Awaiting, history
<1>2. AllServed(mem, item[w])
  BY <1>1 DEF AloneInv, Told
<1>3. \/ (Goto(w, "idle") \/ Goto(w, "ack again")) /\ mem' = mem /\ disk' = disk
      \/ /\ Goto(w, "idle")
         /\ mem' = WithLife(item[w], "retired") /\ disk' \in {disk, mem'}
  BY DEF Ack, Acknowledge, Persisted, PersistFails, store
<1>4. CASE (Goto(w, "idle") \/ Goto(w, "ack again")) /\ mem' = mem /\ disk' = disk
  <2>1. Oldest(item[w])'
    BY <1>1, <1>4, OwnAlert DEF Oldest, Pending
  <2>2. StoresSound'
    BY <1>1, <1>4 DEF AloneInv, StoresSound
  <2>3. \A b \in Alerts : b < item'[w] => disk'.life[b] \in Over
    BY <1>1, <1>4 DEF AloneInv, AtHead
  <2> QED
    BY <1>1, <1>2, <1>4, <2>1, <2>2, <2>3, AloneGoto
<1>5. CASE /\ Goto(w, "idle")
           /\ mem' = WithLife(item[w], "retired") /\ disk' \in {disk, mem'}
  <2>1. mem'.deliv = mem.deliv /\ Sound(mem', sent)
    BY <1>1, <1>2, <1>5, OverWritten DEF Over
  <2>2. StoresSound'
    BY <1>1, <1>5, <2>1 DEF AloneInv, StoresSound
  <2> QED
    BY <1>1, <1>5, <2>1, <2>2, AloneGoto
<1> QED
  BY <1>3, <1>4, <1>5

LEMMA AloneBegin ==
  ASSUME Before, Alone, AloneInv, NEW w \in Passes, Begin(w)  PROVE AloneInv'
<1>1. PICK a \in Alerts : Oldest(a) /\ item' = [item EXCEPT ![w] = a]
  BY DEF Begin
<1>2. /\ Goto(w, "reserve") /\ ~Awaiting(w)
      /\ UNCHANGED <<mem, disk, queue, disp, sent, jsent>>
  BY DEF Begin, Awaiting, history
<1>3. item'[w] = a
  BY <1>1 DEF Before, Types, PassTypes
<1>4. Oldest(item[w])'
  BY <1>1, <1>2, <1>3 DEF Oldest, Pending
<1>5. StoresSound'
  BY <1>2 DEF AloneInv, StoresSound
<1> QED
  BY <1>2, <1>4, <1>5, AloneGoto

\* The event goes out, with its journal.
LEMMA AloneSend ==
  ASSUME Before, Alone, AloneInv, NEW w \in Passes, Send(w)  PROVE AloneInv'
<1>1. /\ pc[w] = "send" /\ ~Awaiting(w)
      /\ UNCHANGED <<mem, disk, item, disp, sent, jsent>>
  BY DEF Send, Awaiting, store, history
<1>2. pc'[w] = "wait" /\ verdict'[w] = "none" /\ \A v \in Passes : v = w
  BY DEF Send, Goto, Before, Types, PassTypes, Alone
<1>3. item[w] \in Alerts /\ queue = <<>> /\ disp.at = "idle"
  BY <1>1, OwnAlert, QuietPass DEF AloneInv
<1>4. queue' = <<item'[w]>> /\ item'[w] \in journal'
  BY <1>1, <1>3 DEF Send
<1>5. OneEvent'
  BY <1>1, <1>2, <1>3, <1>4 DEF OneEvent, Awaiting, Carried
<1>6. Told'
  BY <1>2 DEF Told
<1>7. StoresSound'
  BY <1>1 DEF AloneInv, StoresSound
<1>8. AtHead'
  <2> SUFFICES ASSUME NEW v \in Passes
               PROVE  /\ Oldest(item[v])'
                      /\ \A b \in Alerts : b < item'[v] => disk'.life[b] \in Over
    BY DEF AtHead
  <2>1. v = w
    BY <1>2
  <2>2. Oldest(item[w])'
    BY <1>1, OwnAlert DEF Oldest, Pending
  <2>3. \A b \in Alerts : b < item'[w] => disk'.life[b] \in Over
    BY <1>1 DEF AloneInv, AtHead
  <2> QED
    BY <2>1, <2>2, <2>3
<1>9. Journaled' /\ Passed'
  BY <1>1, FlightFrame DEF AloneInv
<1> QED
  BY <1>5, <1>6, <1>7, <1>8, <1>9 DEF AloneInv

LEMMA AlonePass ==
  ASSUME Before, Alone, AloneInv, NEW w \in Passes, Pass(w)  PROVE AloneInv'
<1>1. CASE AcceptanceTimeout(w)
  BY <1>1 DEF AcceptanceTimeout, Alone
<1>2. CASE \/ ReserveTimeout(w) \/ Accepted(w) \/ NotAccepted(w)
           \/ Cancel(w) \/ DropJournal(w)
  <2>1. /\ pc[w] # "idle" /\ ~Awaiting(w)
        /\ UNCHANGED <<mem, disk, item, queue, disp, sent, jsent>>
    BY <1>2 DEF ReserveTimeout, Accepted, NotAccepted, Cancel, DropJournal, Awaiting, store, history
  <2>2. PICK l \in {"idle", "accepted", "cancel", "cancelled", "ack"} :
          /\ Goto(w, l)
          /\ l # "idle" => pc[w] \notin {"idle", "reserve"}
          /\ l \in {"accepted", "ack"} =>
               pc[w] = "accepted" \/ (pc[w] = "wait" /\ verdict[w] = "yes")
    BY <1>2 DEF ReserveTimeout, Accepted, NotAccepted, Cancel, DropJournal
  <2>3. Oldest(item[w])'
    BY <2>1, OwnAlert DEF Oldest, Pending
  <2>4. StoresSound'
    BY <2>1 DEF AloneInv, StoresSound
  <2>5. l # "idle" => \A b \in Alerts : b < item'[w] => disk'.life[b] \in Over
    BY <2>1, <2>2 DEF AloneInv, AtHead
  <2>6. l \in {"accepted", "ack"} => AllServed(mem, item'[w])
    BY <2>1, <2>2 DEF AloneInv, Told
  <2> QED
    BY <2>1, <2>2, <2>3, <2>4, <2>5, <2>6, AloneGoto
<1> QED
  BY <1>1, <1>2, AloneBegin, AloneReserve, AloneAuthority, AloneSend, AloneAck DEF Pass

\* An alert is staged, or another handler writes the record.
LEMMA AloneWrites ==
  ASSUME Before, Alone, AloneInv, OtherMutation \/ \E a \in Alerts : Stage(a)
  PROVE  AloneInv'
<1>1. UNCHANGED <<pc, item, verdict, queue, journal, disp, sent, jsent>>
  BY DEF OtherMutation, Stage, passes, registries, history
<1>2. /\ mem'.deliv = mem.deliv /\ disk' \in {disk, mem'} /\ Sound(mem', sent)
      /\ \A b \in Alerts : /\ mem.life[b] # "unseen" => mem'.life[b] = mem.life[b]
                           /\ mem.life[b] = "unseen" /\ mem'.life[b] # "unseen"
                                => \A c \in Alerts : c < b => mem.life[c] # "unseen"
  <2>0. mem \in StoreState /\ Sound(mem, sent)
    BY DEF Before, Types, StoreTypes, AloneInv, StoresSound
  <2>1. CASE OtherMutation
    BY <2>0, <2>1 DEF OtherMutation, Persisted, PersistFails
  <2>2. ASSUME NEW a \in Alerts, Stage(a)
        PROVE  /\ mem'.deliv = mem.deliv /\ disk' \in {disk, mem'}
               /\ mem'.life = [mem.life EXCEPT ![a] = "pending"]
               /\ mem.life[a] = "unseen" /\ \A b \in Alerts : b < a => mem.life[b] # "unseen"
    <3>1. mem' = [life  |-> [mem.life EXCEPT ![a] = "pending"],
                  deliv |-> [mem.deliv EXCEPT ![a] = [d \in Dests |-> "none"]]]
          /\ disk' \in {disk, mem'}
      BY <2>2 DEF Stage, Persisted, PersistFails
    <3>2. \A d \in Dests : mem.deliv[a][d] = "none"
      BY <2>2 DEF Stage, Before, ServiceInv, UnseenIsUnclaimed
    <3>3. mem.deliv \in [Alerts -> [Dests -> DeliveryState]]
      BY <2>0 DEF StoreState
    <3>4. mem.deliv[a] = [d \in Dests |-> "none"]
      BY <3>2, <3>3
    <3>5. [mem.deliv EXCEPT ![a] = [d \in Dests |-> "none"]] = mem.deliv
      BY <3>3, <3>4
    <3> QED
      BY <2>2, <3>1, <3>5 DEF Stage
  <2>3. ASSUME NEW a \in Alerts, Stage(a) PROVE Sound(mem', sent)
    BY <2>0, <2>2, <2>3, SoundStaged
  <2>4. ASSUME NEW a \in Alerts, Stage(a)
        PROVE  \A b \in Alerts : mem'.life[b] = IF b = a THEN "pending" ELSE mem.life[b]
    BY <2>0, <2>2, <2>4 DEF StoreState
  <2> QED
    BY <2>1, <2>2, <2>3, <2>4
<1>3. StoresSound'
  BY <1>1, <1>2 DEF AloneInv, StoresSound
<1>4. AtHead'
  <2> SUFFICES ASSUME NEW w \in Passes, pc[w] # "idle"
               PROVE  /\ Oldest(item[w])'
                      /\ pc[w] # "reserve" =>
                           \A b \in Alerts : b < item[w] => disk'.life[b] \in Over
    BY <1>1 DEF AtHead
  <2>1. /\ item[w] \in Alerts /\ mem.life[item[w]] = "pending"
        /\ \A b \in Alerts : b < item[w] => mem.life[b] \in Over
    BY OwnAlert DEF Pending
  <2>2. /\ mem'.life[item[w]] = "pending"
        /\ \A b \in Alerts : b < item[w] => mem'.life[b] \in Over
    BY <1>2, <2>1 DEF Over
  <2>3. Oldest(item[w])'
    BY <1>1, <2>2 DEF Oldest, Pending, Over
  <2>4. pc[w] # "reserve" => \A b \in Alerts : b < item[w] => disk'.life[b] \in Over
    BY <1>2, <2>2 DEF AloneInv, AtHead
  <2> QED
    BY <2>3, <2>4
<1>5. OneEvent'
  BY <1>1 DEF AloneInv, OneEvent, Awaiting, Carried
<1>6. Told'
  BY <1>1, <1>2, ServedFrame DEF AloneInv, Told
<1>7. Journaled' /\ Passed'
  BY <1>1, <1>2, FlightFrame DEF AloneInv
<1> QED
  BY <1>3, <1>4, <1>5, <1>6, <1>7 DEF AloneInv

\* Whatever is under way is the event of the pass that awaits it.
LEMMA UnderWay ==
  ASSUME Before, AloneInv, queue # <<>> \/ disp.at # "idle"
  PROVE  \E w \in Passes : /\ Awaiting(w) /\ Carried(w) /\ w \in acc[item[w]]
                           /\ item[w] \in Alerts /\ Pending(item[w])
                           /\ \A b \in Alerts : b < item[w] => /\ mem.life[b] \in Over
                                                               /\ disk.life[b] \in Over
<1>1. PICK w \in Passes : Awaiting(w) /\ Carried(w)
  BY DEF AloneInv, OneEvent
<1>2. pc[w] = "wait" /\ w \in acc[item[w]]
  BY <1>1 DEF Awaiting, Before, AcceptanceOwned
<1>3. /\ item[w] \in Alerts /\ Pending(item[w])
      /\ \A b \in Alerts : b < item[w] => mem.life[b] \in Over
  BY <1>2, OwnAlert
<1>4. \A b \in Alerts : b < item[w] => disk.life[b] \in Over
  BY <1>2 DEF AloneInv, AtHead
<1> QED
  BY <1>1, <1>2, <1>3, <1>4

\* The pass gets its verdict, and nothing is under way any more.
LEMMA AloneVerdict ==
  ASSUME Before, Alone, AloneInv, NEW w \in Passes, w \in acc[item[w]], NEW ok \in BOOLEAN,
         Resolve(item[w], ok), UNCHANGED <<mem, disk, pc, item, sent, jsent>>,
         queue' = <<>>, disp'.at = "idle", ok => AllServed(mem, item[w])
  PROVE  AloneInv'
<1>1. \A v \in Passes : v = w
  BY DEF Alone
<1>2. verdict'[w] = IF ok THEN "yes" ELSE "no"
  BY DEF Resolve
<1>3. OneEvent'
  BY <1>2, QuietAfter DEF Awaiting
<1>4. Told'
  <2> SUFFICES ASSUME NEW v \in Passes,
                      \/ pc[v] \in {"accepted", "ack", "ack again"}
                      \/ pc[v] = "wait" /\ verdict'[v] = "yes"
               PROVE  AllServed(mem, item[v])
    BY DEF Told
  <2>1. v = w
    BY <1>1
  <2>2. CASE pc[v] \in {"accepted", "ack", "ack again"}
    BY <2>2 DEF AloneInv, Told
  <2>3. CASE verdict'[v] = "yes"
    BY <1>2, <2>1, <2>3
  <2> QED
    BY <2>2, <2>3
<1>5. StoresSound' /\ AtHead'
  BY DEF AloneInv, StoresSound, AtHead, Oldest, Pending
<1>6. Journaled' /\ Passed'
  BY DEF AloneInv, Journaled, Passed, Flying
<1> QED
  BY <1>3, <1>4, <1>5, <1>6 DEF AloneInv

LEMMA AloneReceive ==
  ASSUME Before, Alone, AloneInv, Receive  PROVE AloneInv'
<1>1. PICK a \in Alerts : SkipDuplicate(a) \/ RejectUnrecorded(a) \/ Enter(a)
  BY DEF Receive
<1>2. /\ disp.at = "idle" /\ queue # <<>> /\ a = Head(queue) /\ queue' = Tail(queue)
      /\ UNCHANGED <<mem, disk, pc, item, journal, sent, jsent>>
  BY <1>1 DEF SkipDuplicate, RejectUnrecorded, Enter, Received, store, history
<1>3. PICK w \in Passes : Awaiting(w) /\ Carried(w) /\ w \in acc[item[w]]
  BY <1>2, UnderWay
<1>4. queue = <<item[w]>> /\ item[w] \in journal
  BY <1>2, <1>3 DEF Carried
<1>5. a = item[w] /\ a \in journal /\ queue' = <<>>
  BY <1>2, <1>4
<1>6. CASE SkipDuplicate(a)
  BY <1>5, <1>6 DEF SkipDuplicate, Suppressed
<1>7. CASE RejectUnrecorded(a)
  <2>1. Resolve(item[w], FALSE) /\ disp' = disp
    BY <1>5, <1>7 DEF RejectUnrecorded
  <2> QED
    BY <1>2, <1>3, <1>5, <2>1, AloneVerdict
<1>8. CASE Enter(a)
  <2>1. /\ disp'.at = "next" /\ disp'.a = a /\ UNCHANGED verdict
        /\ disp'.ok => disp'.i = 1
    BY <1>8 DEF Enter
  <2>2. OneEvent'
    BY <1>2, <1>3, <1>5, <2>1 DEF OneEvent, Awaiting, Carried
  <2>3. Told' /\ AtHead' /\ StoresSound'
    BY <1>2, <2>1 DEF AloneInv, Told, AllServed, AtHead, Oldest, Pending, StoresSound
  <2>4. Journaled'
    BY <1>2, <2>1 DEF AloneInv, Journaled, Flying
  <2>5. Passed'
    BY <2>1 DEF Passed
  <2> QED
    BY <2>2, <2>3, <2>4, <2>5 DEF AloneInv
<1> QED
  BY <1>1, <1>6, <1>7, <1>8

\* While the dispatcher delivers, the pass waits and its alert stays the head.
LEMMA Delivering ==
  ASSUME Before, Alone, AloneInv, UNCHANGED <<pc, item, verdict, queue>>,
         disp.at \notin {"idle", "resolve"}, disp'.at # "idle", disp'.a = disp.a,
         disp'.at = "resolve" \/ UNCHANGED journal,
         mem'.life = mem.life, disk' \in {disk, mem'}
  PROVE  AtHead' /\ OneEvent' /\ Told'
<1>1. PICK w \in Passes : Awaiting(w) /\ Carried(w)
                          /\ \A b \in Alerts : b < item[w] => mem.life[b] \in Over
  BY UnderWay
<1>2. queue = <<>> /\ disp.a = item[w] /\ item[w] \in journal
  BY <1>1 DEF Carried
<1>3. OneEvent'
  BY <1>1, <1>2 DEF OneEvent, Awaiting, Carried
<1>4. \A v \in Passes : v = w
  BY DEF Alone
<1>5. Told'
  BY <1>1, <1>4 DEF Told, Awaiting
<1>6. AtHead'
  <2> SUFFICES ASSUME NEW v \in Passes
               PROVE  /\ pc[v] # "idle" => Oldest(item[v])'
                      /\ pc[v] \notin {"idle", "reserve"} =>
                           \A b \in Alerts : b < item[v] => disk'.life[b] \in Over
    BY DEF AtHead
  <2>1. pc[v] # "idle" => Oldest(item[v])'
    BY DEF AloneInv, AtHead, Oldest, Pending
  <2>2. pc[v] \notin {"idle", "reserve"} =>
          \A b \in Alerts : b < item[v] => disk'.life[b] \in Over
    <3>1. v = w
      BY <1>4
    <3> QED
      BY <1>1, <3>1 DEF AloneInv, AtHead
  <2> QED
    BY <2>1, <2>2
<1> QED
  BY <1>3, <1>5, <1>6

\* The write of a claim or of an outcome.
LEMMA AloneRecorded ==
  ASSUME Before, AloneInv, NEW v \in DeliveryState,
         disp.a \in Alerts, Dest \in Dests, Pending(disp.a),
         mem' = WithDeliv(disp.a, Dest, v), disk' \in {disk, mem'}, UNCHANGED sent,
         v = "delivered" => sent[disp.a][Dest] = 1
  PROVE  /\ StoresSound'
         /\ mem'.life = mem.life
         /\ mem'.deliv[disp.a][Dest] = v
         /\ \A d \in Dests : d # Dest => mem'.deliv[disp.a][d] = mem.deliv[disp.a][d]
<1>1. mem \in StoreState /\ Sound(mem, sent) /\ Sound(disk, sent)
  BY DEF Before, Types, StoreTypes, AloneInv, StoresSound
<1>2. /\ mem'.life = mem.life
      /\ mem'.deliv = [mem.deliv EXCEPT ![disp.a][Dest] = v]
  BY <1>1 DEF WithDeliv, StoreState
<1>3. /\ mem'.deliv[disp.a][Dest] = v
      /\ \A d \in Dests : d # Dest => mem'.deliv[disp.a][d] = mem.deliv[disp.a][d]
  BY <1>1, <1>2 DEF StoreState
<1>4. Sound(mem', sent)
  BY <1>1, <1>2, SoundRecorded DEF Pending
<1>5. StoresSound'
  BY <1>1, <1>4 DEF StoresSound
<1> QED
  BY <1>2, <1>3, <1>5

\* The destinations the event has passed.
LEMMA RouteTypes ==
  ASSUME Types, disp.at # "idle"
  PROVE  /\ disp.a \in Alerts /\ disp.i \in Nat \ {0}
         /\ \A n \in 1..(disp.i - 1) : Route[disp.a][n] \in Dests
         /\ Len(Route[disp.a]) \in Nat
<1>1. disp.a \in Alerts /\ disp.i \in 1..(Len(Route[disp.a]) + 1)
  BY DEF Types, DispatchTypes
<1>2. Route[disp.a] \in Seq(Dests)
  BY <1>1, PipelineConstants
<1> QED
  BY <1>1, <1>2

\* The dispatcher is with a destination of an alert that is pending and has its
\* journal.
LEMMA AtDestination ==
  ASSUME Before, AloneInv, disp.at \in {"next", "send", "sent", "failed"},
         disp.i <= Len(Route[disp.a])
  PROVE  /\ disp.a \in Alerts /\ Dest \in Dests /\ Pending(disp.a) /\ disp.a \in journal
         /\ \A b \in Alerts : b < disp.a => mem.life[b] \in Over /\ disk.life[b] \in Over
<1>1. disp.a \in Alerts /\ Dest \in Dests
  BY DestType DEF Before, Types
<1>2. PICK w \in Passes :
        /\ Awaiting(w) /\ Carried(w) /\ Pending(item[w])
        /\ \A b \in Alerts : b < item[w] => mem.life[b] \in Over /\ disk.life[b] \in Over
  BY UnderWay
<1>3. disp.a = item[w] /\ item[w] \in journal
  BY <1>2 DEF Carried
<1> QED
  BY <1>1, <1>2, <1>3

\* A destination that is served or in doubt counts as passed.
LEMMA PassedStep ==
  ASSUME Before, Passed, disp.at # "idle", disp.at # "resolve", NEW ok \in BOOLEAN,
         disp' = Step(ok),
         disp.ok /\ ok =>
           /\ mem'.deliv[disp.a][Dest] \in {"claimed", "delivered"}
           /\ \A n \in 1..(disp.i - 1) :
                mem'.deliv[disp.a][Route[disp.a][n]] \in {"claimed", "delivered"}
  PROVE  Passed' /\ Journaled' = (sent' = jsent')
<1>1. /\ disp'.at = "next" /\ disp'.a = disp.a /\ disp'.i = disp.i + 1
      /\ disp'.ok = (disp.ok /\ ok)
  BY DEF Step
<1>2. disp.i \in Nat \ {0}
  BY RouteTypes DEF Before
<1>3. ~Flying'
  BY <1>1 DEF Flying
<1>4. disp'.ok => \A n \in 1..(disp'.i - 1) :
                    mem'.deliv[disp'.a][Route[disp'.a][n]] \in {"claimed", "delivered"}
  <2>0. disp'.i - 1 = disp.i
    BY <1>1, <1>2
  <2> SUFFICES ASSUME disp.ok, ok, NEW n \in 1..disp.i
               PROVE  mem'.deliv[disp.a][Route[disp.a][n]] \in {"claimed", "delivered"}
    BY <1>1, <2>0, Zenon
  <2>1. CASE n = disp.i
    BY <2>1 DEF Dest
  <2>2. CASE n # disp.i
    <3>1. n \in 1..(disp.i - 1)
      BY <1>2, <2>2
    <3> QED
      BY <3>1
  <2> QED
    BY <2>1, <2>2
<1>5. Passed'
  BY <1>1, <1>3, <1>4 DEF Passed
<1>6. Journaled' = (sent' = jsent')
  BY <1>1, <1>3 DEF Journaled
<1> QED
  BY <1>5, <1>6

LEMMA AloneSendDelivery ==
  ASSUME Before, Alone, AloneInv, SendDelivery  PROVE AloneInv'
<1>1. /\ disp.at = "next" /\ disp.i <= Len(Route[disp.a])
      /\ UNCHANGED <<pc, item, verdict, queue, journal, sent, jsent>>
  BY DEF SendDelivery, passes, registries, history
<1>2. disp.a \in Alerts /\ Dest \in Dests /\ Pending(disp.a) /\ disp.a \in journal
  BY <1>1, AtDestination
<1>3. Passed /\ sent = jsent /\ StoresSound
  BY DEF AloneInv, Journaled
<1>4. disp.ok => \A n \in 1..(disp.i - 1) :
                   mem.deliv[disp.a][Route[disp.a][n]] \in {"claimed", "delivered"}
  BY <1>1, <1>3 DEF Passed
<1>5. CASE Skips(disp.a, Dest) /\ disp' = Step(TRUE) /\ UNCHANGED store
  <2>1. UNCHANGED <<mem, disk>> /\ mem.deliv[disp.a][Dest] \in {"claimed", "delivered"}
    BY <1>5 DEF Skips, store
  <2>2. Passed' /\ Journaled'
    BY <1>1, <1>3, <1>4, <1>5, <2>1, PassedStep
  <2>3. disp'.at = "next" /\ disp'.a = disp.a
    BY <1>5 DEF Step
  <2>4. AtHead' /\ OneEvent' /\ Told'
    BY <1>1, <2>1, <2>3, Delivering
  <2>5. StoresSound'
    BY <1>1, <1>3, <2>1 DEF StoresSound
  <2> QED
    BY <2>2, <2>4, <2>5 DEF AloneInv
<1>6. ASSUME ~Skips(disp.a, Dest), NEW claimed \in BOOLEAN,
             UpdateDelivery(disp.a, Dest, "claimed", claimed),
             disp' = IF claimed THEN Stay("send", TRUE) ELSE Step(FALSE)
      PROVE  AloneInv'
  <2>1. mem.deliv[disp.a][Dest] \notin {"claimed", "delivered"}
    BY <1>2, <1>6 DEF Skips
  <2>2. mem' = WithDeliv(disp.a, Dest, "claimed") /\ disk' \in {disk, mem'}
    BY <1>2, <1>6, <2>1 DEF UpdateDelivery, Keeps, Persisted, PersistFails
  <2>3. /\ StoresSound' /\ mem'.life = mem.life
        /\ mem'.deliv[disp.a][Dest] = "claimed"
        /\ \A d \in Dests : d # Dest => mem'.deliv[disp.a][d] = mem.deliv[disp.a][d]
    BY <1>1, <1>2, <2>2, AloneRecorded DEF DeliveryState
  <2>4. disp'.at \in {"send", "next"} /\ disp'.a = disp.a
    BY <1>6 DEF Stay, Step
  <2>5. AtHead' /\ OneEvent' /\ Told'
    BY <1>1, <2>2, <2>3, <2>4, Delivering
  <2>6. Passed' /\ Journaled'
    <3>1. CASE claimed
      <4>1. /\ disp'.at = "send" /\ disp'.a = disp.a /\ disp'.i = disp.i /\ disp'.j
            /\ disp'.ok = disp.ok
        BY <1>6, <3>1 DEF Stay
      <4>2. Dest' = Dest
        BY <4>1 DEF Dest
      <4>3. disp.ok => \A n \in 1..(disp.i - 1) :
              /\ Route[disp.a][n] # Dest
              /\ mem'.deliv[disp.a][Route[disp.a][n]] \in {"claimed", "delivered"}
        <5> SUFFICES ASSUME disp.ok, NEW n \in 1..(disp.i - 1)
                     PROVE  /\ Route[disp.a][n] # Dest
                            /\ mem'.deliv[disp.a][Route[disp.a][n]] \in {"claimed", "delivered"}
          OBVIOUS
        <5>1. mem.deliv[disp.a][Route[disp.a][n]] \in {"claimed", "delivered"}
          BY <1>4
        <5>2. Route[disp.a][n] \in Dests
          BY <1>1, RouteTypes DEF Before
        <5> QED
          BY <2>1, <2>3, <5>1, <5>2
      <4> QED
        BY <1>1, <1>3, <4>1, <4>2, <4>3 DEF Passed, Journaled
    <3>2. CASE ~claimed
      <4>1. disp' = Step(FALSE)
        BY <1>6, <3>2
      <4> QED
        BY <1>1, <1>3, <4>1, PassedStep
    <3> QED
      BY <3>1, <3>2
  <2> QED
    BY <2>3, <2>5, <2>6 DEF AloneInv
<1> QED
  BY <1>2, <1>5, <1>6 DEF SendDelivery

LEMMA AloneSink ==
  ASSUME Before, Alone, AloneInv, SinkAccepts \/ SinkFails  PROVE AloneInv'
<1>1. /\ disp.at = "send" /\ disp.i <= Len(Route[disp.a])
      /\ UNCHANGED <<mem, disk, pc, item, verdict, queue, journal>>
  BY DEF SinkAccepts, SinkFails, store, passes, registries, Before, Types, DispatchTypes
<1>2. /\ disp.a \in Alerts /\ Dest \in Dests
      /\ \A b \in Alerts : b < disp.a => mem.life[b] \in Over /\ disk.life[b] \in Over
  BY <1>1, AtDestination
<1>3. PICK place \in {"sent", "failed"} :
        /\ disp' = Stay(place, disp.j)
        /\ place = "failed" => UNCHANGED <<sent, jsent>>
        /\ place = "sent" => SinkAccepts
  BY DEF SinkAccepts, SinkFails, history
<1>4. /\ disp'.at = place /\ disp'.a = disp.a /\ disp'.i = disp.i /\ disp'.j = disp.j
      /\ disp'.ok = disp.ok
  BY <1>3 DEF Stay
<1>5. Dest' = Dest
  BY <1>4 DEF Dest
<1>6. /\ disp.j /\ sent = jsent
      /\ mem.deliv[disp.a][Dest] = "claimed" /\ jsent[disp.a][Dest] = 0
  BY <1>1 DEF Before, ServiceInv, ClaimedBeforeSend, AloneInv, Journaled, Flying
<1>7. place = "sent" => /\ sent' = [sent EXCEPT ![disp.a][Dest] = 1]
                        /\ jsent' = sent'
  <2>1. SUFFICES ASSUME place = "sent"
                 PROVE  sent' = [sent EXCEPT ![disp.a][Dest] = 1] /\ jsent' = sent'
    OBVIOUS
  <2>2. sent' = [sent EXCEPT ![disp.a][Dest] = Up(sent[disp.a][Dest])]
    BY <1>3, <2>1 DEF SinkAccepts
  <2>3. jsent' = [jsent EXCEPT ![disp.a][Dest] = Up(jsent[disp.a][Dest])]
    BY <1>3, <1>6, <2>1 DEF SinkAccepts
  <2>4. Up(0) = 1
    BY DEF Up
  <2>5. sent[disp.a][Dest] = 0 /\ jsent = sent
    BY <1>6
  <2> QED
    BY <2>2, <2>3, <2>4, <2>5
<1>8. sent \in [Alerts -> [Dests -> Count]] /\ mem \in StoreState /\ disk \in StoreState
  BY DEF Before, Types, HistoryTypes, StoreTypes
<1>9. StoresSound'
  <2>1. CASE place = "failed"
    BY <1>1, <1>3, <2>1 DEF AloneInv, StoresSound
  <2>2. CASE place = "sent"
    <3>1. Sound(mem, sent) /\ Sound(disk, sent)
      BY DEF AloneInv, StoresSound
    <3>2. Sound(mem, [sent EXCEPT ![disp.a][Dest] = 1])
      BY <1>2, <1>8, <3>1, SoundSent
    <3>3. Sound(disk, [sent EXCEPT ![disp.a][Dest] = 1])
      BY <1>2, <1>8, <3>1, SoundSent
    <3>4. sent' = [sent EXCEPT ![disp.a][Dest] = 1]
      BY <1>7, <2>2
    <3> QED
      BY <1>1, <3>2, <3>3, <3>4 DEF StoresSound
  <2> QED
    BY <2>1, <2>2
<1>10. Journaled'
  <2>1. sent' = jsent'
    BY <1>3, <1>6, <1>7
  <2>2. place = "sent" => jsent'[disp.a][Dest] = 1
    BY <1>2, <1>7, <1>8
  <2> QED
    BY <1>1, <1>4, <1>5, <1>6, <2>1, <2>2 DEF Journaled
<1>11. Passed'
  <2>1. disp.ok => \A n \in 1..(disp.i - 1) :
          /\ mem.deliv[disp.a][Route[disp.a][n]] \in {"claimed", "delivered"}
          /\ Route[disp.a][n] # Dest
    BY <1>1 DEF AloneInv, Passed, Flying
  <2> QED
    BY <1>1, <1>4, <1>5, <2>1 DEF Passed
<1>12. AtHead' /\ OneEvent' /\ Told'
  BY <1>1, <1>4, Delivering
<1> QED
  BY <1>9, <1>10, <1>11, <1>12 DEF AloneInv

LEMMA AloneFinish ==
  ASSUME Before, Alone, AloneInv, Finish  PROVE AloneInv'
<1>1. /\ disp.at \in {"sent", "failed"} /\ disp.i <= Len(Route[disp.a])
      /\ UNCHANGED <<pc, item, verdict, queue, journal, sent, jsent>>
  BY DEF Finish, passes, registries, history, Before, Types, DispatchTypes
<1>2. disp.a \in Alerts /\ Dest \in Dests /\ Pending(disp.a)
  BY <1>1, AtDestination
<1>3. /\ disp.j /\ sent = jsent /\ mem.deliv[disp.a][Dest] = "claimed"
      /\ disp.at = "sent" => sent[disp.a][Dest] = 1
  BY <1>1 DEF Before, ServiceInv, ClaimedBeforeSend, AloneInv, Journaled, Flying
<1>4. PICK v \in {"delivered", "failed"}, recorded \in BOOLEAN :
        /\ UpdateDelivery(disp.a, Dest, v, recorded)
        /\ v = "delivered" <=> disp.at = "sent"
        /\ disp' = Step((disp.at = "sent") /\ recorded)
  BY <1>3 DEF Finish
<1>5. mem' = WithDeliv(disp.a, Dest, v) /\ disk' \in {disk, mem'}
  BY <1>2, <1>3, <1>4 DEF UpdateDelivery, Keeps, Persisted, PersistFails
<1>6. /\ StoresSound' /\ mem'.life = mem.life
      /\ mem'.deliv[disp.a][Dest] = v
      /\ \A d \in Dests : d # Dest => mem'.deliv[disp.a][d] = mem.deliv[disp.a][d]
  BY <1>1, <1>2, <1>3, <1>4, <1>5, AloneRecorded DEF DeliveryState
<1>7. disp'.at = "next" /\ disp'.a = disp.a
  BY <1>4 DEF Step
<1>8. AtHead' /\ OneEvent' /\ Told'
  BY <1>1, <1>5, <1>6, <1>7, Delivering
<1>9. disp.ok => \A n \in 1..(disp.i - 1) :
        mem'.deliv[disp.a][Route[disp.a][n]] \in {"claimed", "delivered"}
  <2> SUFFICES ASSUME disp.ok, NEW n \in 1..(disp.i - 1)
               PROVE  mem'.deliv[disp.a][Route[disp.a][n]] \in {"claimed", "delivered"}
    OBVIOUS
  <2>1. /\ mem.deliv[disp.a][Route[disp.a][n]] \in {"claimed", "delivered"}
        /\ Route[disp.a][n] # Dest
    BY <1>1 DEF AloneInv, Passed, Flying
  <2>2. Route[disp.a][n] \in Dests
    BY <1>1, RouteTypes DEF Before
  <2> QED
    BY <1>6, <2>1, <2>2
<1>10. Passed' /\ Journaled'
  <2>1. ((disp.at = "sent") /\ recorded) \in BOOLEAN
    OBVIOUS
  <2>2. (disp.at = "sent") /\ recorded => mem'.deliv[disp.a][Dest] = "delivered"
    BY <1>4, <1>6
  <2> QED
    BY <1>1, <1>3, <1>4, <1>9, <2>1, <2>2, PassedStep DEF AloneInv
<1> QED
  BY <1>6, <1>8, <1>10 DEF AloneInv

LEMMA AloneConclude ==
  ASSUME Before, Alone, AloneInv, Conclude  PROVE AloneInv'
<1>1. UNCHANGED <<mem, disk, pc, item, queue, sent, jsent>> /\ disp.at # "idle"
  BY DEF Conclude, store, history
<1>2. CASE /\ disp.at = "next" /\ disp.i > Len(Route[disp.a])
           /\ disp' = Stay("resolve", FALSE) /\ UNCHANGED <<acc, verdict>>
  <2>1. /\ disp'.at = "resolve" /\ disp'.a = disp.a /\ disp'.i = disp.i /\ disp'.ok = disp.ok
    BY <1>2 DEF Stay
  <2>2. disp.i = Len(Route[disp.a]) + 1
    <3>1. disp.i \in 1..(Len(Route[disp.a]) + 1) /\ Len(Route[disp.a]) \in Nat
      BY <1>1, RouteTypes DEF Before, Types, DispatchTypes
    <3> QED
      BY <1>2, <3>1
  <2>3. Passed'
    BY <1>1, <1>2, <2>1, <2>2 DEF AloneInv, Passed, Flying
  <2>4. Journaled'
    BY <1>1, <2>1 DEF AloneInv, Journaled, Flying
  <2>5. AtHead' /\ OneEvent' /\ Told'
    BY <1>1, <1>2, <2>1, Delivering
  <2>6. StoresSound'
    BY <1>1 DEF AloneInv, StoresSound
  <2> QED
    BY <2>3, <2>4, <2>5, <2>6 DEF AloneInv
<1>3. CASE disp.at = "resolve" /\ Resolve(disp.a, disp.ok) /\ disp' = Idle
  <2>1. PICK w \in Passes : Awaiting(w) /\ Carried(w) /\ w \in acc[item[w]]
    BY <1>1, UnderWay
  <2>2. queue = <<>> /\ disp.a = item[w]
    BY <1>1, <2>1 DEF Carried
  <2>3. disp.ok \in BOOLEAN
    BY DEF Before, Types, DispatchTypes
  <2>4. disp.ok => AllServed(mem, item[w])
    <3>1. disp.i = Len(Route[disp.a]) + 1 /\ Len(Route[disp.a]) \in Nat
      BY <1>1, <1>3, RouteTypes DEF AloneInv, Passed, Before
    <3>2. disp.ok => \A n \in 1..(disp.i - 1) :
            mem.deliv[disp.a][Route[disp.a][n]] \in {"claimed", "delivered"}
      BY <1>1 DEF AloneInv, Passed
    <3>3. disp.i - 1 = Len(Route[disp.a])
      BY <3>1
    <3> QED
      BY <2>2, <3>2, <3>3 DEF AllServed
  <2>5. disp'.at = "idle" /\ Resolve(item[w], disp.ok)
    BY <1>3, <2>2 DEF Idle
  <2> QED
    BY <1>1, <2>1, <2>2, <2>3, <2>4, <2>5, AloneVerdict
<1> QED
  BY <1>2, <1>3 DEF Conclude

\* A restart reads the disk, and nothing is under way.
LEMMA AloneCrash ==
  ASSUME AloneInv, Crash  PROVE AloneInv'
<1>1. /\ mem' = disk /\ disk' = disk /\ UNCHANGED <<sent, jsent>>
      /\ pc' = [w \in Passes |-> "idle"] /\ queue' = <<>> /\ disp'.at = "idle"
  BY DEF Crash, history, Idle
<1>2. StoresSound'
  BY <1>1 DEF AloneInv, StoresSound
<1>3. AtHead' /\ OneEvent' /\ Told'
  BY <1>1 DEF AtHead, OneEvent, Awaiting, Told
<1>4. Journaled' /\ Passed'
  BY <1>1 DEF AloneInv, Journaled, Passed, Flying
<1> QED
  BY <1>2, <1>3, <1>4 DEF AloneInv

LEMMA AloneAlways == ASSUME Alone PROVE Spec => [](Before /\ AloneInv)
<1>1. Init => AloneInv
  BY AloneInit
<1>2. Before /\ AloneInv /\ [Next]_vars => AloneInv'
  <2> SUFFICES ASSUME Before, AloneInv, [Next]_vars PROVE AloneInv'
    OBVIOUS
  <2>1. CASE UNCHANGED vars
    <3>1. StoresSound' /\ AtHead' /\ OneEvent'
      BY <2>1 DEF vars, AloneInv, StoresSound, AtHead, Oldest, Pending, OneEvent, Awaiting, Carried
    <3>2. Journaled' /\ Passed' /\ Told'
      BY <2>1, FlightFrame DEF vars, AloneInv, Told, AllServed
    <3> QED
      BY <3>1, <3>2 DEF AloneInv
  <2>2. CASE Next
    BY <2>2, AloneWrites, AlonePass, AloneReceive, AloneSendDelivery, AloneSink, AloneFinish,
       AloneConclude, AloneCrash DEF Next, Dispatch
  <2> QED
    BY <2>1, <2>2
<1>3. PipelineInv => AcceptanceOwned
  BY DEF PipelineInv
<1>4. Types /\ ServiceInv /\ AcceptanceOwned => Before
  BY DEF Before
<1> QED
  BY <1>1, <1>2, <1>3, <1>4, TypesAlways, ServiceAlways, AcceptanceAlwaysOwned, PTL DEF Spec

\* With one pass and no late verdict no destination ever gets an alert twice, with
\* a journal or without (replay_pending_alerts, send_delivery).
THEOREM AtMostOnceAlone == ASSUME Alone PROVE Spec => []AtMostOnce
<1>1. Before /\ AloneInv => AtMostOnce
  BY DEF Before, ServiceInv, JournaledAtMostOnce, AloneInv, Journaled, AtMostOnce
<1> QED
  BY <1>1, AloneAlways, PTL

\* With one pass and no late verdict the lane's alerts leave it in their order, and
\* an alert only when each of its destinations has it or is in doubt, whatever
\* crashes and failed writes do (replay_pending_alerts, acknowledge_pending_alert).
THEOREM RetiredInOrderAlone == ASSUME Alone PROVE Spec => []RetiredInOrder
<1>1. Before /\ AloneInv => RetiredInOrder
  <2> SUFFICES ASSUME Before, Sound(mem, sent) PROVE RetiredInOrder
    BY DEF AloneInv, StoresSound, RetiredInOrder
  <2>1. RetiredMeansDelivered
    <3> SUFFICES ASSUME NEW a \in Alerts, mem.life[a] = "retired", NEW i \in 1..Len(Route[a])
                 PROVE  sent[a][Route[a][i]] >= 1 \/ mem.deliv[a][Route[a][i]] = "claimed"
      BY DEF RetiredMeansDelivered
    <3>1. mem.deliv[a][Route[a][i]] \in {"claimed", "delivered"}
      BY DEF Sound, RetiredWasServed, AllServed
    <3>2. Route[a][i] \in Dests
      BY PipelineConstants
    <3>3. mem.deliv[a][Route[a][i]] = "delivered" => sent[a][Route[a][i]] = 1
      BY <3>2 DEF Sound, DeliveredWasSent
    <3> QED
      BY <3>1, <3>3
  <2>2. InOrder
    BY DEF Sound, SentIsFirst, Over, InOrder
  <2> QED
    BY <2>1, <2>2 DEF RetiredInOrder
<1> QED
  BY <1>1, AloneAlways, PTL

----------------------------------------------------------------------------
(* The pipeline implements the outbox, if no write fails either.            *)
Slots ==
  [a \in Alerts |-> [d \in Dests |->
     IF disk.deliv[a][d] = "claimed" /\ ~InFlight(a, d) THEN "doubt" ELSE disk.deliv[a][d]]]

\* Memory is what the disk says: every write reaches it.
Synced == disk = mem

LEMMA SyncedStep ==
  ASSUME "persist" \notin Faults, Synced, [Next]_vars
  PROVE  Synced'
<1>1. \A m : ~PersistFails(m)
  BY DEF PersistFails
<1>2. \A m, h : Persisted(m, h) => disk' = mem'
  BY DEF Persisted
<1>3. CASE UNCHANGED <<mem, disk>>
  BY <1>3 DEF Synced
<1>4. CASE OtherMutation \/ \E a \in Alerts : Stage(a)
  BY <1>1, <1>2, <1>4 DEF OtherMutation, Stage, Synced
<1>5. ASSUME NEW w \in Passes, Pass(w) PROVE Synced'
  <2>1. CASE Reserve(w) \/ Authority(w) \/ Ack(w)
    BY <1>1, <1>2, <1>3, <2>1 DEF Reserve, Authority, Ack, Acknowledge, store, Synced
  <2>2. CASE UNCHANGED <<mem, disk>>
    BY <1>3, <2>2
  <2> QED
    BY <1>5, <2>1, <2>2
       DEF Pass, Begin, ReserveTimeout, Send, Accepted, NotAccepted, AcceptanceTimeout,
           Cancel, DropJournal, store
<1>6. CASE SendDelivery \/ Finish
  <2>1. \/ UNCHANGED store
        \/ \E s, ok : UpdateDelivery(disp.a, Dest, s, ok)
    <3>1. CASE SendDelivery
      BY <3>1 DEF SendDelivery
    <3>2. CASE Finish
      BY <3>2 DEF Finish
    <3> QED
      BY <1>6, <3>1, <3>2
  <2>2. ASSUME NEW s, NEW ok, UpdateDelivery(disp.a, Dest, s, ok) PROVE Synced'
    BY <1>1, <1>2, <1>3, <2>2 DEF UpdateDelivery, store, Synced
  <2> QED
    BY <1>3, <2>1, <2>2 DEF store
<1>7. CASE Receive \/ SinkAccepts \/ SinkFails \/ Conclude
  BY <1>3, <1>7 DEF Receive, SkipDuplicate, RejectUnrecorded, Enter, Received, SinkAccepts,
                    SinkFails, Conclude, store
<1>8. CASE Crash
  BY <1>8 DEF Crash, Synced
<1>9. CASE UNCHANGED vars
  BY <1>3, <1>9 DEF vars
<1> QED
  BY <1>4, <1>5, <1>6, <1>7, <1>8, <1>9 DEF Next, Dispatch

\* What a step has to do for the outbox to do nothing.
LEMMA Stutters ==
  ASSUME disk'.life = disk.life, disk'.deliv = disk.deliv, sent' = sent,
         \A a \in Alerts, d \in Dests : InFlight(a, d)' <=> InFlight(a, d)
  PROVE  UNCHANGED Outbox!vars
<1>1. Slots' = Slots
  BY DEF Slots
<1> QED
  BY <1>1 DEF Outbox!vars, Slots

LEMMA NothingFlies ==
  ASSUME disp.at \notin {"send", "sent", "failed"} \/ ~disp.j
  PROVE  \A a \in Alerts, d \in Dests : ~InFlight(a, d)
BY DEF InFlight

LEMMA SameFlight ==
  ASSUME \/ disp' = disp
         \/ /\ ~Flying \/ ~disp.j
            /\ disp'.at \notin {"send", "sent", "failed"} \/ ~disp'.j
  PROVE  \A a \in Alerts, d \in Dests : InFlight(a, d)' <=> InFlight(a, d)
<1>1. CASE disp' = disp
  <2>1. Dest' = Dest
    BY <1>1 DEF Dest
  <2> QED
    BY <1>1, <2>1 DEF InFlight
<1>2. CASE /\ ~Flying \/ ~disp.j
           /\ disp'.at \notin {"send", "sent", "failed"} \/ ~disp'.j
  BY <1>2 DEF InFlight, Flying
<1> QED
  BY <1>1, <1>2

\* The outbox's steps, from what they are in the pipeline.
LEMMA OutboxLife ==
  ASSUME NEW a \in Alerts, NEW l \in {"pending", "suppressed"},
         disk.life[a] = IF l = "pending" THEN "unseen" ELSE "pending",
         disk'.life = [disk.life EXCEPT ![a] = l], Slots' = Slots, sent' = sent
  PROVE  Outbox!Next
<1>1. l = "pending" => Outbox!Stage(a)
  BY DEF Outbox!Stage, Slots
<1>2. l = "suppressed" => Outbox!Suppress(a)
  BY DEF Outbox!Suppress, Slots
<1> QED
  BY <1>1, <1>2 DEF Outbox!Next

LEMMA OutboxRetire ==
  ASSUME NEW a \in Alerts, disk.life[a] = "pending", AllServed(disk, a),
         \A d \in Dests : ~InFlight(a, d),
         disk'.life = [disk.life EXCEPT ![a] = "retired"], Slots' = Slots, sent' = sent
  PROVE  Outbox!Next
<1>1. \A n \in 1..Len(Route[a]) : Slots[a][Route[a][n]] \in {"delivered", "doubt"}
  <2> SUFFICES ASSUME NEW n \in 1..Len(Route[a])
               PROVE  Slots[a][Route[a][n]] \in {"delivered", "doubt"}
    OBVIOUS
  <2>1. Route[a][n] \in Dests
    BY PipelineConstants
  <2> QED
    BY <2>1 DEF AllServed, Slots
<1>2. Outbox!Retire(a)
  BY <1>1 DEF Outbox!Retire, Slots
<1> QED
  BY <1>2 DEF Outbox!Next

LEMMA OutboxClaim ==
  ASSUME NEW a \in Alerts, NEW d \in Dests, disk.life[a] = "pending",
         d \in {Route[a][n] : n \in 1..Len(Route[a])}, Slots[a][d] \in {"none", "failed"},
         disk'.life = disk.life, Slots' = [Slots EXCEPT ![a][d] = "claimed"], sent' = sent
  PROVE  Outbox!Next
<1>1. Outbox!Claim(a, d)
  BY DEF Outbox!Claim, Slots
<1> QED
  BY <1>1 DEF Outbox!Next

LEMMA OutboxSend ==
  ASSUME NEW a \in Alerts, NEW d \in Dests, Slots[a][d] = "claimed", sent[a][d] = 0,
         disk'.life = disk.life, Slots' = Slots, sent' = [sent EXCEPT ![a][d] = 1]
  PROVE  Outbox!Next
<1>1. Outbox!Send(a, d)
  BY DEF Outbox!Send, Slots
<1> QED
  BY <1>1 DEF Outbox!Next

LEMMA OutboxSettle ==
  ASSUME NEW a \in Alerts, NEW d \in Dests, Slots[a][d] = "claimed",
         disk'.life = disk.life, sent' = sent,
         Slots' = [Slots EXCEPT ![a][d] = IF sent[a][d] = 1 THEN "delivered" ELSE "failed"]
  PROVE  Outbox!Next
<1>1. Outbox!Settle(a, d)
  BY DEF Outbox!Settle, Slots
<1> QED
  BY <1>1 DEF Outbox!Next

LEMMA OutboxCrash ==
  ASSUME disk'.life = disk.life, sent' = sent,
         Slots' = [a \in Alerts |-> [d \in Dests |->
                     IF Slots[a][d] = "claimed" THEN "doubt" ELSE Slots[a][d]]]
  PROVE  Outbox!Next
<1>1. Outbox!Crash
  BY DEF Outbox!Crash, Slots
<1> QED
  BY <1>1 DEF Outbox!Next

\* Two tables of slots that differ in one entry.
DifferAt(S, T, b, e, v) ==
  /\ S = [a \in Alerts |-> [d \in Dests |-> S[a][d]]]
  /\ T = [a \in Alerts |-> [d \in Dests |-> T[a][d]]]
  /\ \A a \in Alerts, d \in Dests : T[a][d] = IF a = b /\ d = e THEN v ELSE S[a][d]

LEMMA OneSlot ==
  ASSUME NEW S, NEW T, NEW b \in Alerts, NEW e \in Dests, NEW v, DifferAt(S, T, b, e, v)
  PROVE  T = [S EXCEPT ![b][e] = v]
<1> USE DEF DifferAt
<1> DEFINE R == [S EXCEPT ![b][e] = v]
<1>1. R = [a \in Alerts |-> IF a = b THEN [S[b] EXCEPT ![e] = v] ELSE S[a]]
  OBVIOUS
<1>2. S[b] = [d \in Dests |-> S[b][d]]
  OBVIOUS
<1>3. [S[b] EXCEPT ![e] = v] = [d \in Dests |-> IF d = e THEN v ELSE S[b][d]]
  BY <1>2
<1>4. T[b] = [d \in Dests |-> IF d = e THEN v ELSE S[b][d]]
  <2>1. T[b] = [d \in Dests |-> T[b][d]]
    OBVIOUS
  <2>2. \A d \in Dests : T[b][d] = IF d = e THEN v ELSE S[b][d]
    OBVIOUS
  <2> QED
    BY <2>1, <2>2
<1>5. ASSUME NEW a \in Alerts, a # b PROVE T[a] = S[a]
  <2>1. T[a] = [d \in Dests |-> T[a][d]] /\ S[a] = [d \in Dests |-> S[a][d]]
    OBVIOUS
  <2>2. \A d \in Dests : T[a][d] = S[a][d]
    BY <1>5
  <2> QED
    BY <2>1, <2>2
<1>6. T = [a \in Alerts |-> T[a]]
  OBVIOUS
<1>7. T = R
  BY <1>1, <1>3, <1>4, <1>5, <1>6
<1> QED
  BY <1>7

\* The slots are such a table, in each state.
LEMMA SlotsTable ==
  /\ Slots = [a \in Alerts |-> [d \in Dests |-> Slots[a][d]]]
  /\ Slots' = [a \in Alerts |-> [d \in Dests |-> Slots'[a][d]]]
<1>1. Slots = [a \in Alerts |-> [d \in Dests |-> Slots[a][d]]]
  BY DEF Slots
<1>2. Slots' = [a \in Alerts |-> [d \in Dests |-> Slots'[a][d]]]
  BY DEF Slots
<1> QED
  BY <1>1, <1>2

\* The outbox takes a step, or none.
OutboxStep == Outbox!Next \/ UNCHANGED Outbox!vars

\* A step that leaves the deliveries alone, and the life of all alerts but one.
LEMMA MapsWrites ==
  ASSUME Before, Synced, Synced', OtherMutation \/ \E a \in Alerts : Stage(a)
  PROVE  OutboxStep
<1>1. UNCHANGED <<disp, sent>>
  BY DEF OtherMutation, Stage, history
<1>2. \A a \in Alerts, d \in Dests : InFlight(a, d)' <=> InFlight(a, d)
  BY <1>1, SameFlight
<1>3. CASE OtherMutation
  <2>1. disk' = disk
    BY <1>3 DEF OtherMutation, Persisted, PersistFails, Synced
  <2> QED
    BY <1>1, <1>2, <2>1, Stutters DEF OutboxStep
<1>4. ASSUME NEW a \in Alerts, Stage(a) PROVE OutboxStep
  <2>1. /\ disk' = [life  |-> [disk.life EXCEPT ![a] = "pending"],
                    deliv |-> [disk.deliv EXCEPT ![a] = [d \in Dests |-> "none"]]]
        /\ disk.life[a] = "unseen"
    BY <1>4 DEF Stage, Persisted, PersistFails, Synced
  <2>2. \A d \in Dests : disk.deliv[a][d] = "none"
    BY <2>1 DEF Before, ServiceInv, UnseenIsUnclaimed
  <2>3. disk.deliv \in [Alerts -> [Dests -> DeliveryState]]
    BY DEF Before, Types, StoreTypes, StoreState
  <2>4. [disk.deliv EXCEPT ![a] = [d \in Dests |-> "none"]] = disk.deliv
    BY <2>2, <2>3
  <2>5. disk'.deliv = disk.deliv /\ disk'.life = [disk.life EXCEPT ![a] = "pending"]
    BY <2>1, <2>4
  <2>6. Slots' = Slots
    BY <1>2, <2>5 DEF Slots
  <2> QED
    BY <1>1, <2>1, <2>5, <2>6, OutboxLife DEF OutboxStep
<1> QED
  BY <1>3, <1>4

LEMMA MapsPass ==
  ASSUME Before, Alone, AloneInv, Synced, Synced', NEW w \in Passes, Pass(w)
  PROVE  OutboxStep
<1>1. UNCHANGED <<disp, sent>>
  BY DEF Pass, Begin, Reserve, ReserveTimeout, Authority, Send, Accepted, NotAccepted,
         AcceptanceTimeout, Cancel, DropJournal, Ack, history
<1>2. \A a \in Alerts, d \in Dests : InFlight(a, d)' <=> InFlight(a, d)
  BY <1>1, SameFlight
<1>3. CASE disk' = disk
  BY <1>1, <1>2, <1>3, Stutters DEF OutboxStep
<1>4. ASSUME pc[w] # "idle", NEW l \in Over, disk' = WithLife(item[w], l)
      PROVE  /\ item[w] \in Alerts /\ disk.life[item[w]] = "pending"
             /\ disk'.life = [disk.life EXCEPT ![item[w]] = l] /\ Slots' = Slots
  <2>1. item[w] \in Alerts /\ disk.life[item[w]] = "pending"
    BY <1>4, OwnAlert DEF Pending, Synced
  <2>2. disk \in StoreState
    BY DEF Before, Types, StoreTypes
  <2>3. disk'.life = [disk.life EXCEPT ![item[w]] = l] /\ disk'.deliv = disk.deliv
    BY <1>4, <2>2 DEF WithLife, Synced, StoreState
  <2>4. Slots' = Slots
    BY <1>2, <2>3 DEF Slots
  <2> QED
    BY <2>1, <2>3, <2>4
<1>5. CASE Authority(w)
  <2>1. pc[w] = "check" /\ (disk' = disk \/ disk' = WithLife(item[w], "suppressed"))
    BY <1>5 DEF Authority, Persisted, PersistFails, store, Synced
  <2>2. CASE disk' = WithLife(item[w], "suppressed")
    <3>1. /\ item[w] \in Alerts /\ disk.life[item[w]] = "pending"
          /\ disk'.life = [disk.life EXCEPT ![item[w]] = "suppressed"] /\ Slots' = Slots
      BY <1>4, <2>1, <2>2 DEF Over
    <3> QED
      BY <1>1, <3>1, OutboxLife DEF OutboxStep
  <2> QED
    BY <1>3, <2>1, <2>2
<1>6. CASE Ack(w)
  <2>1. /\ pc[w] \in {"ack", "ack again"}
        /\ disk' = disk \/ disk' = WithLife(item[w], "retired")
    BY <1>6 DEF Ack, Acknowledge, Persisted, PersistFails, store, Synced
  <2>2. CASE disk' = WithLife(item[w], "retired")
    <3>1. /\ item[w] \in Alerts /\ disk.life[item[w]] = "pending"
          /\ disk'.life = [disk.life EXCEPT ![item[w]] = "retired"] /\ Slots' = Slots
      BY <1>4, <2>1, <2>2 DEF Over
    <3>2. AllServed(disk, item[w])
      BY <2>1 DEF AloneInv, Told, Synced
    <3>3. disp.at = "idle"
      BY <2>1, QuietPass DEF AloneInv, Awaiting
    <3>4. \A d \in Dests : ~InFlight(item[w], d)
      BY <3>1, <3>3, NothingFlies
    <3> QED
      BY <1>1, <3>1, <3>2, <3>4, OutboxRetire DEF OutboxStep
  <2> QED
    BY <1>3, <2>1, <2>2
<1>7. CASE Reserve(w)
  BY <1>3, <1>7 DEF Reserve, Persisted, PersistFails, store, Synced
<1> QED
  BY <1>3, <1>5, <1>6, <1>7
     DEF Pass, Begin, ReserveTimeout, Send, Accepted, NotAccepted, AcceptanceTimeout,
         Cancel, DropJournal, store

LEMMA MapsRest ==
  ASSUME AloneInv, Receive \/ Conclude \/ SinkFails  PROVE OutboxStep
<1>1. UNCHANGED <<disk, sent>>
  BY DEF Receive, SkipDuplicate, RejectUnrecorded, Enter, Received, Conclude, SinkFails,
         store, history
<1>2. \A a \in Alerts, d \in Dests : InFlight(a, d)' <=> InFlight(a, d)
  <2>1. CASE Receive
    <3>1. PICK a \in Alerts : SkipDuplicate(a) \/ RejectUnrecorded(a) \/ Enter(a)
      BY <2>1 DEF Receive
    <3>2. CASE SkipDuplicate(a) \/ RejectUnrecorded(a)
      <4>1. disp' = disp
        BY <3>2 DEF SkipDuplicate, RejectUnrecorded, Received
      <4> QED
        BY <1>1, <4>1, SameFlight
    <3>3. CASE Enter(a)
      <4>1. disp.at = "idle" /\ disp'.at = "next"
        BY <3>3 DEF Enter, Received
      <4> QED
        BY <1>1, <4>1, SameFlight DEF Flying
    <3> QED
      BY <3>1, <3>2, <3>3
  <2>2. CASE Conclude
    <3>1. disp.at \in {"next", "resolve"} /\ disp'.at \in {"resolve", "idle"}
      BY <2>2 DEF Conclude, Stay, Idle
    <3> QED
      BY <3>1, SameFlight DEF Flying
  <2>3. CASE SinkFails
    <3>1. /\ disp.at = "send" /\ disp'.at = "failed" /\ disp'.a = disp.a
          /\ disp'.i = disp.i /\ disp'.j = disp.j
      BY <2>3 DEF SinkFails, Stay
    <3>2. Dest' = Dest
      BY <3>1 DEF Dest
    <3> QED
      BY <3>1, <3>2 DEF InFlight
  <2> QED
    BY <2>1, <2>2, <2>3
<1> QED
  BY <1>1, <1>2, Stutters DEF OutboxStep

LEMMA MapsSendDelivery ==
  ASSUME Before, Alone, AloneInv, Synced, Synced', "persist" \notin Faults, SendDelivery
  PROVE  OutboxStep
<1>1. disp.at = "next" /\ disp.i <= Len(Route[disp.a]) /\ UNCHANGED sent
  BY DEF SendDelivery, history
<1>2. disp.a \in Alerts /\ Dest \in Dests /\ Pending(disp.a) /\ disp.a \in journal
  BY <1>1, AtDestination
<1>3. CASE disp' = Step(TRUE) /\ UNCHANGED store
  <2>1. disp'.at = "next" /\ disk' = disk
    BY <1>3 DEF Step, store
  <2>2. \A a \in Alerts, d \in Dests : InFlight(a, d)' <=> InFlight(a, d)
    BY <1>1, <2>1, SameFlight DEF Flying
  <2> QED
    BY <1>1, <2>1, <2>2, Stutters DEF OutboxStep
<1>4. ASSUME ~Skips(disp.a, Dest), NEW claimed \in BOOLEAN,
             UpdateDelivery(disp.a, Dest, "claimed", claimed),
             disp' = IF claimed THEN Stay("send", TRUE) ELSE Step(FALSE)
      PROVE  OutboxStep
  <2>1. mem.deliv[disp.a][Dest] \notin {"claimed", "delivered"}
    BY <1>2, <1>4 DEF Skips
  <2>2. mem' = WithDeliv(disp.a, Dest, "claimed") /\ claimed
    BY <1>2, <1>4, <2>1 DEF UpdateDelivery, Keeps, Persisted, PersistFails
  <2>3. disk \in StoreState
    BY DEF Before, Types, StoreTypes
  <2>4. /\ disk'.life = disk.life
        /\ disk'.deliv = [disk.deliv EXCEPT ![disp.a][Dest] = "claimed"]
    BY <2>2, <2>3 DEF WithDeliv, Synced, StoreState
  <2>5. /\ disp' = Stay("send", TRUE) /\ Dest' = Dest
        /\ disp'.at = "send" /\ disp'.j /\ disp'.a = disp.a
    BY <1>4, <2>2 DEF Stay, Dest
  <2>6. \A a \in Alerts, d \in Dests : /\ ~InFlight(a, d)
                                       /\ InFlight(a, d)' <=> a = disp.a /\ d = Dest
    BY <1>1, <2>5 DEF InFlight
  <2>7. \A a \in Alerts, d \in Dests :
          disk'.deliv[a][d] = IF a = disp.a /\ d = Dest THEN "claimed" ELSE disk.deliv[a][d]
    BY <1>2, <2>3, <2>4 DEF StoreState
  <2>8. Slots' = [Slots EXCEPT ![disp.a][Dest] = "claimed"]
    <3>1. \A a \in Alerts, d \in Dests :
            Slots'[a][d] = IF a = disp.a /\ d = Dest THEN "claimed" ELSE Slots[a][d]
      <4> SUFFICES ASSUME NEW a \in Alerts, NEW d \in Dests
                   PROVE  Slots'[a][d]
                            = IF a = disp.a /\ d = Dest THEN "claimed" ELSE Slots[a][d]
        OBVIOUS
      <4>1. CASE a = disp.a /\ d = Dest
        BY <2>6, <2>7, <4>1 DEF Slots
      <4>2. CASE ~(a = disp.a /\ d = Dest)
        BY <2>6, <2>7, <4>2 DEF Slots
      <4> QED
        BY <4>1, <4>2
    <3>2. DifferAt(Slots, Slots', disp.a, Dest, "claimed")
      BY <3>1, SlotsTable DEF DifferAt
    <3> QED
      BY <1>2, <3>2, OneSlot
  <2>9. Slots[disp.a][Dest] \in {"none", "failed"}
    BY <1>2, <2>1, <2>3 DEF Slots, Synced, StoreState, DeliveryState
  <2>10. Dest \in {Route[disp.a][n] : n \in 1..Len(Route[disp.a])}
    <3>1. disp.i \in 1..Len(Route[disp.a])
      BY <1>1, RouteTypes DEF Before
    <3> QED
      BY <3>1 DEF Dest
  <2>11. disk.life[disp.a] = "pending"
    BY <1>2 DEF Pending, Synced
  <2> QED
    BY <1>1, <1>2, <2>4, <2>8, <2>9, <2>10, <2>11, OutboxClaim DEF OutboxStep
<1> QED
  BY <1>2, <1>3, <1>4 DEF SendDelivery

LEMMA MapsSinkAccepts ==
  ASSUME Before, AloneInv, Synced, SinkAccepts  PROVE OutboxStep
<1>1. /\ disp.at = "send" /\ disp.i <= Len(Route[disp.a]) /\ UNCHANGED disk
      /\ sent' = [sent EXCEPT ![disp.a][Dest] = Up(sent[disp.a][Dest])]
  BY DEF SinkAccepts, store, Before, Types, DispatchTypes
<1>2. disp.a \in Alerts /\ Dest \in Dests
  BY <1>1, AtDestination
<1>3. /\ disp.j /\ disk.deliv[disp.a][Dest] = "claimed" /\ sent[disp.a][Dest] = 0
  BY <1>1 DEF Before, ServiceInv, ClaimedBeforeSend, AloneInv, Journaled, Flying
<1>4. sent' = [sent EXCEPT ![disp.a][Dest] = 1]
  BY <1>1, <1>3 DEF Up
<1>5. /\ disp'.at = "sent" /\ disp'.a = disp.a /\ disp'.i = disp.i /\ disp'.j = disp.j
  BY DEF SinkAccepts, Stay
<1>6. Dest' = Dest
  BY <1>5 DEF Dest
<1>7. \A a \in Alerts, d \in Dests : InFlight(a, d)' <=> InFlight(a, d)
  BY <1>1, <1>5, <1>6 DEF InFlight
<1>8. Slots' = Slots
  BY <1>1, <1>7 DEF Slots
<1>9. InFlight(disp.a, Dest)
  BY <1>1, <1>3 DEF InFlight
<1>10. Slots[disp.a][Dest] = "claimed"
  BY <1>2, <1>3, <1>9 DEF Slots
<1> QED
  BY <1>1, <1>2, <1>3, <1>4, <1>8, <1>10, OutboxSend DEF OutboxStep

LEMMA MapsFinish ==
  ASSUME Before, Alone, AloneInv, Synced, Synced', Finish  PROVE OutboxStep
<1>1. /\ disp.at \in {"sent", "failed"} /\ disp.i <= Len(Route[disp.a]) /\ UNCHANGED sent
  BY DEF Finish, history, Before, Types, DispatchTypes
<1>2. disp.a \in Alerts /\ Dest \in Dests /\ Pending(disp.a)
  BY <1>1, AtDestination
<1>3. /\ disp.j /\ mem.deliv[disp.a][Dest] = "claimed"
      /\ sent[disp.a][Dest] = IF disp.at = "sent" THEN 1 ELSE 0
  BY <1>1 DEF Before, ServiceInv, ClaimedBeforeSend, AloneInv, Journaled, Flying
<1>4. PICK v \in {"delivered", "failed"}, recorded \in BOOLEAN :
        /\ v = "delivered" <=> disp.at = "sent"
        /\ UpdateDelivery(disp.a, Dest, v, recorded)
        /\ disp' = Step((disp.at = "sent") /\ recorded)
  BY <1>3 DEF Finish
<1>5. mem' = WithDeliv(disp.a, Dest, v)
  BY <1>2, <1>3, <1>4 DEF UpdateDelivery, Keeps, Persisted, PersistFails
<1>6. disk \in StoreState
  BY DEF Before, Types, StoreTypes
<1>7. /\ disk'.life = disk.life
      /\ disk'.deliv = [disk.deliv EXCEPT ![disp.a][Dest] = v]
  BY <1>5, <1>6 DEF WithDeliv, Synced, StoreState
<1>8. disp'.at = "next"
  BY <1>4 DEF Step
<1>9. \A a \in Alerts, d \in Dests : /\ ~InFlight(a, d)'
                                     /\ InFlight(a, d) <=> a = disp.a /\ d = Dest
  BY <1>1, <1>3, <1>8 DEF InFlight
<1>10. \A a \in Alerts, d \in Dests :
         disk'.deliv[a][d] = IF a = disp.a /\ d = Dest THEN v ELSE disk.deliv[a][d]
  BY <1>2, <1>6, <1>7 DEF StoreState
<1>11. v # "claimed" /\ v = IF sent[disp.a][Dest] = 1 THEN "delivered" ELSE "failed"
  BY <1>3, <1>4
<1>12. Slots' = [Slots EXCEPT ![disp.a][Dest] = v]
  <2>1. \A a \in Alerts, d \in Dests :
          Slots'[a][d] = IF a = disp.a /\ d = Dest THEN v ELSE Slots[a][d]
    <3> SUFFICES ASSUME NEW a \in Alerts, NEW d \in Dests
                 PROVE  Slots'[a][d] = IF a = disp.a /\ d = Dest THEN v ELSE Slots[a][d]
      OBVIOUS
    <3>1. CASE a = disp.a /\ d = Dest
      BY <1>9, <1>10, <1>11, <3>1 DEF Slots
    <3>2. CASE ~(a = disp.a /\ d = Dest)
      BY <1>9, <1>10, <3>2 DEF Slots
    <3> QED
      BY <3>1, <3>2
  <2>2. DifferAt(Slots, Slots', disp.a, Dest, v)
    BY <2>1, SlotsTable DEF DifferAt
  <2> QED
    BY <1>2, <2>2, OneSlot
<1>13. Slots[disp.a][Dest] = "claimed"
  BY <1>2, <1>3, <1>9 DEF Slots, Synced
<1>14. Outbox!Next
  BY <1>1, <1>2, <1>7, <1>11, <1>12, <1>13, OutboxSettle
<1> QED
  BY <1>14 DEF OutboxStep

LEMMA MapsCrash ==
  ASSUME Crash  PROVE OutboxStep
<1>1. UNCHANGED <<disk, sent>> /\ disp'.at = "idle"
  BY DEF Crash, history, Idle
<1>2. \A a \in Alerts, d \in Dests : ~InFlight(a, d)'
  BY <1>1 DEF InFlight
<1>3. Slots' = [a \in Alerts |-> [d \in Dests |->
                  IF Slots[a][d] = "claimed" THEN "doubt" ELSE Slots[a][d]]]
  BY <1>1, <1>2 DEF Slots
<1> QED
  BY <1>1, <1>3, OutboxCrash DEF OutboxStep

LEMMA MapsInit == Init => Outbox!Init
<1> SUFFICES ASSUME Init PROVE Outbox!Init
  OBVIOUS
<1>1. disk = EmptyStore /\ sent = [a \in Alerts |-> [d \in Dests |-> 0]]
  BY DEF Init
<1>2. Slots = [a \in Alerts |-> [d \in Dests |-> "none"]]
  BY <1>1 DEF Slots, EmptyStore
<1> QED
  BY <1>1, <1>2 DEF Outbox!Init, Slots, EmptyStore

\* With one pass, no late verdict and no write that fails the pipeline does what
\* the outbox promises and nothing else: a destination is claimed before the sink
\* is called, gets the message once, and is in doubt only after a crash
\* (dispatch.rs 39-44, send_delivery, update_pending_alert_delivery).
THEOREM PipelineIsOutbox ==
  ASSUME Alone, "persist" \notin Faults
  PROVE  Spec => ImplementsOutbox
<1>1. Init => Synced
  BY DEF Init, Synced
<1>2. Synced /\ [Next]_vars => Synced'
  BY SyncedStep
<1>3. Before /\ AloneInv /\ Synced /\ Synced' /\ [Next]_vars => [Outbox!Next]_Outbox!vars
  <2> SUFFICES ASSUME Before, AloneInv, Synced, Synced', [Next]_vars PROVE OutboxStep
    BY DEF OutboxStep
  <2>1. CASE UNCHANGED vars
    <3>1. UNCHANGED <<disk, sent, disp>>
      BY <2>1 DEF vars
    <3>2. \A a \in Alerts, d \in Dests : InFlight(a, d)' <=> InFlight(a, d)
      BY <3>1, SameFlight
    <3> QED
      BY <3>1, <3>2, Stutters DEF OutboxStep
  <2>2. CASE Next
    BY <2>2, MapsWrites, MapsPass, MapsRest, MapsSendDelivery, MapsSinkAccepts, MapsFinish,
       MapsCrash DEF Next, Dispatch
  <2> QED
    BY <2>1, <2>2
<1> QED
  BY <1>1, <1>2, <1>3, MapsInit, AloneAlways, PTL DEF Spec, ImplementsOutbox, Outbox!Spec

=============================================================================
