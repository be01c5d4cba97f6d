---------------------------- MODULE RequestsProofs ----------------------------
(***************************************************************************)
(* What clients ask the daemon for again or in parallel.                   *)
(*                                                                         *)
(* Commands (CommandReceipts).  No command is sent twice while its receipt *)
(* is kept, for any keys, worktrees, requests and capacity, over crashes   *)
(* and failed writes.  The invariant ReceiptsInv is not inductive: a       *)
(* request reserves its key when memory has none, so memory must know what *)
(* went out (Seen), although a restart empties it.  It does from the       *)
(* moment the request has merged its worktree's file, and the file knows   *)
(* it (SentIsReserved); until then its copy of the file does.  Over one    *)
(* worktree memory is the file (MemoryKept) because a copy of the file     *)
(* that was overtaken agrees with memory or knows evicted receipts, which  *)
(* were evicted from a full registry that has no room for them; and it has *)
(* the outcomes clients were told (Kept).                                  *)
(*                                                                         *)
(* Subscriptions (Subscription).  SubscriptionInv holds for any number of  *)
(* workers, attempts and stops.  It is not inductive: what a status says   *)
(* is true as long as one worker writes it.  While no start has overtaken  *)
(* a stop there is one live worker at most, the one the registry knows or  *)
(* the one a stop waits for (NoOverlap), and after a stop was answered     *)
(* there is none.                                                          *)
(*                                                                         *)
(* Messages of watched channels (DiscordWatch).  A count says no more than *)
(* what came since its reset, because what it counts is still remembered   *)
(* (Books), and intents keep the cooldowns apart, because the state file   *)
(* knows of a nudge no earlier than each intent it was noted with          *)
(* (Barred).                                                               *)
(***************************************************************************)
EXTENDS CommandReceipts, Subscription, DiscordWatch, FiniteSetTheorems, TLAPS

Claims  == {"send", "reply", "finish"}
Past(r) == req[r].pc \in {"check", "reserve"} \cup Claims

\* A request under way knows every command of its worktree that went out, from
\* memory or, before it has merged it, from its copy of the file.
Knows(r, k) ==
  \/ registry[k] # "none"
  \/ req[r].pc = "load" /\ req[r].loaded[k] # "none"
Seen ==
  \A r \in Requests, k \in Keys :
    req[r].pc # "idle" /\ sent[k] # 0 /\ Home[k] = Home[req[r].key] => Knows(r, k)

\* What a request holds, and it has not sent yet what it is about to send.
Owned(r) == Reservation(r) /\ (req[r].pc = "send" => sent[req[r].key] = 0)

ReceiptsIInv == ReceiptsTypeOK /\ SentIsReserved /\ Seen /\ \A r \in Requests : Owned(r)

-----------------------------------------------------------------------------
\* The fields a request has at each place.
LEMMA RequestFields ==
  ASSUME ReceiptsTypeOK, NEW r \in Requests
  PROVE  /\ req[r].pc # "idle" => req[r].key \in Keys
         /\ req[r].pc = "load" => req[r] = [pc |-> "load", key |-> req[r].key, loaded |-> req[r].loaded]
                                  /\ req[r].loaded \in Receipts
         /\ req[r].pc \in {"check", "reserve", "send"} => req[r] = [pc |-> req[r].pc, key |-> req[r].key]
         /\ req[r].pc \in {"reply", "finish"} =>
              req[r] = [pc |-> req[r].pc, key |-> req[r].key, reply |-> req[r].reply]
              /\ req[r].reply \in Replies
         /\ req[r].pc = "finish" => req[r].reply \in Outcomes
<1>1. req[r] \in RequestStates
  BY DEF ReceiptsTypeOK
<1> QED
  BY <1>1 DEF RequestStates, Replies, Idle

\* A write of the whole registry, which may be taken back in memory or fail on
\* disk, loses no command that went out but those evicted by it (persist).
LEMMA WriteKeeps ==
  ASSUME ReceiptConstants, ReceiptsIInv, ReceiptsTypeOK',
         NEW r \in Requests, Past(r),
         NEW receipts \in Receipts,
         registry' \in {registry, receipts},
         file' \in {file, [file EXCEPT ![Home[req[r].key]] = receipts]},
         \A k \in Keys : sent'[k] \in {0, sent[k]},
         registry' # registry \/ file' # file =>
           \A k \in Keys : registry[k] # "none" /\ receipts[k] = "none" => sent'[k] = 0,
         \A q \in Requests :
           \/ req'[q] = req[q]
           \/ req'[q].pc = "idle"
           \/ q = r /\ req'[q].key = req[q].key
  PROVE  SentIsReserved' /\ Seen'
<1>1. /\ req[r].pc # "idle" /\ req[r].pc # "load" /\ req[r].key \in Keys
      /\ Home \in [Keys -> Worktrees] /\ registry \in Receipts /\ file \in [Worktrees -> Receipts]
      /\ sent \in [Keys -> Nat]
  BY RequestFields DEF ReceiptsIInv, ReceiptsTypeOK, Past, Claims, ReceiptConstants
<1>2. ASSUME NEW k \in Keys, sent'[k] # 0
      PROVE  /\ sent'[k] = sent[k] /\ sent[k] # 0 /\ sent[k] <= 1
             /\ file[Home[k]][k] # "none"
             /\ registry' # registry \/ file' # file =>
                  (registry[k] # "none" => receipts[k] # "none")
             /\ Home[k] = Home[req[r].key] => registry[k] # "none"
  <2>1. sent'[k] = sent[k] /\ sent[k] # 0
    BY <1>2
  <2>2. sent[k] <= 1 /\ sent[k] \in Nat /\ (sent[k] = 1 => file[Home[k]][k] # "none")
    BY <1>1 DEF ReceiptsIInv, SentIsReserved
  <2>3. registry' # registry \/ file' # file =>
          (registry[k] # "none" => receipts[k] # "none")
    BY <1>2
  <2>4. Home[k] = Home[req[r].key] => registry[k] # "none"
    BY <1>1, <2>1 DEF ReceiptsIInv, Seen, Knows
  <2> QED
    BY <2>1, <2>2, <2>3, <2>4
<1>3. SentIsReserved'
  <2> SUFFICES ASSUME NEW k \in Keys
               PROVE  sent'[k] <= 1 /\ (sent'[k] = 1 => file'[Home[k]][k] # "none")
    BY DEF SentIsReserved
  <2>1. CASE sent'[k] = 0
    BY <2>1
  <2>2. CASE sent'[k] # 0
    <3>1. file'[Home[k]][k] # "none"
      <4>1. CASE file' = file
        BY <1>2, <2>2, <4>1
      <4>2. CASE file' # file /\ Home[k] = Home[req[r].key]
        <5>1. file'[Home[k]] = receipts
          BY <1>1, <4>2
        <5> QED
          BY <1>2, <2>2, <4>2, <5>1
      <4>3. CASE file' # file /\ Home[k] # Home[req[r].key]
        <5>1. file'[Home[k]] = file[Home[k]]
          BY <1>1, <4>3
        <5> QED
          BY <1>2, <2>2, <5>1
      <4> QED
        BY <4>1, <4>2, <4>3
    <3> QED
      BY <1>2, <2>2, <3>1
  <2> QED
    BY <2>1, <2>2
<1>4. Seen'
  <2> SUFFICES ASSUME NEW q \in Requests, NEW k \in Keys,
                      req'[q].pc # "idle", sent'[k] # 0, Home[k] = Home[req'[q].key]
               PROVE  Knows(q, k)'
    BY DEF Seen
  <2>1. sent[k] # 0
    BY <1>2
  <2>2. registry[k] # "none" => registry'[k] # "none"
    BY <1>2
  <2>3. CASE req'[q] = req[q]
    <3>1. Knows(q, k)
      BY <2>1, <2>3 DEF ReceiptsIInv, Seen
    <3> QED
      BY <2>2, <2>3, <3>1 DEF Knows
  <2>4. CASE q = r /\ req'[q].key = req[q].key
    BY <1>2, <2>2, <2>4 DEF Knows
  <2> QED
    BY <2>3, <2>4
<1> QED
  BY <1>3, <1>4

-----------------------------------------------------------------------------
\* The types of what a request writes.
LEMMA WriteTypes ==
  ASSUME ReceiptConstants, ReceiptsTypeOK, NEW r \in Requests, req[r].pc # "idle",
         NEW receipts \in Receipts, Persists(r, receipts) \/ PersistFails(r, receipts)
  PROVE  /\ registry' \in {registry, receipts} /\ registry' \in Receipts
         /\ file' \in {file, [file EXCEPT ![Home[req[r].key]] = receipts]}
         /\ file' \in [Worktrees -> Receipts]
         /\ faults' \in 0..MaxFaults /\ broken' \subseteq Worktrees
<1>1. /\ Home[req[r].key] \in Worktrees /\ faults \in 0..MaxFaults /\ MaxFaults \in Nat
      /\ registry \in Receipts /\ file \in [Worktrees -> Receipts] /\ broken \subseteq Worktrees
  BY RequestFields DEF ReceiptConstants, ReceiptsTypeOK
<1>2. CASE Persists(r, receipts)
  BY <1>1, <1>2 DEF Persists
<1>3. CASE PersistFails(r, receipts)
  BY <1>1, <1>3 DEF PersistFails
<1> QED
  BY <1>2, <1>3

\* What a reservation writes: the key is accepted, and at most one receipt with
\* an outcome gives way.
LEMMA ReservedReceipts ==
  ASSUME ReceiptsTypeOK, NEW k \in Keys, NEW evicted \in Evictable
  PROVE  /\ evicted \subseteq Keys /\ Reserved(k, evicted) \in Receipts
         /\ Reserved(k, evicted)[k] = "accepted"
         /\ \A j \in Keys : j \in evicted => registry[j] \in Outcomes
         /\ \A j \in Keys : j # k /\ j \notin evicted => Reserved(k, evicted)[j] = registry[j]
BY DEF Evictable, Reserved, ReceiptsTypeOK, Receipts, Statuses

LEMMA ReceiptsInitial ==
  ASSUME ReceiptConstants, ReceiptsInit
  PROVE  ReceiptsIInv
BY DEF ReceiptConstants, ReceiptsInit, ReceiptsIInv, ReceiptsTypeOK, Receipts, Empty, Idle, RequestStates,
       SentIsReserved, Seen, Owned, Reservation

-----------------------------------------------------------------------------
\* The steps.

\* Every step keeps the types.
LEMMA TypeNext ==
  ASSUME ReceiptConstants, ReceiptsTypeOK, ReceiptsNext
  PROVE  ReceiptsTypeOK'
<1> USE DEF ReceiptConstants
<1>1. CASE Restart
  BY <1>1 DEF Restart, ReceiptsTypeOK, Receipts, Empty, RequestStates, Idle
<1>2. ASSUME NEW r \in Requests, NEW k \in Keys, Open(r, k)  PROVE ReceiptsTypeOK'
  <2>1. [pc |-> "load", key |-> k, loaded |-> file[Home[k]]] \in RequestStates
    BY DEF ReceiptsTypeOK, RequestStates
  <2> QED
    BY <1>2, <2>1 DEF Open, Goes, ReceiptsTypeOK
<1>3. ASSUME NEW r \in Requests, Load(r)  PROVE ReceiptsTypeOK'
  <2>1. req[r].key \in Keys /\ req[r].loaded \in Receipts
    BY <1>3, RequestFields DEF Load, At
  <2>2. Merged(req[r].loaded) \in Receipts
    BY <2>1 DEF Merged, Receipts, ReceiptsTypeOK
  <2>3. Step("check", req[r].key) \in RequestStates /\ Idle \in RequestStates
    BY <2>1 DEF Step, RequestStates
  <2> QED
    BY <1>3, <2>2, <2>3 DEF Load, Goes, ReceiptsTypeOK
<1>4. ASSUME NEW r \in Requests, Check(r)  PROVE ReceiptsTypeOK'
  <2>1. Step("reserve", req[r].key) \in RequestStates
    BY <1>4, RequestFields DEF Check, At, Step, RequestStates
  <2> QED
    BY <1>4, <2>1 DEF Check, Goes, ReceiptsTypeOK
<1>5. ASSUME NEW r \in Requests, Reserve(r)  PROVE ReceiptsTypeOK'
  <2>1. req[r].pc # "idle" /\ req[r].key \in Keys
    BY <1>5, RequestFields DEF Reserve, At
  <2>2. PICK evicted \in Evictable :
          /\ \/ Persists(r, Reserved(req[r].key, evicted)) /\ Goes(r, Step("send", req[r].key))
             \/ PersistFails(r, Reserved(req[r].key, evicted)) /\ Goes(r, Idle)
          /\ Forgets(evicted)
    BY <1>5 DEF Reserve
  <2>3. Reserved(req[r].key, evicted) \in Receipts
    BY <2>1, ReservedReceipts
  <2>4. /\ registry' \in Receipts /\ file' \in [Worktrees -> Receipts]
        /\ faults' \in 0..MaxFaults /\ broken' \subseteq Worktrees
    BY <2>1, <2>2, <2>3, WriteTypes
  <2>5. Step("send", req[r].key) \in RequestStates /\ Idle \in RequestStates
    BY <2>1 DEF Step, RequestStates
  <2>6. req' \in [Requests -> RequestStates]
    BY <2>2, <2>5 DEF Goes, ReceiptsTypeOK
  <2>7. sent' \in [Keys -> Nat] /\ told' \in [Keys -> Outcomes \cup {"none"}]
    BY <2>2 DEF Forgets, ReceiptsTypeOK
  <2> QED
    BY <1>5, <2>4, <2>6, <2>7 DEF Reserve, ReceiptsTypeOK
<1>6. ASSUME NEW r \in Requests, Send(r)  PROVE ReceiptsTypeOK'
  <2>1. req[r].key \in Keys
    BY <1>6, RequestFields DEF Send, At
  <2>2. PICK reply \in Replies : Goes(r, [pc |-> "reply", key |-> req[r].key, reply |-> reply])
    BY <1>6 DEF Send
  <2>3. req' \in [Requests -> RequestStates]
    BY <2>1, <2>2 DEF Goes, ReceiptsTypeOK, RequestStates
  <2>4. sent' \in [Keys -> Nat]
    BY <1>6, <2>1 DEF Send, ReceiptsTypeOK
  <2> QED
    BY <1>6, <2>3, <2>4 DEF Send, ReceiptsTypeOK
<1>7. ASSUME NEW r \in Requests, Ack(r)  PROVE ReceiptsTypeOK'
  <2>1. /\ req[r].pc # "idle" /\ req[r].key \in Keys /\ req[r].reply \in Replies
        /\ req[r] = [pc |-> "reply", key |-> req[r].key, reply |-> req[r].reply]
    BY <1>7, RequestFields DEF Ack, At
  <2>2. [registry EXCEPT ![req[r].key] = "acked"] \in Receipts
    BY <2>1 DEF ReceiptsTypeOK, Receipts, Statuses
  <2>3. /\ registry' \in Receipts /\ file' \in [Worktrees -> Receipts]
        /\ faults' \in 0..MaxFaults /\ broken' \subseteq Worktrees
    BY <1>7, <2>1, <2>2, WriteTypes DEF Ack
  <2>4. [req[r] EXCEPT !.pc = "finish"] = [pc |-> "finish", key |-> req[r].key, reply |-> req[r].reply]
    BY <2>1
  <2>5. /\ req[r].reply \in Outcomes => [req[r] EXCEPT !.pc = "finish"] \in RequestStates
        /\ Idle \in RequestStates
    BY <2>1, <2>4 DEF RequestStates
  <2>6. req' \in [Requests -> RequestStates]
    BY <1>7, <2>5 DEF Ack, Goes, ReceiptsTypeOK
  <2> QED
    BY <1>7, <2>3, <2>6 DEF Ack, ReceiptsTypeOK
<1>8. ASSUME NEW r \in Requests, Finish(r)  PROVE ReceiptsTypeOK'
  <2>1. req[r].pc # "idle" /\ req[r].key \in Keys /\ req[r].reply \in Outcomes
    BY <1>8, RequestFields DEF Finish, At
  <2>2. [registry EXCEPT ![req[r].key] = req[r].reply] \in Receipts
    BY <1>8, <2>1 DEF ReceiptsTypeOK, Receipts, Statuses
  <2>3. /\ registry' \in Receipts /\ file' \in [Worktrees -> Receipts]
        /\ faults' \in 0..MaxFaults /\ broken' \subseteq Worktrees
    BY <1>8, <2>1, <2>2, WriteTypes DEF Finish
  <2>4. req' \in [Requests -> RequestStates]
    BY <1>8 DEF Finish, Goes, ReceiptsTypeOK, RequestStates
  <2>5. told' \in [Keys -> Outcomes \cup {"none"}]
    BY <1>8, <2>1 DEF Finish, ReceiptsTypeOK
  <2> QED
    BY <1>8, <2>3, <2>4, <2>5 DEF Finish, ReceiptsTypeOK
<1>9. ASSUME NEW r \in Requests, End(r)  PROVE ReceiptsTypeOK'
  BY <1>9 DEF End, Goes, ReceiptsTypeOK, RequestStates
<1> QED
  BY <1>1, <1>2, <1>3, <1>4, <1>5, <1>6, <1>7, <1>8, <1>9 DEF ReceiptsNext

\* A request that holds its key changes its receipt, and goes on or ends.
LEMMA HolderKeeps ==
  ASSUME ReceiptConstants, ReceiptsIInv, ReceiptsTypeOK',
         NEW r \in Requests, req[r].pc \in {"reply", "finish"},
         NEW receipts \in Receipts, receipts[req[r].key] # "none",
         \A j \in Keys : j # req[r].key => receipts[j] = registry[j],
         registry' \in {registry, receipts},
         file' \in {file, [file EXCEPT ![Home[req[r].key]] = receipts]},
         \A j \in Keys : sent'[j] = sent[j],
         \A q \in Requests \ {r} : req'[q] = req[q],
         \/ req'[r].pc = "idle"
         \/ req'[r].pc = "finish" /\ req'[r].key = req[r].key /\ registry'[req[r].key] = "acked"
  PROVE  SentIsReserved' /\ Seen' /\ \A q \in Requests : Owned(q)'
<1> DEFINE k == req[r].key
<1>0. /\ registry \in Receipts /\ file \in [Worktrees -> Receipts] /\ k \in Keys
      /\ Home \in [Keys -> Worktrees] /\ Past(r) /\ req[r].pc \in Claims
  BY RequestFields DEF ReceiptsIInv, ReceiptsTypeOK, ReceiptConstants, Past, Claims
<1>1. /\ \A j \in Keys : j # k => receipts[j] = registry[j]
      /\ receipts[k] # "none" /\ registry[k] # "none"
  BY <1>0 DEF ReceiptsIInv, Owned, Reservation, Claims
<1>3. \A q \in Requests : \/ req'[q] = req[q] \/ req'[q].pc = "idle"
                          \/ q = r /\ req'[q].key = req[q].key
  OBVIOUS
<1>4. SentIsReserved' /\ Seen'
  <2>1. /\ \A j \in Keys : registry[j] # "none" => receipts[j] # "none"
        /\ \A j \in Keys : sent'[j] \in {0, sent[j]}
    BY <1>1
  <2> QED
    BY <1>0, <1>3, <2>1, WriteKeeps
<1>5. ASSUME NEW q \in Requests, q # r, req[q].pc \in Claims
      PROVE  req[q].key # k /\ Owned(q)'
  <2>1. req[q].key \in Keys /\ Owned(q) /\ Owned(r)
    BY <1>5, RequestFields DEF ReceiptsIInv, Claims
  <2>2. req[q].key # k
    BY <1>0, <1>5, <2>1 DEF Owned, Reservation, Claims
  <2>3. registry'[req[q].key] = registry[req[q].key]
    BY <1>1, <2>1, <2>2
  <2>4. registry[req[q].key] # "none" /\ file[Home[req[q].key]][req[q].key] # "none"
    BY <1>5, <2>1 DEF Owned, Reservation, Claims
  <2>5. file'[Home[req[q].key]][req[q].key] # "none"
    <3>1. CASE file' = file
      BY <2>4, <3>1
    <3>2. CASE file' # file /\ Home[req[q].key] = Home[k]
      <4>1. file'[Home[req[q].key]] = receipts
        BY <1>0, <3>2
      <4> QED
        BY <1>1, <2>1, <2>2, <2>4, <4>1
    <3>3. CASE file' # file /\ Home[req[q].key] # Home[k]
      <4>1. file'[Home[req[q].key]] = file[Home[req[q].key]]
        BY <1>0, <2>1, <3>3
      <4> QED
        BY <2>4, <4>1
    <3> QED
      BY <3>1, <3>2, <3>3
  <2>6. \A o \in Requests \ {q} : req'[o].pc \in Claims => req'[o].key # req[q].key
    BY <1>5, <2>1, <2>2 DEF Owned, Reservation, Claims
  <2> QED
    BY <1>5, <2>1, <2>2, <2>3, <2>5, <2>6 DEF Owned, Reservation, At, Claims
<1>6. ASSUME NEW q \in Requests, q # r, req[q].pc \notin Claims  PROVE Owned(q)'
  BY <1>6 DEF Owned, Reservation, Claims
<1>7. Owned(r)'
  <2>1. CASE req'[r].pc = "idle"
    BY <2>1 DEF Owned, Reservation
  <2>2. CASE req'[r].pc = "finish" /\ req'[r].key = k /\ registry'[k] = "acked"
    <3>1. file[Home[k]][k] # "none"
      BY <1>0 DEF ReceiptsIInv, Owned, Reservation, Claims
    <3>2. file'[Home[k]][k] # "none"
      BY <1>0, <1>1, <3>1
    <3>3. \A o \in Requests \ {r} : req'[o].pc \in Claims => req'[o].key # k
      BY <1>5
    <3> QED
      BY <2>2, <3>2, <3>3 DEF Owned, Reservation, At, Claims
  <2> QED
    BY <2>1, <2>2
<1> QED
  BY <1>4, <1>5, <1>6, <1>7

\* Every step keeps what went out known and what is held held.
LEMMA StepKeeps ==
  ASSUME ReceiptConstants, ReceiptsIInv, ReceiptsTypeOK', ReceiptsNext
  PROVE  SentIsReserved' /\ Seen' /\ \A r \in Requests : Owned(r)'
<1> USE DEF ReceiptConstants
<1>0. /\ registry \in Receipts /\ file \in [Worktrees -> Receipts]
      /\ req \in [Requests -> RequestStates] /\ sent \in [Keys -> Nat]
  BY DEF ReceiptsIInv, ReceiptsTypeOK
<1> DEFINE Good == SentIsReserved' /\ Seen' /\ \A r \in Requests : Owned(r)'
<1>1. CASE Restart
  BY <1>0, <1>1 DEF Restart, ReceiptsIInv, SentIsReserved, Seen, Owned, Reservation, Idle
<1>2. ASSUME NEW r \in Requests, NEW k \in Keys, Open(r, k)  PROVE Good
  <2>1. SentIsReserved'
    BY <1>2 DEF Open, ReceiptsIInv, SentIsReserved
  <2>2. /\ req'[r] = [pc |-> "load", key |-> k, loaded |-> file[Home[k]]]
        /\ \A q \in Requests \ {r} : req'[q] = req[q]
        /\ registry' = registry /\ file' = file /\ sent' = sent
    BY <1>0, <1>2 DEF Open, Goes
  <2>3. \A j \in Keys : sent[j] # 0 => file[Home[j]][j] # "none"
    BY <1>0 DEF ReceiptsIInv, SentIsReserved
  <2>4. Seen'
    BY <2>2, <2>3 DEF Seen, Knows, ReceiptsIInv
  <2>5. \A q \in Requests : Owned(q)'
    BY <2>2 DEF Owned, Reservation, At, ReceiptsIInv
  <2> QED
    BY <2>1, <2>4, <2>5
<1>3. ASSUME NEW r \in Requests, Load(r)  PROVE Good
  <2>1. /\ req[r].pc = "load" /\ req[r].key \in Keys /\ req[r].loaded \in Receipts
        /\ file' = file /\ sent' = sent
        /\ \A q \in Requests \ {r} : req'[q] = req[q]
    BY <1>0, <1>3, RequestFields DEF Load, At, Goes, ReceiptsIInv
  <2>2. \A k \in Keys : registry[k] # "none" => registry'[k] = registry[k]
    BY <1>3 DEF Load, Merged
  <2>3. \/ req'[r] = Idle
        \/ /\ req'[r] = Step("check", req[r].key)
           /\ \A k \in Keys : req[r].loaded[k] # "none" => registry'[k] # "none"
    BY <1>0, <1>3 DEF Load, Goes, Merged
  <2>4. SentIsReserved'
    BY <2>1 DEF ReceiptsIInv, SentIsReserved
  <2>5. Seen'
    BY <2>1, <2>2, <2>3 DEF Seen, Knows, ReceiptsIInv, Idle, Step
  <2>6. ASSUME NEW q \in Requests  PROVE Owned(q)'
    <3>1. CASE q = r
      BY <2>3, <3>1 DEF Owned, Reservation, Idle, Step
    <3>2. CASE q # r /\ req[q].pc \in Claims
      <4>1. req[q].key \in Keys /\ Owned(q)
        BY <3>2, RequestFields DEF ReceiptsIInv, Claims
      <4>2. registry'[req[q].key] = registry[req[q].key]
        BY <2>2, <3>2, <4>1 DEF Owned, Reservation, Claims, At
      <4> QED
        BY <2>1, <2>3, <3>2, <4>1, <4>2 DEF Owned, Reservation, At, Idle, Step
    <3>3. CASE q # r /\ req[q].pc \notin Claims
      BY <2>1, <3>3 DEF Owned, Reservation, Claims
    <3> QED
      BY <3>1, <3>2, <3>3
  <2> QED
    BY <2>4, <2>5, <2>6
<1>4. ASSUME NEW r \in Requests, Check(r)  PROVE Good
  <2>1. /\ req[r].pc = "check" /\ req'[r] = [pc |-> "reserve", key |-> req[r].key]
        /\ \A q \in Requests \ {r} : req'[q] = req[q]
        /\ registry' = registry /\ file' = file /\ sent' = sent
    BY <1>0, <1>4 DEF Check, At, Goes, Step
  <2>2. SentIsReserved'
    BY <2>1 DEF ReceiptsIInv, SentIsReserved
  <2>3. Seen'
    BY <2>1 DEF ReceiptsIInv, Seen, Knows
  <2>4. \A q \in Requests : Owned(q)'
    BY <2>1 DEF ReceiptsIInv, Owned, Reservation, At
  <2> QED
    BY <2>2, <2>3, <2>4
<1>5. ASSUME NEW r \in Requests, Reserve(r)  PROVE Good
  <2> DEFINE k == req[r].key
  <2>1. /\ req[r].pc = "reserve" /\ k \in Keys /\ Past(r) /\ registry[k] = "none"
    BY <1>0, <1>5, RequestFields DEF Reserve, At, Past, ReceiptsIInv
  <2>2. PICK evicted \in Evictable :
          /\ \/ Persists(r, Reserved(k, evicted)) /\ Goes(r, Step("send", k))
             \/ PersistFails(r, Reserved(k, evicted)) /\ Goes(r, Idle)
          /\ Forgets(evicted)
    BY <1>5 DEF Reserve
  <2> DEFINE receipts == Reserved(k, evicted)
  <2>3. /\ evicted \subseteq Keys /\ receipts \in Receipts /\ receipts[k] = "accepted"
        /\ \A j \in Keys : j \in evicted => registry[j] \in Outcomes
        /\ \A j \in Keys : j # k /\ j \notin evicted => receipts[j] = registry[j]
    BY <2>1, ReservedReceipts DEF ReceiptsIInv
  <2>4. /\ registry' \in {registry, receipts}
        /\ file' \in {file, [file EXCEPT ![Home[k]] = receipts]}
    BY <2>1, <2>2, <2>3, WriteTypes DEF ReceiptsIInv
  <2>5. /\ \A j \in Keys : sent'[j] \in {0, sent[j]}
        /\ registry' # registry \/ file' # file => \A j \in evicted : sent'[j] = 0
    BY <1>0, <2>2, <2>3 DEF Forgets
  <2>6. /\ \A q \in Requests \ {r} : req'[q] = req[q]
        /\ \/ req'[r] = [pc |-> "send", key |-> k] /\ Persists(r, receipts)
           \/ req'[r] = Idle
    BY <1>0, <2>2 DEF Goes, Step
  <2>7. registry' # registry \/ file' # file =>
          \A j \in Keys : registry[j] # "none" /\ receipts[j] = "none" => sent'[j] = 0
    BY <2>1, <2>3, <2>5
  <2>8. \A q \in Requests : \/ req'[q] = req[q] \/ req'[q].pc = "idle"
                            \/ q = r /\ req'[q].key = req[q].key
    BY <2>6 DEF Idle
  <2>9. SentIsReserved' /\ Seen'
    BY <2>1, <2>3, <2>4, <2>5, <2>7, <2>8, WriteKeeps
  <2>10. ASSUME NEW q \in Requests, q # r, req[q].pc \in Claims
         PROVE  req[q].key # k /\ Owned(q)'
    <3>1. req[q].key \in Keys /\ Owned(q) /\ registry[req[q].key] \in {"accepted", "acked"}
      BY <2>10, RequestFields DEF ReceiptsIInv, Owned, Reservation, At, Claims
    <3>2. req[q].key # k /\ req[q].key \notin evicted /\ receipts[req[q].key] = registry[req[q].key]
      BY <2>1, <2>3, <3>1 DEF Outcomes
    <3>3. registry'[req[q].key] = registry[req[q].key]
      BY <2>4, <3>2
    <3>4. Home[req[q].key] \in Worktrees /\ Home[k] \in Worktrees
      BY <2>1, <3>1
    <3>5. file'[Home[req[q].key]][req[q].key] # "none"
      <4>1. CASE file' = file
        BY <2>10, <3>1, <4>1 DEF Owned, Reservation, Claims
      <4>2. CASE file' # file /\ Home[req[q].key] = Home[k]
        <5>1. file'[Home[req[q].key]] = receipts
          BY <1>0, <2>4, <3>4, <4>2
        <5> QED
          BY <3>1, <3>2, <5>1
      <4>3. CASE file' # file /\ Home[req[q].key] # Home[k]
        <5>1. file'[Home[req[q].key]] = file[Home[req[q].key]]
          BY <1>0, <2>4, <3>4, <4>3
        <5> QED
          BY <2>10, <3>1, <5>1 DEF Owned, Reservation, Claims
      <4> QED
        BY <4>1, <4>2, <4>3
    <3>6. sent[req[q].key] = 0 => sent'[req[q].key] = 0
      BY <2>5, <3>1
    <3>7. \A o \in Requests \ {q} : req'[o].pc \in Claims => req'[o].key # req[q].key
      BY <2>6, <2>10, <3>1, <3>2 DEF Owned, Reservation, Claims, Idle
    <3> QED
      BY <2>6, <2>10, <3>1, <3>2, <3>3, <3>5, <3>6, <3>7 DEF Owned, Reservation, At, Claims
  <2>11. ASSUME NEW q \in Requests, q # r, req[q].pc \notin Claims  PROVE Owned(q)'
    BY <2>6, <2>11 DEF Owned, Reservation, Claims
  <2>12. Owned(r)'
    <3>1. CASE req'[r] = Idle
      BY <3>1 DEF Owned, Reservation, Idle
    <3>2. CASE req'[r] = [pc |-> "send", key |-> k] /\ Persists(r, receipts)
      <4>1. registry' = receipts /\ file'[Home[k]] = receipts
        BY <1>0, <2>1, <3>2 DEF Persists
      <4>2. sent[k] = 0
        BY <2>1 DEF ReceiptsIInv, Seen, Knows, Past
      <4>3. \A o \in Requests \ {r} : req'[o].pc \in Claims => req'[o].key # k
        BY <2>6, <2>10
      <4> QED
        BY <2>3, <2>5, <2>1, <3>2, <4>1, <4>2, <4>3 DEF Owned, Reservation, At, Claims
    <3> QED
      BY <2>6, <3>1, <3>2
  <2> QED
    BY <2>9, <2>10, <2>11, <2>12
<1>6. ASSUME NEW r \in Requests, Send(r)  PROVE Good
  <2>1. /\ req[r].pc = "send" /\ req[r].key \in Keys
        /\ registry' = registry /\ file' = file
        /\ sent' = [sent EXCEPT ![req[r].key] = @ + 1]
    BY <1>0, <1>6, RequestFields DEF Send, At, ReceiptsIInv
  <2>2. PICK reply \in Replies : req'[r] = [pc |-> "reply", key |-> req[r].key, reply |-> reply]
    BY <1>0, <1>6 DEF Send, Goes
  <2>3. \A q \in Requests \ {r} : req'[q] = req[q]
    BY <1>0, <1>6 DEF Send, Goes
  <2>4. /\ sent[req[r].key] = 0 /\ registry[req[r].key] = "accepted"
        /\ file[Home[req[r].key]][req[r].key] # "none"
        /\ \A o \in Requests \ {r} : req[o].pc \in Claims => req[o].key # req[r].key
    BY <2>1 DEF ReceiptsIInv, Owned, Reservation, At, Claims
  <2>5. sent'[req[r].key] = 1 /\ \A k \in Keys : k # req[r].key => sent'[k] = sent[k]
    BY <1>0, <2>1, <2>4
  <2>6. SentIsReserved'
    BY <2>1, <2>4, <2>5 DEF ReceiptsIInv, SentIsReserved
  <2>7. Seen'
    BY <2>1, <2>2, <2>3, <2>4, <2>5 DEF ReceiptsIInv, Seen, Knows
  <2>8. ASSUME NEW q \in Requests  PROVE Owned(q)'
    <3>1. CASE q = r
      BY <2>1, <2>2, <2>3, <2>4, <3>1 DEF Owned, Reservation, At, Claims
    <3>2. CASE q # r /\ req[q].pc \in Claims
      <4>1. req[q].key \in Keys /\ req[q].key # req[r].key /\ Owned(q)
        BY <2>4, <3>2, RequestFields DEF ReceiptsIInv, Claims
      <4> QED
        BY <2>1, <2>2, <2>3, <2>5, <3>2, <4>1 DEF Owned, Reservation, At, Claims
    <3>3. CASE q # r /\ req[q].pc \notin Claims
      BY <2>3, <3>3 DEF Owned, Reservation, Claims
    <3> QED
      BY <3>1, <3>2, <3>3
  <2> QED
    BY <2>6, <2>7, <2>8
<1>7. ASSUME NEW r \in Requests, Ack(r)  PROVE Good
  <2> DEFINE receipts == [registry EXCEPT ![req[r].key] = "acked"]
  <2>1. /\ req[r].pc = "reply" /\ req[r].key \in Keys
        /\ req[r] = [pc |-> "reply", key |-> req[r].key, reply |-> req[r].reply]
    BY <1>7, RequestFields DEF Ack, At, ReceiptsIInv
  <2>2. /\ Persists(r, receipts) \/ PersistFails(r, receipts)
        /\ sent' = sent /\ \A q \in Requests \ {r} : req'[q] = req[q]
        /\ \/ req'[r].pc = "idle"
           \/ Persists(r, receipts) /\ req'[r] = [req[r] EXCEPT !.pc = "finish"]
    BY <1>0, <1>7 DEF Ack, Goes, Idle
  <2>3. /\ receipts \in Receipts /\ receipts[req[r].key] = "acked"
        /\ \A j \in Keys : j # req[r].key => receipts[j] = registry[j]
    BY <1>0, <2>1 DEF Receipts, Statuses
  <2>4. /\ registry' \in {registry, receipts}
        /\ file' \in {file, [file EXCEPT ![Home[req[r].key]] = receipts]}
    BY <2>1, <2>2, <2>3, WriteTypes DEF ReceiptsIInv
  <2>5. [req[r] EXCEPT !.pc = "finish"] = [pc |-> "finish", key |-> req[r].key, reply |-> req[r].reply]
    BY <2>1
  <2>6. \/ req'[r].pc = "idle"
        \/ req'[r].pc = "finish" /\ req'[r].key = req[r].key /\ registry'[req[r].key] = "acked"
    BY <2>2, <2>3, <2>5 DEF Persists
  <2> QED
    BY <2>1, <2>2, <2>3, <2>4, <2>6, HolderKeeps
<1>8. ASSUME NEW r \in Requests, Finish(r)  PROVE Good
  <2> DEFINE receipts == [registry EXCEPT ![req[r].key] = req[r].reply]
  <2>1. req[r].pc = "finish" /\ req[r].key \in Keys /\ req[r].reply \in Statuses
    BY <1>8, RequestFields DEF Finish, At, ReceiptsIInv, Statuses
  <2>2. /\ Persists(r, receipts) \/ PersistFails(r, receipts)
        /\ sent' = sent /\ req'[r].pc = "idle"
        /\ \A q \in Requests \ {r} : req'[q] = req[q]
    BY <1>0, <1>8 DEF Finish, Goes, Idle
  <2>3. /\ receipts \in Receipts /\ receipts[req[r].key] # "none"
        /\ \A j \in Keys : j # req[r].key => receipts[j] = registry[j]
    BY <1>0, <2>1 DEF Receipts, Statuses, Outcomes
  <2>4. /\ registry' \in {registry, receipts}
        /\ file' \in {file, [file EXCEPT ![Home[req[r].key]] = receipts]}
    BY <2>1, <2>2, <2>3, WriteTypes DEF ReceiptsIInv
  <2> QED
    BY <2>1, <2>2, <2>3, <2>4, HolderKeeps
<1>9. ASSUME NEW r \in Requests, End(r)  PROVE Good
  <2>1. /\ registry' = registry /\ file' = file /\ sent' = sent /\ req'[r].pc = "idle"
        /\ \A q \in Requests \ {r} : req'[q] = req[q]
    BY <1>0, <1>9 DEF End, Goes, Idle
  <2>2. SentIsReserved'
    BY <2>1 DEF ReceiptsIInv, SentIsReserved
  <2>3. Seen'
    BY <2>1 DEF ReceiptsIInv, Seen, Knows
  <2>4. \A q \in Requests : Owned(q)'
    BY <2>1 DEF ReceiptsIInv, Owned, Reservation, At
  <2> QED
    BY <2>2, <2>3, <2>4
<1> QED
  BY <1>1, <1>2, <1>3, <1>4, <1>5, <1>6, <1>7, <1>8, <1>9 DEF ReceiptsNext

(* What memory and the files of the worktrees have to do with each other.   *)

\* What is known at a time is finite.
Finite ==
  /\ IsFiniteSet(Known(registry))
  /\ \A w \in Worktrees : IsFiniteSet(Known(file[w]))
  /\ \A r \in Requests : req[r].pc = "load" => IsFiniteSet(Known(req[r].loaded))

\* A file is never empty again.
EmptyCopies ==
  \A r \in Requests : req[r].pc = "load" /\ file[Home[req[r].key]] = Empty => req[r].loaded = Empty

\* Over one worktree a request that is past its load has found memory to be what
\* the file says; a copy that knows more than memory was overtaken by evictions,
\* which happen in a full registry only, and does not fit.
Agrees(r, w) ==
  IF req[r].pc = "load"
  THEN \/ registry = Empty /\ req[r].loaded = file[w]
       \/ registry # Empty /\ Known(req[r].loaded) \subseteq Known(registry)
       \/ registry # Empty /\ Cardinality(Known(registry)) >= Capacity
  ELSE registry = file[w]
MemoryKept ==
  \A w \in Worktrees : OnlyWritten(w) /\ w \notin broken =>
    /\ registry \in {Empty, file[w]}
    /\ \A r \in Requests : req[r].pc # "idle" /\ Home[req[r].key] = w => Agrees(r, w)

\* Over one worktree an outcome a client was told is in the file, and in memory
\* or in the copy a request of the worktree has still to merge.
Finds(r, k) ==
  registry[k] = told[k] \/ (req[r].pc = "load" /\ req[r].loaded[k] = told[k])
Kept(k) ==
  told[k] # "none" /\ OnlyWritten(Home[k]) =>
    /\ file[Home[k]][k] = told[k]
    /\ registry[k] \in {"none", told[k]}
    /\ \A r \in Requests : req[r].pc # "idle" /\ Home[req[r].key] = Home[k] => Finds(r, k)

MemoryIInv == Finite /\ EmptyCopies /\ MemoryKept /\ \A k \in Keys : Kept(k)

LEMMA KnownNone ==
  ASSUME NEW receipts \in Receipts
  PROVE  /\ Known(receipts) \subseteq Keys
         /\ \A k \in Keys : k \in Known(receipts) <=> receipts[k] # "none"
         /\ (Known(receipts) = {}) <=> (receipts = Empty)
BY DEF Known, Receipts, Empty

LEMMA MemoryInitial ==
  ASSUME ReceiptConstants, ReceiptsInit
  PROVE  MemoryIInv
<1>1. Known(Empty) = {}
  BY DEF Known, Empty
<1> QED
  BY <1>1, FS_EmptySet
  DEF ReceiptsInit, MemoryIInv, Finite, EmptyCopies, MemoryKept, Kept, Agrees, Finds, Idle, ReceiptConstants

\* What a write adds is the request's key, and what it evicts makes room for it
\* in a full registry.
LEMMA ReservedKnown ==
  ASSUME ReceiptsTypeOK, NEW k \in Keys, registry[k] = "none", IsFiniteSet(Known(registry)),
         Capacity \in Nat, NEW evicted \in Evictable
  PROVE  /\ IsFiniteSet(Known(Reserved(k, evicted)))
         /\ \/ Known(registry) \subseteq Known(Reserved(k, evicted))
            \/ Cardinality(Known(Reserved(k, evicted))) >= Capacity
         /\ Cardinality(Known(registry)) >= Capacity =>
              Cardinality(Known(Reserved(k, evicted))) >= Capacity
<1>1. Reserved(k, evicted) \in Receipts /\ registry \in Receipts
  BY ReservedReceipts DEF ReceiptsTypeOK
<1>2. Cardinality(Known(registry)) \in Nat /\ k \notin Known(registry)
  BY FS_CardinalityType DEF Known
<1>3. CASE Cardinality(Known(registry)) < Capacity
  <2>1. evicted = {}
    BY <1>3 DEF Evictable
  <2>2. Known(Reserved(k, evicted)) = Known(registry) \cup {k}
    BY <2>1 DEF Known, Reserved
  <2>3. IsFiniteSet(Known(registry) \cup {k})
    BY FS_AddElement
  <2> QED
    BY <1>2, <1>3, <2>2, <2>3
<1>4. CASE ~(Cardinality(Known(registry)) < Capacity)
  <2>1. PICK e \in Keys : evicted = {e} /\ registry[e] \in Outcomes
    BY <1>4 DEF Evictable
  <2>2. e \in Known(registry) /\ e # k
    BY <2>1 DEF Known, Outcomes
  <2>3. Known(Reserved(k, evicted)) = (Known(registry) \ {e}) \cup {k}
    BY <2>1, <2>2 DEF Known, Reserved
  <2> DEFINE rest == Known(registry) \ {e}
  <2>4. IsFiniteSet(rest) /\ Cardinality(rest) = Cardinality(Known(registry)) - 1 /\ k \notin rest
    BY <1>2, <2>2, FS_RemoveElement
  <2>5. IsFiniteSet(rest \cup {k}) /\ Cardinality(rest \cup {k}) = Cardinality(rest) + 1
    <3> HIDE DEF rest
    <3> QED
      BY <2>4, FS_AddElement
  <2> QED
    BY <1>2, <1>4, <2>3, <2>4, <2>5
<1> QED
  BY <1>3, <1>4

-----------------------------------------------------------------------------
\* Which worktree only was written, before and after a write.
LEMMA WriteWritten ==
  ASSUME ReceiptConstants, ReceiptsTypeOK, NEW h \in Worktrees,
         NEW receipts \in Receipts, receipts # Empty,
         file' \in {file, [file EXCEPT ![h] = receipts]},
         NEW w \in Worktrees, OnlyWritten(w)'
  PROVE  /\ OnlyWritten(w)
         /\ file' = file \/ (h = w /\ file'[w] = receipts)
<1>1. file \in [Worktrees -> Receipts] /\ OnlyWritten(w)' <=> \A v \in Worktrees \ {w} : file'[v] = Empty
  BY DEF ReceiptsTypeOK, OnlyWritten, Empty
<1> QED
  BY <1>1 DEF OnlyWritten

\* A request that is past its load writes its key's receipt.
LEMMA WriteMemory ==
  ASSUME ReceiptConstants, ReceiptsTypeOK, ReceiptsTypeOK', MemoryIInv,
         NEW r \in Requests, Past(r), registry[req[r].key] \notin Outcomes,
         NEW receipts \in Receipts, receipts[req[r].key] # "none",
         Persists(r, receipts) \/ PersistFails(r, receipts),
         \A q \in Requests \ {r} : req'[q] = req[q],
         req'[r].pc = "idle" \/ (Persists(r, receipts) /\ Past(r)' /\ req'[r].key = req[r].key),
         \A j \in Keys \ {req[r].key} :
           /\ receipts[j] \in {"none", registry[j]}
           /\ told'[j] \in {"none", told[j]}
           /\ registry' # registry \/ file' # file =>
                (registry[j] # "none" /\ receipts[j] = "none" => told'[j] = "none"),
         \/ told'[req[r].key] \in {"none", told[req[r].key]}
         \/ Persists(r, receipts) /\ told'[req[r].key] = receipts[req[r].key],
         IsFiniteSet(Known(receipts)),
         \/ Known(registry) \subseteq Known(receipts)
         \/ Cardinality(Known(receipts)) >= Capacity,
         Cardinality(Known(registry)) >= Capacity => Cardinality(Known(receipts)) >= Capacity
  PROVE  MemoryIInv'
<1> DEFINE k == req[r].key
           h == Home[req[r].key]
<1>1. /\ k \in Keys /\ h \in Worktrees /\ Home \in [Keys -> Worktrees] /\ req[r].pc # "idle" /\ req[r].pc # "load"
      /\ registry \in Receipts /\ file \in [Worktrees -> Receipts] /\ told \in [Keys -> Outcomes \cup {"none"}]
      /\ req'[r].pc # "load" /\ receipts # Empty
      /\ req' \in [Requests -> RequestStates]
  BY RequestFields DEF ReceiptsTypeOK, Past, Claims, ReceiptConstants, Empty
<1>2. /\ registry' \in {registry, receipts} /\ file' \in {file, [file EXCEPT ![h] = receipts]}
      /\ registry' = receipts => file'[h] = receipts \/ registry = receipts
  BY <1>1, WriteTypes DEF Persists, PersistFails
<1>3. ASSUME NEW w \in Worktrees, OnlyWritten(w)'
      PROVE  OnlyWritten(w) /\ (file' = file \/ (h = w /\ file'[w] = receipts))
  BY <1>1, <1>2, <1>3, WriteWritten
<1>4. Finite'
  <2>1. ASSUME NEW w \in Worktrees  PROVE IsFiniteSet(Known(file'[w]))
    <3>1. file'[w] \in {file[w], receipts}
      BY <1>1, <1>2
    <3> QED
      BY <3>1 DEF MemoryIInv, Finite
  <2>2. IsFiniteSet(Known(registry'))
    BY <1>2 DEF MemoryIInv, Finite
  <2>3. ASSUME NEW q \in Requests, req'[q].pc = "load"  PROVE IsFiniteSet(Known(req'[q].loaded))
    BY <1>1, <2>3 DEF MemoryIInv, Finite
  <2> QED
    BY <2>1, <2>2, <2>3 DEF Finite, Known
<1>5. EmptyCopies'
  <2> SUFFICES ASSUME NEW q \in Requests, req'[q].pc = "load", file'[Home[req'[q].key]] = Empty
               PROVE  req'[q].loaded = Empty
    BY DEF EmptyCopies, Empty
  <2>1. q # r /\ req'[q] = req[q] /\ req[q].key \in Keys
    BY <1>1, RequestFields
  <2>2. file[Home[req[q].key]] = Empty
    BY <1>1, <1>2, <2>1
  <2> QED
    BY <2>1, <2>2 DEF MemoryIInv, EmptyCopies
<1>6. MemoryKept'
  <2> SUFFICES ASSUME NEW w \in Worktrees, OnlyWritten(w)', w \notin broken'
               PROVE  /\ registry' \in {Empty, file'[w]}
                      /\ \A q \in Requests : req'[q].pc # "idle" /\ Home[req'[q].key] = w => Agrees(q, w)'
    BY DEF MemoryKept, Empty
  <2>1. OnlyWritten(w) /\ w \notin broken
    BY <1>3 DEF Persists, PersistFails
  <2>2. registry \in {Empty, file[w]}
    BY <2>1 DEF MemoryIInv, MemoryKept
  <2>3. CASE Persists(r, receipts)
    <3>1. registry' = receipts /\ file' = [file EXCEPT ![h] = receipts]
      BY <2>3 DEF Persists
    <3>2. file'[h] = receipts /\ \A v \in Worktrees \ {h} : file'[v] = file[v]
      BY <1>1, <3>1
    <3>3. CASE h # w
      BY <1>1, <3>2, <3>3 DEF OnlyWritten, Empty
    <3>4. CASE h = w
      <4>1. registry = file[w]
        BY <1>1, <2>1, <3>4 DEF MemoryIInv, MemoryKept, Agrees
      <4>2. ASSUME NEW q \in Requests, q # r, req'[q].pc = "load", Home[req'[q].key] = w
            PROVE  \/ Known(req'[q].loaded) \subseteq Known(receipts)
                   \/ Cardinality(Known(receipts)) >= Capacity
        <5>1. req'[q] = req[q] /\ Agrees(q, w) /\ req[q].loaded \in Receipts
          BY <2>1, <4>2, RequestFields DEF MemoryIInv, MemoryKept
        <5>2. Known(req[q].loaded) \subseteq Known(registry) \/ Cardinality(Known(registry)) >= Capacity
          BY <4>1, <4>2, <5>1 DEF Agrees
        <5> QED
          BY <5>1, <5>2
      <4>3. ASSUME NEW q \in Requests, req'[q].pc # "idle", Home[req'[q].key] = w  PROVE Agrees(q, w)'
        <5>1. CASE req'[q].pc = "load"
          <6>1. q # r
            BY <1>1, <5>1
          <6>2. registry' # Empty /\ (\/ Known(req'[q].loaded) \subseteq Known(registry')
                                      \/ Cardinality(Known(registry')) >= Capacity)
            BY <1>1, <3>1, <4>2, <4>3, <5>1, <6>1
          <6> QED
            BY <5>1, <6>2 DEF Agrees, Known, Empty
        <5>2. CASE req'[q].pc # "load"
          BY <3>1, <3>2, <3>4, <5>2 DEF Agrees
        <5> QED
          BY <5>1, <5>2
      <4> QED
        BY <3>1, <3>2, <3>4, <4>3
    <3> QED
      BY <3>3, <3>4
  <2>4. CASE PersistFails(r, receipts) /\ ~Persists(r, receipts)
    <3>1. registry' = registry /\ file' = file
      BY <1>1, <1>3, <2>4 DEF PersistFails
    <3>2. ASSUME NEW q \in Requests, req'[q].pc # "idle", Home[req'[q].key] = w  PROVE Agrees(q, w)'
      <4>1. q # r /\ req'[q] = req[q]
        BY <2>4, <3>2
      <4>2. Agrees(q, w)
        BY <2>1, <3>2, <4>1 DEF MemoryIInv, MemoryKept
      <4> QED
        BY <3>1, <4>1, <4>2 DEF Agrees, Known, Empty
    <3> QED
      BY <2>2, <3>1, <3>2
  <2> QED
    BY <2>3, <2>4
<1>7. ASSUME NEW j \in Keys  PROVE Kept(j)'
  <2> SUFFICES ASSUME told'[j] # "none", OnlyWritten(Home[j])'
               PROVE  /\ file'[Home[j]][j] = told'[j]
                      /\ registry'[j] \in {"none", told'[j]}
                      /\ \A q \in Requests : req'[q].pc # "idle" /\ Home[req'[q].key] = Home[j] => Finds(q, j)'
    BY DEF Kept
  <2>1. Home[j] \in Worktrees /\ OnlyWritten(Home[j])
    BY <1>1, <1>3
  <2>2. CASE j = k /\ Persists(r, receipts) /\ told'[k] = receipts[k]
    <3>1. registry' = receipts /\ file'[h] = receipts
      BY <1>1, <2>2 DEF Persists
    <3> QED
      BY <2>2, <3>1 DEF Finds
  <2>3. CASE j = k /\ told'[k] \in {"none", told[k]}
    <3>1. told[k] # "none" /\ told[k] \in Outcomes /\ Kept(k)
      BY <1>1, <2>3 DEF MemoryIInv
    <3>2. Finds(r, k)
      BY <1>1, <2>1, <2>3, <3>1 DEF Kept
    <3> QED
      BY <1>1, <3>1, <3>2 DEF Finds
  <2>4. CASE j # k
    <3>1. /\ told'[j] = told[j] /\ told[j] # "none"
          /\ file[Home[j]][j] = told[j]
          /\ registry[j] \in {"none", told[j]}
          /\ receipts[j] \in {"none", registry[j]}
          /\ \A q \in Requests : req[q].pc # "idle" /\ Home[req[q].key] = Home[j] => Finds(q, j)
      BY <2>1, <2>4 DEF MemoryIInv, Kept
    <3>2. registry' # registry \/ file' # file => receipts[j] = registry[j]
      BY <2>4, <3>1
    <3>3. registry'[j] = registry[j]
      BY <1>2, <3>2
    <3>4. file'[Home[j]][j] = told[j]
      <4>1. CASE file' = file
        BY <3>1, <4>1
      <4>2. CASE file' # file
        <5>1. h = Home[j] /\ file'[Home[j]] = receipts
          BY <1>3, <2>1, <4>2
        <5>2. registry[j] = told[j]
          BY <1>1, <3>1, <5>1 DEF Finds
        <5> QED
          BY <3>2, <4>2, <5>1, <5>2
      <4> QED
        BY <4>1, <4>2
    <3>5. ASSUME NEW q \in Requests, req'[q].pc # "idle", Home[req'[q].key] = Home[j]  PROVE Finds(q, j)'
      <4>1. CASE q # r
        BY <3>1, <3>3, <3>5, <4>1 DEF Finds
      <4>2. CASE q = r
        BY <1>1, <3>1, <3>3, <3>5, <4>2 DEF Finds
      <4> QED
        BY <4>1, <4>2
    <3> QED
      BY <3>1, <3>3, <3>4, <3>5
  <2> QED
    BY <2>2, <2>3, <2>4
<1> QED
  BY <1>4, <1>5, <1>6, <1>7 DEF MemoryIInv

\* A step that changes neither memory nor files, and in which each request keeps
\* its place or key, or ends.
LEMMA MemoryRests ==
  ASSUME ReceiptConstants, ReceiptsTypeOK, MemoryIInv,
         registry' = registry, file' = file, broken' = broken, told' = told,
         \A q \in Requests :
           \/ req'[q] = req[q]
           \/ req'[q].pc = "idle"
           \/ req[q].pc \notin {"idle", "load"} /\ req'[q].pc # "load" /\ req'[q].key = req[q].key
  PROVE  MemoryIInv'
<1>1. /\ \A w \in Worktrees : OnlyWritten(w)' <=> OnlyWritten(w)
      /\ \A k \in Keys : Home[k] \in Worktrees
  BY DEF OnlyWritten, Empty, ReceiptConstants
<1>2. ASSUME NEW q \in Requests, NEW w \in Worktrees, req'[q].pc # "idle", Home[req'[q].key] = w,
             req[q].pc # "idle" /\ Home[req[q].key] = w => Agrees(q, w)
      PROVE  Agrees(q, w)'
  BY <1>2 DEF Agrees, Known, Empty
<1>3. ASSUME NEW q \in Requests, NEW k \in Keys, req'[q].pc # "idle", Home[req'[q].key] = Home[k],
             req[q].pc # "idle" /\ Home[req[q].key] = Home[k] => Finds(q, k)
      PROVE  Finds(q, k)'
  BY <1>3 DEF Finds
<1>4. Finite'
  BY DEF MemoryIInv, Finite, Known
<1>5. EmptyCopies'
  BY DEF MemoryIInv, EmptyCopies, Empty
<1>6. MemoryKept'
  BY <1>1, <1>2 DEF MemoryIInv, MemoryKept, Empty
<1>7. \A k \in Keys : Kept(k)'
  BY <1>1, <1>3 DEF MemoryIInv, Kept
<1> QED
  BY <1>4, <1>5, <1>6, <1>7 DEF MemoryIInv

LEMMA RestartMemory ==
  ASSUME ReceiptConstants, ReceiptsTypeOK, MemoryIInv, Restart
  PROVE  MemoryIInv'
<1>1. /\ file' = file /\ told' = told /\ broken' = {}
      /\ \A r \in Requests : req'[r].pc = "idle"
      /\ registry' = Empty \/ \E w \in Worktrees : registry' = file[w]
  BY DEF Restart, Idle
<1>2. /\ \A w \in Worktrees : OnlyWritten(w)' <=> OnlyWritten(w)
      /\ \A k \in Keys : Home[k] \in Worktrees
  BY <1>1 DEF OnlyWritten, Empty, ReceiptConstants
<1>3. Known(Empty) = {} /\ IsFiniteSet({})
  BY FS_EmptySet DEF Known, Empty
<1>4. Finite'
  BY <1>1, <1>3 DEF MemoryIInv, Finite, Known
<1>5. EmptyCopies'
  BY <1>1 DEF EmptyCopies
<1>6. ASSUME NEW w \in Worktrees, OnlyWritten(w)  PROVE registry' \in {Empty, file[w]}
  BY <1>1, <1>6 DEF OnlyWritten
<1>7. MemoryKept'
  BY <1>1, <1>2, <1>6 DEF MemoryKept, Empty
<1>8. ASSUME NEW k \in Keys  PROVE Kept(k)'
  <2> SUFFICES ASSUME told[k] # "none", OnlyWritten(Home[k])
               PROVE  file[Home[k]][k] = told[k] /\ registry'[k] \in {"none", told[k]}
    BY <1>1, <1>2 DEF Kept
  <2>1. file[Home[k]][k] = told[k]
    BY DEF MemoryIInv, Kept
  <2> QED
    BY <1>2, <1>6, <2>1 DEF Empty
<1> QED
  BY <1>4, <1>5, <1>7, <1>8 DEF MemoryIInv

LEMMA OpenMemory ==
  ASSUME ReceiptConstants, ReceiptsTypeOK, MemoryIInv, NEW r \in Requests, NEW k \in Keys, Open(r, k)
  PROVE  MemoryIInv'
<1>1. /\ file' = file /\ told' = told /\ broken' = broken /\ registry' = registry
      /\ \A q \in Requests \ {r} : req'[q] = req[q]
      /\ req'[r] = [pc |-> "load", key |-> k, loaded |-> file[Home[k]]]
      /\ Home[k] \in Worktrees /\ file[Home[k]] \in Receipts
  BY DEF Open, Goes, ReceiptsTypeOK, ReceiptConstants
<1>2. /\ \A w \in Worktrees : OnlyWritten(w)' <=> OnlyWritten(w)
      /\ \A j \in Keys : Home[j] \in Worktrees
  BY <1>1 DEF OnlyWritten, Empty, ReceiptConstants
<1>3. Finite'
  BY <1>1 DEF MemoryIInv, Finite, Known
<1>4. EmptyCopies'
  BY <1>1 DEF MemoryIInv, EmptyCopies, Empty
<1>5. ASSUME NEW w \in Worktrees, OnlyWritten(w), w \notin broken, Home[k] = w  PROVE Agrees(r, w)'
  <2>1. registry \in {Empty, file[w]}
    BY <1>5 DEF MemoryIInv, MemoryKept
  <2> QED
    BY <1>1, <1>5, <2>1 DEF Agrees, Known, Empty
<1>6. ASSUME NEW w \in Worktrees, OnlyWritten(w), w \notin broken, NEW q \in Requests, q # r,
             req'[q].pc # "idle", Home[req'[q].key] = w
      PROVE  Agrees(q, w)'
  <2>1. req'[q] = req[q] /\ Agrees(q, w)
    BY <1>1, <1>6 DEF MemoryIInv, MemoryKept
  <2> QED
    BY <1>1, <2>1 DEF Agrees, Known, Empty
<1>7. MemoryKept'
  <2> SUFFICES ASSUME NEW w \in Worktrees, OnlyWritten(w), w \notin broken
               PROVE  /\ registry \in {Empty, file[w]}
                      /\ \A q \in Requests : req'[q].pc # "idle" /\ Home[req'[q].key] = w => Agrees(q, w)'
    BY <1>1, <1>2 DEF MemoryKept, Empty
  <2> QED
    BY <1>1, <1>5, <1>6 DEF MemoryIInv, MemoryKept
<1>8. \A j \in Keys : Kept(j)'
  BY <1>1, <1>2 DEF MemoryIInv, Kept, Finds
<1> QED
  BY <1>3, <1>4, <1>7, <1>8 DEF MemoryIInv

\* A copy that is merged is the file, or one memory has overtaken and agrees with.
LEMMA MergedCopy ==
  ASSUME ReceiptConstants, ReceiptsTypeOK, MemoryIInv, NEW r \in Requests, req[r].pc = "load",
         Mergeable(req[r].loaded), NEW w \in Worktrees, OnlyWritten(w), w \notin broken
  PROVE  IF Home[req[r].key] = w THEN Merged(req[r].loaded) = file[w] ELSE Merged(req[r].loaded) = registry
<1> DEFINE copy == req[r].loaded
<1>1. /\ copy \in Receipts /\ registry \in Receipts /\ req[r].key \in Keys /\ Home[req[r].key] \in Worktrees
      /\ file[w] \in Receipts /\ Capacity \in Nat
      /\ Merged(copy) = [k \in Keys |-> IF registry[k] # "none" THEN registry[k] ELSE copy[k]]
  BY RequestFields DEF ReceiptsTypeOK, ReceiptConstants, Merged
<1>2. CASE Home[req[r].key] # w
  <2>1. copy = Empty
    BY <1>1, <1>2 DEF MemoryIInv, EmptyCopies, OnlyWritten
  <2> QED
    BY <1>1, <1>2, <2>1 DEF Receipts, Empty
<1>3. CASE Home[req[r].key] = w
  <2>1. Agrees(r, w) /\ registry \in {Empty, file[w]}
    BY <1>3 DEF MemoryIInv, MemoryKept
  <2>2. CASE registry = Empty
    BY <1>1, <1>3, <2>1, <2>2 DEF Agrees, Receipts, Empty
  <2>3. CASE registry # Empty
    <3>1. Known(copy) \subseteq Known(registry)
      <4>1. CASE Cardinality(Known(registry)) >= Capacity
        <5>1. IsFiniteSet(Known(registry)) /\ IsFiniteSet(Known(copy))
          BY DEF MemoryIInv, Finite
        <5>2. IsFiniteSet(Known(registry) \cup Known(copy))
          BY <5>1, FS_Union
        <5>3. /\ Cardinality(Known(registry)) <= Cardinality(Known(registry) \cup Known(copy))
              /\ Cardinality(Known(registry)) = Cardinality(Known(registry) \cup Known(copy))
                   => Known(registry) = Known(registry) \cup Known(copy)
          BY <5>2, FS_Subset
        <5>4. Cardinality(Known(registry)) \in Nat /\ Cardinality(Known(registry) \cup Known(copy)) \in Nat
          BY <5>1, <5>2, FS_CardinalityType
        <5>5. Cardinality(Known(registry) \cup Known(copy)) <= Capacity
          BY DEF Mergeable
        <5>6. Cardinality(Known(registry)) = Cardinality(Known(registry) \cup Known(copy))
          BY <1>1, <4>1, <5>3, <5>4, <5>5
        <5> QED
          BY <5>3, <5>6
      <4>2. CASE ~(Cardinality(Known(registry)) >= Capacity)
        BY <2>1, <2>3, <4>2 DEF Agrees
      <4> QED
        BY <4>1, <4>2
    <3>2. \A k \in Keys : registry[k] = "none" => copy[k] = "none"
      BY <1>1, <3>1 DEF Known
    <3>3. Merged(copy) = registry
      BY <1>1, <3>2 DEF Receipts
    <3> QED
      BY <1>3, <2>1, <2>3, <3>3
  <2> QED
    BY <2>2, <2>3
<1> QED
  BY <1>2, <1>3

LEMMA LoadMemory ==
  ASSUME ReceiptConstants, ReceiptsTypeOK, ReceiptsTypeOK', MemoryIInv, NEW r \in Requests, Load(r)
  PROVE  MemoryIInv'
<1> DEFINE copy == req[r].loaded
<1>1. /\ req[r].pc = "load" /\ file' = file /\ told' = told /\ broken' = broken
      /\ \A q \in Requests \ {r} : req'[q] = req[q]
      /\ copy \in Receipts /\ registry \in Receipts /\ file \in [Worktrees -> Receipts]
  BY RequestFields DEF Load, At, Goes, ReceiptsTypeOK
<1>2. CASE ~Mergeable(copy)
  <2>1. registry' = registry /\ req'[r].pc = "idle"
    BY <1>2 DEF Load, Goes, Idle, ReceiptsTypeOK
  <2> QED
    BY <1>1, <2>1, MemoryRests
<1>3. CASE Mergeable(copy)
  <2>1. registry' = Merged(copy) /\ req'[r] = [pc |-> "check", key |-> req[r].key]
    BY <1>3 DEF Load, Goes, Step, ReceiptsTypeOK
  <2>2. /\ \A w \in Worktrees : OnlyWritten(w)' <=> OnlyWritten(w)
        /\ \A j \in Keys : Home[j] \in Worktrees
        /\ req[r].key \in Keys
    BY <1>1, RequestFields DEF OnlyWritten, Empty, ReceiptConstants
  <2>3. Finite'
    <3>1. Known(Merged(copy)) \subseteq Known(registry) \cup Known(copy)
      BY DEF Known, Merged
    <3>2. IsFiniteSet(Known(registry) \cup Known(copy))
      BY <1>1, FS_Union DEF MemoryIInv, Finite
    <3>3. IsFiniteSet(Known(registry'))
      BY <2>1, <3>1, <3>2, FS_Subset
    <3> QED
      BY <1>1, <2>1, <3>3 DEF MemoryIInv, Finite, Known
  <2>4. EmptyCopies'
    BY <1>1, <2>1 DEF MemoryIInv, EmptyCopies, Empty
  <2>5. MemoryKept'
    <3> SUFFICES ASSUME NEW w \in Worktrees, OnlyWritten(w), w \notin broken
                 PROVE  /\ registry' \in {Empty, file[w]}
                        /\ \A q \in Requests : req'[q].pc # "idle" /\ Home[req'[q].key] = w => Agrees(q, w)'
      BY <1>1, <2>2 DEF MemoryKept, Empty
    <3>1. IF Home[req[r].key] = w THEN registry' = file[w] ELSE registry' = registry
      BY <1>1, <1>3, <2>1, MergedCopy
    <3>2. registry \in {Empty, file[w]}
      BY DEF MemoryIInv, MemoryKept
    <3>3. ASSUME NEW q \in Requests, req'[q].pc # "idle", Home[req'[q].key] = w  PROVE Agrees(q, w)'
      <4>1. CASE q = r
        BY <1>1, <2>1, <3>1, <3>3, <4>1 DEF Agrees
      <4>2. CASE q # r
        <5>1. req'[q] = req[q] /\ Agrees(q, w)
          BY <1>1, <3>3, <4>2 DEF MemoryIInv, MemoryKept
        <5>2. CASE registry' = registry
          BY <1>1, <5>1, <5>2 DEF Agrees, Known, Empty
        <5>3. CASE registry' # registry
          <6>1. registry = Empty /\ registry' = file[w] /\ registry' # Empty
            BY <3>1, <3>2, <5>3
          <6> QED
            BY <1>1, <5>1, <6>1 DEF Agrees, Known, Empty
        <5> QED
          BY <5>2, <5>3
      <4> QED
        BY <4>1, <4>2
    <3> QED
      BY <3>1, <3>2, <3>3
  <2>6. ASSUME NEW k \in Keys  PROVE Kept(k)'
    <3> SUFFICES ASSUME told[k] # "none", OnlyWritten(Home[k])
                 PROVE  /\ file[Home[k]][k] = told[k]
                        /\ registry'[k] \in {"none", told[k]}
                        /\ \A q \in Requests : req'[q].pc # "idle" /\ Home[req'[q].key] = Home[k] => Finds(q, k)'
      BY <1>1, <2>2 DEF Kept
    <3>1. /\ file[Home[k]][k] = told[k]
          /\ registry[k] \in {"none", told[k]}
          /\ \A q \in Requests : req[q].pc # "idle" /\ Home[req[q].key] = Home[k] => Finds(q, k)
      BY DEF MemoryIInv, Kept
    <3>2. registry'[k] = IF registry[k] # "none" THEN registry[k] ELSE copy[k]
      BY <2>1 DEF Merged
    <3>3. CASE Home[req[r].key] = Home[k]
      <4>1. registry'[k] = told[k]
        BY <1>1, <3>1, <3>2, <3>3 DEF Finds
      <4> QED
        BY <1>1, <3>1, <4>1 DEF Finds
    <3>4. CASE Home[req[r].key] # Home[k]
      <4>1. copy = Empty
        BY <1>1, <2>2, <3>4 DEF MemoryIInv, EmptyCopies, OnlyWritten
      <4>2. registry'[k] = registry[k]
        BY <3>2, <4>1 DEF Empty
      <4> QED
        BY <1>1, <2>1, <3>1, <3>4, <4>2 DEF Finds
    <3> QED
      BY <3>3, <3>4
  <2> QED
    BY <2>3, <2>4, <2>5, <2>6 DEF MemoryIInv
<1> QED
  BY <1>2, <1>3

\* What is known in memory does not change with a receipt's status.
LEMMA UpdatedReceipts ==
  ASSUME ReceiptsTypeOK, NEW k \in Keys, registry[k] # "none", NEW outcome \in Statuses, MemoryIInv
  PROVE  LET receipts == [registry EXCEPT ![k] = outcome]
         IN /\ receipts \in Receipts /\ receipts[k] = outcome /\ outcome # "none"
            /\ \A j \in Keys \ {k} : receipts[j] = registry[j]
            /\ Known(receipts) = Known(registry) /\ IsFiniteSet(Known(receipts))
<1>1. registry \in Receipts /\ outcome # "none" /\ IsFiniteSet(Known(registry))
  BY DEF ReceiptsTypeOK, Statuses, Outcomes, MemoryIInv, Finite
<1>2. Known([registry EXCEPT ![k] = outcome]) = Known(registry)
  BY <1>1 DEF Known, Receipts
<1> QED
  BY <1>1, <1>2 DEF Receipts

LEMMA MemoryStep ==
  ASSUME ReceiptConstants, ReceiptsTypeOK, ReceiptsTypeOK', MemoryIInv, ReceiptsNext
  PROVE  MemoryIInv'
<1>0. req \in [Requests -> RequestStates]
  BY DEF ReceiptsTypeOK
<1>1. CASE Restart
  BY <1>1, RestartMemory
<1>2. ASSUME NEW r \in Requests, NEW k \in Keys, Open(r, k)  PROVE MemoryIInv'
  BY <1>2, OpenMemory
<1>3. ASSUME NEW r \in Requests, Load(r)  PROVE MemoryIInv'
  BY <1>3, LoadMemory
<1>4. ASSUME NEW r \in Requests, Check(r) \/ Send(r) \/ End(r)  PROVE MemoryIInv'
  <2>1. \A q \in Requests \ {r} : req'[q] = req[q]
    BY <1>0, <1>4 DEF Check, Send, End, Goes
  <2>2. \/ req'[r].pc = "idle"
        \/ req[r].pc \notin {"idle", "load"} /\ req'[r].pc # "load" /\ req'[r].key = req[r].key
    BY <1>0, <1>4 DEF Check, Send, End, Goes, At, Step, Idle
  <2>3. registry' = registry /\ file' = file /\ broken' = broken /\ told' = told
    BY <1>4 DEF Check, Send, End
  <2> QED
    BY <2>1, <2>2, <2>3, MemoryRests
<1>5. ASSUME NEW r \in Requests, Reserve(r)  PROVE MemoryIInv'
  <2> DEFINE k == req[r].key
  <2>1. req[r].pc = "reserve" /\ k \in Keys /\ registry[k] = "none" /\ Past(r)
    BY <1>5, RequestFields DEF Reserve, At, Past
  <2>2. PICK evicted \in Evictable :
          /\ \/ Persists(r, Reserved(k, evicted)) /\ Goes(r, Step("send", k))
             \/ PersistFails(r, Reserved(k, evicted)) /\ Goes(r, Idle)
          /\ Forgets(evicted)
    BY <1>5 DEF Reserve
  <2> DEFINE receipts == Reserved(k, evicted)
  <2>3. /\ evicted \subseteq Keys /\ receipts \in Receipts /\ receipts[k] = "accepted"
        /\ \A j \in Keys : j \in evicted => registry[j] \in Outcomes
        /\ \A j \in Keys : j # k /\ j \notin evicted => receipts[j] = registry[j]
        /\ \A j \in Keys : j # k /\ j \in evicted => receipts[j] = "none"
    BY <2>1, ReservedReceipts DEF Reserved
  <2>4. /\ IsFiniteSet(Known(receipts))
        /\ Known(registry) \subseteq Known(receipts) \/ Cardinality(Known(receipts)) >= Capacity
        /\ Cardinality(Known(registry)) >= Capacity => Cardinality(Known(receipts)) >= Capacity
    BY <2>1, ReservedKnown DEF MemoryIInv, Finite, ReceiptConstants
  <2>5. /\ \A q \in Requests \ {r} : req'[q] = req[q]
        /\ req'[r].pc = "idle" \/ (Persists(r, receipts) /\ Past(r)' /\ req'[r].key = k)
    BY <1>0, <2>2 DEF Goes, Step, Idle, Past, Claims
  <2>6. Persists(r, receipts) \/ PersistFails(r, receipts)
    BY <2>2
  <2>7. \A j \in Keys :
          /\ told'[j] \in {"none", told[j]}
          /\ (registry' # registry \/ file' # file) /\ j \in evicted => told'[j] = "none"
    BY <2>2 DEF Forgets
  <2>8. \A j \in Keys \ {k} :
           /\ receipts[j] \in {"none", registry[j]}
           /\ told'[j] \in {"none", told[j]}
           /\ registry' # registry \/ file' # file =>
                (registry[j] # "none" /\ receipts[j] = "none" => told'[j] = "none")
    BY <2>3, <2>7
  <2>9. registry[k] \notin Outcomes /\ receipts[k] # "none" /\ told'[k] \in {"none", told[k]}
    BY <2>1, <2>3, <2>7 DEF Outcomes
  <2> QED
    BY <2>1, <2>3, <2>4, <2>5, <2>6, <2>8, <2>9, WriteMemory
<1>6. ASSUME NEW r \in Requests, Ack(r)  PROVE MemoryIInv'
  <2> DEFINE k == req[r].key
             receipts == [registry EXCEPT ![k] = "acked"]
  <2>1. /\ req[r].pc = "reply" /\ k \in Keys /\ registry[k] \in {"accepted", "acked"} /\ Past(r)
        /\ req[r] = [pc |-> "reply", key |-> k, reply |-> req[r].reply]
    BY <1>6, RequestFields DEF Ack, At, CanTransition, Past, Claims
  <2>2. /\ receipts \in Receipts /\ receipts[k] # "none"
        /\ \A j \in Keys \ {k} : receipts[j] = registry[j]
        /\ Known(receipts) = Known(registry) /\ IsFiniteSet(Known(receipts))
    BY <2>1, UpdatedReceipts DEF Statuses
  <2>3. [req[r] EXCEPT !.pc = "finish"] = [pc |-> "finish", key |-> k, reply |-> req[r].reply]
    BY <2>1
  <2>4. /\ Persists(r, receipts) \/ PersistFails(r, receipts)
        /\ told' = told /\ \A q \in Requests \ {r} : req'[q] = req[q]
        /\ req'[r].pc = "idle" \/ (Persists(r, receipts) /\ Past(r)' /\ req'[r].key = k)
    BY <1>0, <1>6, <2>3 DEF Ack, Goes, Idle, Past, Claims
  <2>5. registry[k] \notin Outcomes
    BY <2>1 DEF Outcomes
  <2>6. Known(registry) \subseteq Known(receipts)
        /\ (Cardinality(Known(registry)) >= Capacity => Cardinality(Known(receipts)) >= Capacity)
    BY <2>2
  <2>7. \A j \in Keys \ {k} :
           /\ receipts[j] \in {"none", registry[j]}
           /\ told'[j] \in {"none", told[j]}
           /\ registry' # registry \/ file' # file =>
                (registry[j] # "none" /\ receipts[j] = "none" => told'[j] = "none")
    BY <2>2, <2>4
  <2>8. told'[k] \in {"none", told[k]}
    BY <2>4
  <2> HIDE DEF receipts
  <2> QED
    BY <2>1, <2>2, <2>4, <2>5, <2>6, <2>7, <2>8, WriteMemory
<1>7. ASSUME NEW r \in Requests, Finish(r)  PROVE MemoryIInv'
  <2> DEFINE k == req[r].key
             receipts == [registry EXCEPT ![k] = req[r].reply]
  <2>1. /\ req[r].pc = "finish" /\ k \in Keys /\ registry[k] \in {"accepted", "acked"} /\ Past(r)
        /\ req[r].reply \in Statuses /\ told \in [Keys -> Outcomes \cup {"none"}]
    BY <1>7, RequestFields DEF Finish, At, CanTransition, Past, Claims, Statuses, ReceiptsTypeOK
  <2>2. /\ receipts \in Receipts /\ receipts[k] = req[r].reply /\ receipts[k] # "none"
        /\ \A j \in Keys \ {k} : receipts[j] = registry[j]
        /\ Known(receipts) = Known(registry) /\ IsFiniteSet(Known(receipts))
    BY <2>1, UpdatedReceipts DEF Statuses
  <2>3. /\ Persists(r, receipts) \/ PersistFails(r, receipts)
        /\ \A q \in Requests \ {r} : req'[q] = req[q]
        /\ req'[r].pc = "idle"
    BY <1>0, <1>7 DEF Finish, Goes, Idle
  <2>4. /\ \A j \in Keys \ {k} : told'[j] = told[j]
        /\ told'[k] = told[k] \/ (Persists(r, receipts) /\ told'[k] = receipts[k])
    BY <1>7, <2>1, <2>2 DEF Finish
  <2>5. registry[k] \notin Outcomes
    BY <2>1 DEF Outcomes
  <2>6. Known(registry) \subseteq Known(receipts)
        /\ (Cardinality(Known(registry)) >= Capacity => Cardinality(Known(receipts)) >= Capacity)
    BY <2>2
  <2>7. \A j \in Keys \ {k} :
           /\ receipts[j] \in {"none", registry[j]}
           /\ told'[j] \in {"none", told[j]}
           /\ registry' # registry \/ file' # file =>
                (registry[j] # "none" /\ receipts[j] = "none" => told'[j] = "none")
    BY <2>2, <2>4
  <2> HIDE DEF receipts
  <2> QED
    BY <2>1, <2>2, <2>3, <2>4, <2>5, <2>6, <2>7, WriteMemory
<1> QED
  BY <1>1, <1>2, <1>3, <1>4, <1>5, <1>6, <1>7 DEF ReceiptsNext

-----------------------------------------------------------------------------
\* The parts together, over a step or a stutter.
LEMMA ReceiptsStep ==
  ASSUME ReceiptConstants, ReceiptsIInv, MemoryIInv, [ReceiptsNext]_receiptVars
  PROVE  ReceiptsIInv' /\ MemoryIInv'
<1>1. CASE ReceiptsNext
  BY <1>1, TypeNext, StepKeeps, MemoryStep DEF ReceiptsIInv
<1>2. CASE UNCHANGED receiptVars
  <2>1. ReceiptsIInv'
    BY <1>2 DEF receiptVars, ReceiptsIInv, ReceiptsTypeOK, SentIsReserved, Seen, Knows, Owned, Reservation, At
  <2>2. MemoryIInv'
    BY <1>2, MemoryRests DEF receiptVars, ReceiptsIInv
  <2> QED
    BY <2>1, <2>2
<1> QED
  BY <1>1, <1>2

\* The invariant says what clients rely on.
LEMMA ReceiptsImply ==
  ASSUME ReceiptConstants, ReceiptsIInv, MemoryIInv
  PROVE  CommandsInv
<1>1. ReceiptsInv
  BY DEF ReceiptsIInv, Owned, ReceiptsInv
<1>2. MemoryIsFile
  BY DEF MemoryIInv, MemoryKept, MemoryIsFile
<1>3. OnlyForward
  BY DEF MemoryIInv, Kept, OnlyForward
<1> QED
  BY <1>1, <1>2, <1>3 DEF CommandsInv

(* A command that went out is on disk and does not go out again while its  *)
(* receipt is kept, and what a request holds is its own until it ends      *)
(* (mutate; "the reservation is durable before any peer exchange begins"). *)
(* Over one worktree memory is what the file says until a write fails that *)
(* replaced it (merge_loaded_receipts, persist), and an outcome a client   *)
(* was told is what later requests find.                                   *)
THEOREM CommandsSound == ReceiptConstants => (ReceiptsSpec => []CommandsInv)
<1> SUFFICES ASSUME ReceiptConstants  PROVE ReceiptsSpec => []CommandsInv
  OBVIOUS
<1>1. ReceiptsInit => ReceiptsIInv /\ MemoryIInv
  BY ReceiptsInitial, MemoryInitial
<1>2. (ReceiptsIInv /\ MemoryIInv) /\ [ReceiptsNext]_receiptVars => (ReceiptsIInv /\ MemoryIInv)'
  BY ReceiptsStep
<1>3. ReceiptsIInv /\ MemoryIInv => CommandsInv
  BY ReceiptsImply
<1> QED
  BY <1>1, <1>2, <1>3, PTL DEF ReceiptsSpec

-----------------------------------------------------------------------------
\* A worker that was told to stop has been spawned and is not the registry's;
\* one that has come to its end without a failure was told so.
CancelSound ==
  /\ entry \notin cancelled
  /\ entry # Nobody => worker[entry].at # "none"
  /\ \A w \in Workers : w \in cancelled => worker[w].at # "none"
  /\ \A w \in Workers : worker[w].at = "ended" => w \in cancelled

\* A worker that is to connect has an attempt left.
Retries == \A w \in Workers : worker[w].at \in {"spawned", "start", "wait"} => worker[w].attempts < MaxAttempts

NoOverlap ==
  ~overlap =>
    /\ \A v, w \in Workers : Live(v) /\ Live(w) => v = w
    /\ \A w \in Workers : Live(w) /\ entry # Nobody => w = entry
    /\ \A s \in Stops : stops[s] # Nobody =>
         entry = Nobody /\ \A w \in Workers : Live(w) => w = stops[s]
    /\ quiet => entry = Nobody /\ \A w \in Workers : ~Live(w)

SubscriptionIInv == SubscriptionInv /\ CancelSound /\ Retries /\ NoOverlap

AtWork == {"starting", "connecting", "connected", "backing_off"}

LEMMA SubscriptionInitial ==
  ASSUME SubscriptionConstants, SubscriptionInit
  PROVE  SubscriptionIInv
<1>0. /\ MaxWorkers \in Nat \ {0} /\ MaxAttempts \in Nat \ {0} /\ 1 \in Workers /\ 0 \in 0..MaxAttempts
      /\ Nobody \notin Workers
  BY DEF SubscriptionConstants, Workers, Nobody
<1>1. /\ status = "starting" /\ desired = TRUE /\ entry = 1 /\ cancelled = {} /\ endpoint \in BOOLEAN
      /\ overlap = FALSE /\ quiet = FALSE /\ late = FALSE
      /\ \A s \in Stops : stops[s] = Nobody
      /\ worker[1] = [at |-> "spawned", attempts |-> 0]
      /\ \A w \in Workers \ {1} : worker[w] = [at |-> "none", attempts |-> 0]
  BY <1>0 DEF SubscriptionInit, Spawned
<1>2. worker \in [Workers -> [at : Places, attempts : 0..MaxAttempts]]
  BY <1>0 DEF SubscriptionInit, Spawned, Places
<1>3. stops \in [Stops -> Workers \cup {Nobody}]
  BY DEF SubscriptionInit
<1>4. SubscriptionTypeOK
  BY <1>0, <1>1, <1>2, <1>3 DEF SubscriptionTypeOK, States
<1>5. OneActive /\ QuietAfterStop
  BY <1>0, <1>1 DEF OneActive, QuietAfterStop, Live
<1>6. StatusTrue
  BY <1>0, <1>1 DEF StatusTrue, Active, Live, IsAt
<1>7. CancelSound /\ Retries /\ NoOverlap
  BY <1>0, <1>1 DEF CancelSound, Retries, NoOverlap, Live
<1> QED
  BY <1>4, <1>5, <1>6, <1>7 DEF SubscriptionIInv, SubscriptionInv

-----------------------------------------------------------------------------
\* A worker goes on, says how it is, and ends in a failure or when told to stop.
LEMMA WorkerMoves ==
  ASSUME SubscriptionConstants, SubscriptionIInv, NEW w \in Workers, Live(w),
         NEW place \in Places \ {"none"}, NEW n \in 0..MaxAttempts,
         Moves(w, place, n), Alone, late' \in {late, late \/ quiet}, status' \in States,
         place \in {"spawned", "start", "wait"} => n < MaxAttempts,
         place = "ended" => w \in cancelled,
         w \notin cancelled /\ ~overlap /\ (\A s \in Stops : stops[s] = Nobody) =>
           IF place \in {"failed", "gone"} THEN status' = "exhausted" ELSE status' \in AtWork
  PROVE  SubscriptionIInv'
<1>a. /\ worker \in [Workers -> [at : Places, attempts : 0..MaxAttempts]]
      /\ worker' = [worker EXCEPT ![w] = [at |-> place, attempts |-> n]]
      /\ entry' = entry /\ cancelled' = cancelled /\ stops' = stops /\ desired' = desired
      /\ overlap' = overlap /\ quiet' = quiet /\ endpoint' = endpoint
  BY DEF SubscriptionIInv, SubscriptionInv, SubscriptionTypeOK, Moves, Alone
<1>0. /\ worker \in [Workers -> [at : Places, attempts : 0..MaxAttempts]]
      /\ worker'[w] = [at |-> place, attempts |-> n]
      /\ \A v \in Workers \ {w} : worker'[v] = worker[v]
      /\ entry' = entry /\ cancelled' = cancelled /\ stops' = stops /\ desired' = desired
      /\ overlap' = overlap /\ quiet' = quiet /\ endpoint' = endpoint
  BY <1>a
<1>1. \A v \in Workers : Live(v)' => Live(v)
  BY <1>0 DEF Live
<1>2. ~overlap => late' = FALSE
  <2>1. quiet \in BOOLEAN /\ late \in BOOLEAN
    BY DEF SubscriptionIInv, SubscriptionInv, SubscriptionTypeOK
  <2>2. ~overlap => quiet = FALSE /\ late = FALSE
    BY <2>1, Live(w) DEF SubscriptionIInv, SubscriptionInv, QuietAfterStop, NoOverlap
  <2> QED
    BY <2>1, <2>2
<1>3. SubscriptionTypeOK'
  <2>1. worker' \in [Workers -> [at : Places, attempts : 0..MaxAttempts]]
    BY <1>a
  <2>2. late' \in BOOLEAN
    BY DEF SubscriptionIInv, SubscriptionInv, SubscriptionTypeOK
  <2> QED
    BY <1>0, <2>1, <2>2 DEF SubscriptionIInv, SubscriptionInv, SubscriptionTypeOK
<1>4. OneActive'
  BY <1>0, <1>1 DEF SubscriptionIInv, SubscriptionInv, OneActive
<1>5. StatusTrue'
  <2> SUFFICES ASSUME ~overlap, \A s \in Stops : stops[s] = Nobody, NEW v \in Workers
               PROVE  /\ Active(v)' => desired /\ status' \in AtWork
                      /\ entry = v /\ ~Active(v)' => desired /\ status' = "exhausted"
    BY <1>0 DEF StatusTrue, AtWork
  <2>1. /\ Active(v) => desired
        /\ entry = v => desired
    BY DEF SubscriptionIInv, SubscriptionInv, StatusTrue
  <2>2. CASE v = w
    <3>1. entry = w => w \notin cancelled
      BY DEF SubscriptionIInv, CancelSound
    <3>2. Active(w)' => Live(w) /\ w \notin cancelled /\ place \notin {"failed", "gone"}
      BY <1>0 DEF Active, Live, IsAt
    <3>3. w \notin cancelled => entry = w
      BY DEF SubscriptionIInv, SubscriptionInv, OneActive
    <3>4. w \notin cancelled /\ place \notin {"failed", "gone"} => Active(w)'
      BY <1>0 DEF Active, Live, IsAt, Places
    <3> QED
      BY <2>1, <2>2, <3>1, <3>2, <3>3, <3>4
  <2>3. CASE v # w
    <3>1. ~Live(v) /\ entry # v
      BY <2>3, Live(w) DEF SubscriptionIInv, NoOverlap, Workers, Nobody, SubscriptionConstants
    <3>2. ~Active(v)'
      BY <1>1, <3>1 DEF Active
    <3> QED
      BY <3>1, <3>2
  <2> QED
    BY <2>2, <2>3
<1>6. QuietAfterStop'
  BY <1>0, <1>2 DEF SubscriptionIInv, SubscriptionInv, QuietAfterStop
<1>7. CancelSound'
  <2>1. entry # Nobody => entry \in Workers
    BY DEF SubscriptionIInv, SubscriptionInv, SubscriptionTypeOK
  <2> QED
    BY <1>0, <2>1 DEF SubscriptionIInv, CancelSound
<1>8. Retries'
  BY <1>0 DEF SubscriptionIInv, Retries
<1>9. NoOverlap'
  BY <1>0, <1>1 DEF SubscriptionIInv, NoOverlap
<1> QED
  BY <1>3, <1>4, <1>5, <1>6, <1>7, <1>8, <1>9 DEF SubscriptionIInv, SubscriptionInv

LEMMA WorkStep ==
  ASSUME SubscriptionConstants, SubscriptionIInv, NEW w \in Workers, Work(w)
  PROVE  SubscriptionIInv'
<1>0. /\ worker[w] \in [at : Places, attempts : 0..MaxAttempts] /\ MaxAttempts \in Nat \ {0}
      /\ 0 \in 0..MaxAttempts /\ 0 < MaxAttempts /\ worker[w].attempts \in 0..MaxAttempts
      /\ worker[w].at \in {"spawned", "start", "wait"} => worker[w].attempts < MaxAttempts
      /\ status \in States /\ (worker[w].at = "ended" => w \in cancelled)
  BY DEF SubscriptionConstants, SubscriptionIInv, SubscriptionInv, SubscriptionTypeOK, Retries, CancelSound
<1>a. (\A s \in Stops : stops[s] = Nobody) /\ ~overlap /\ w \notin cancelled /\ worker[w].at \in {"read", "adapter", "offer"}
        => status \in AtWork
  BY DEF SubscriptionIInv, SubscriptionInv, StatusTrue, Active, Live, IsAt, AtWork
<1> USE DEF IsAt, Says, Live, Places, States, AtWork
<1>1. CASE Begin(w)
  BY <1>0, <1>1, WorkerMoves DEF Begin
<1>2. CASE NoEndpoint(w)
  BY <1>0, <1>2, WorkerMoves DEF NoEndpoint
<1>3. CASE Connect(w)
  BY <1>0, <1>3, WorkerMoves DEF Connect
<1>4. CASE Connected(w)
  BY <1>0, <1>4, WorkerMoves DEF Connected
<1>5. CASE Disconnected(w)
  BY <1>0, <1>5, WorkerMoves DEF Disconnected, Exhausted
<1>6. CASE Reconnect(w)
  BY <1>0, <1>6, WorkerMoves DEF Reconnect
<1>7. CASE Reject(w)
  BY <1>0, <1>7, WorkerMoves DEF Reject
<1>8. CASE Adapt(w)
  <2>1. CASE worker[w].at = "read" /\ Moves(w, "adapter", worker[w].attempts)
    BY <1>0, <1>a, <1>8, <2>1, WorkerMoves DEF Adapt
  <2>2. CASE worker[w].at = "adapter" /\ Moves(w, "offer", worker[w].attempts)
    BY <1>0, <1>a, <1>8, <2>2, WorkerMoves DEF Adapt
  <2> QED
    BY <1>8, <2>1, <2>2 DEF Adapt
<1>9. CASE Enqueue(w)
  BY <1>0, <1>a, <1>9, WorkerMoves DEF Enqueue
<1>10. CASE QueueClosed(w)
  BY <1>0, <1>10, WorkerMoves DEF QueueClosed
<1>11. CASE Cancelled(w)
  BY <1>0, <1>11, WorkerMoves DEF Cancelled
<1>12. CASE Ends(w)
  BY <1>0, <1>12, WorkerMoves DEF Ends
<1> QED
  BY <1>1, <1>2, <1>3, <1>4, <1>5, <1>6, <1>7, <1>8, <1>9, <1>10, <1>11, <1>12 DEF Work

-----------------------------------------------------------------------------
\* A start begins its worker where nobody runs; it overtakes a stop, or no
\* worker is alive and no stop is under way.
LEMMA StartStep ==
  ASSUME SubscriptionConstants, SubscriptionIInv, NEW w \in Workers, Start(w)
  PROVE  SubscriptionIInv'
<1>0. /\ worker \in [Workers -> [at : Places, attempts : 0..MaxAttempts]]
      /\ worker[w].at = "none" /\ w \notin cancelled /\ Nobody \notin Workers
      /\ MaxAttempts \in Nat \ {0} /\ 0 \in 0..MaxAttempts
  BY DEF SubscriptionIInv, SubscriptionInv, SubscriptionTypeOK, CancelSound, Start, SubscriptionConstants, Workers, Nobody
<1>1. /\ worker' \in [Workers -> [at : Places, attempts : 0..MaxAttempts]]
      /\ worker'[w] = [at |-> "spawned", attempts |-> 0]
      /\ \A v \in Workers \ {w} : worker'[v] = worker[v]
      /\ entry' = w /\ cancelled' = cancelled /\ stops' = stops /\ desired' = TRUE /\ status' = "starting"
      /\ quiet' = FALSE /\ late' = late /\ endpoint' = endpoint
  BY <1>0 DEF Start, Says, Spawned, Places
<1>2. overlap' \in BOOLEAN
      /\ (~overlap' => ~overlap /\ (\A v \in Workers : ~Live(v)) /\ \A s \in Stops : stops[s] = Nobody)
  BY DEF Start, SubscriptionIInv, SubscriptionInv, SubscriptionTypeOK
<1>3. \A v \in Workers : Live(v) => v \in cancelled
  BY <1>0 DEF Start, Running, SubscriptionIInv, SubscriptionInv, OneActive
<1>4. SubscriptionTypeOK'
  BY <1>1, <1>2 DEF SubscriptionIInv, SubscriptionInv, SubscriptionTypeOK, States
<1>5. OneActive'
  BY <1>1, <1>3 DEF OneActive, Live
<1>6. StatusTrue'
  <2> SUFFICES ASSUME ~overlap', NEW v \in Workers
               PROVE  /\ Active(v)' => desired' /\ status' \in AtWork
                      /\ entry' = v /\ ~Active(v)' => desired' /\ status' = "exhausted"
    BY DEF StatusTrue, AtWork
  <2> QED
    BY <1>0, <1>1 DEF Active, Live, IsAt, AtWork
<1>7. QuietAfterStop'
  BY <1>1, <1>2 DEF SubscriptionIInv, SubscriptionInv, QuietAfterStop
<1>8. CancelSound'
  BY <1>0, <1>1 DEF SubscriptionIInv, CancelSound
<1>9. Retries'
  BY <1>0, <1>1 DEF SubscriptionIInv, Retries
<1>10. NoOverlap'
  BY <1>0, <1>1, <1>2 DEF NoOverlap, Live
<1> QED
  BY <1>4, <1>5, <1>6, <1>7, <1>8, <1>9, <1>10 DEF SubscriptionIInv, SubscriptionInv

-----------------------------------------------------------------------------
\* A stop takes the worker from the registry: whoever was active is cancelled.
LEMMA StopStep ==
  ASSUME SubscriptionConstants, SubscriptionIInv, NEW s \in Stops, Stop(s)
  PROVE  SubscriptionIInv'
<1>0. /\ stops \in [Stops -> Workers \cup {Nobody}] /\ entry \in Workers /\ Nobody \notin Workers
      /\ entry \notin cancelled
  BY DEF SubscriptionIInv, SubscriptionInv, SubscriptionTypeOK, CancelSound, Stop, SubscriptionConstants, Workers, Nobody
<1>1. /\ entry' = Nobody /\ cancelled' = cancelled \cup {entry} /\ worker' = worker /\ endpoint' = endpoint
      /\ overlap' = overlap /\ quiet' = quiet /\ late' = late /\ stops' \in [Stops -> Workers \cup {Nobody}]
      /\ \A r \in Stops : stops'[r] = stops[r] \/ stops'[r] = entry
      /\ status' \in States /\ desired' \in BOOLEAN
  BY <1>0 DEF Stop, Says, States, SubscriptionIInv, SubscriptionInv, SubscriptionTypeOK
<1>2. \A v \in Workers : Live(v) => v \in cancelled'
  BY <1>1 DEF SubscriptionIInv, SubscriptionInv, OneActive
<1>3. \A v \in Workers : Live(v)' <=> Live(v)
  BY <1>1 DEF Live
<1>4. SubscriptionTypeOK'
  BY <1>0, <1>1 DEF SubscriptionIInv, SubscriptionInv, SubscriptionTypeOK
<1>5. OneActive'
  BY <1>2, <1>3 DEF OneActive
<1>6. StatusTrue'
  BY <1>0, <1>1, <1>2, <1>3 DEF StatusTrue, Active
<1>7. QuietAfterStop'
  BY <1>1 DEF SubscriptionIInv, SubscriptionInv, QuietAfterStop
<1>8. CancelSound'
  <2>1. cancelled \subseteq Workers
    BY DEF SubscriptionIInv, SubscriptionInv, SubscriptionTypeOK
  <2>2. entry' \notin cancelled'
    BY <1>0, <1>1, <2>1
  <2> QED
    BY <1>0, <1>1, <2>2 DEF SubscriptionIInv, CancelSound
<1>9. Retries'
  BY <1>1 DEF SubscriptionIInv, Retries
<1>10. NoOverlap'
  BY <1>0, <1>1, <1>3 DEF SubscriptionIInv, NoOverlap
<1> QED
  BY <1>4, <1>5, <1>6, <1>7, <1>8, <1>9, <1>10 DEF SubscriptionIInv, SubscriptionInv

LEMMA AlreadyStoppedStep ==
  ASSUME SubscriptionConstants, SubscriptionIInv, AlreadyStopped
  PROVE  SubscriptionIInv'
<1>1. /\ entry' = entry /\ entry = Nobody /\ cancelled' = cancelled /\ worker' = worker /\ endpoint' = endpoint
      /\ overlap' = overlap /\ quiet' = quiet /\ late' = late /\ stops' = stops
  BY DEF AlreadyStopped
<1>0. status' \in States /\ desired' \in BOOLEAN
  BY DEF AlreadyStopped, Says, States
<1>a. Nobody \notin Workers
  BY DEF SubscriptionConstants, Workers, Nobody
<1>2. \A v \in Workers : Live(v)' <=> Live(v)
  BY <1>1 DEF Live
<1>3. SubscriptionTypeOK'
  BY <1>0, <1>1 DEF SubscriptionIInv, SubscriptionInv, SubscriptionTypeOK
<1>4. OneActive' /\ QuietAfterStop'
  BY <1>1, <1>2 DEF SubscriptionIInv, SubscriptionInv, OneActive, QuietAfterStop
<1>5. StatusTrue'
  BY <1>1, <1>2, <1>4, <1>a DEF StatusTrue, Active, OneActive
<1>6. CancelSound' /\ Retries'
  BY <1>1 DEF SubscriptionIInv, CancelSound, Retries
<1>7. NoOverlap'
  BY <1>1, <1>2 DEF SubscriptionIInv, NoOverlap
<1> QED
  BY <1>3, <1>4, <1>5, <1>6, <1>7 DEF SubscriptionIInv, SubscriptionInv

\* After five seconds the worker is gone wherever it is.
LEMMA AbortStep ==
  ASSUME SubscriptionConstants, SubscriptionIInv, NEW s \in Stops, Abort(s)
  PROVE  SubscriptionIInv'
<1> DEFINE w == stops[s]
<1>0. /\ worker \in [Workers -> [at : Places, attempts : 0..MaxAttempts]] /\ w \in Workers /\ Live(w)
      /\ w # Nobody /\ entry \in Workers \cup {Nobody} /\ Nobody \notin Workers
  BY DEF SubscriptionIInv, SubscriptionInv, SubscriptionTypeOK, Abort, SubscriptionConstants, Workers, Nobody
<1>1. /\ worker' \in [Workers -> [at : Places, attempts : 0..MaxAttempts]]
      /\ worker'[w].at = "gone"
      /\ \A v \in Workers \ {w} : worker'[v] = worker[v]
      /\ entry' = entry /\ cancelled' = cancelled /\ stops' = stops /\ desired' = desired /\ status' = status
      /\ overlap' = overlap /\ quiet' = quiet /\ late' = late /\ endpoint' = endpoint
  BY <1>0 DEF Abort, Places
<1> HIDE DEF w
<1>2. \A v \in Workers : Live(v)' => Live(v)
  BY <1>1 DEF Live
<1>3. SubscriptionTypeOK'
  BY <1>1 DEF SubscriptionIInv, SubscriptionInv, SubscriptionTypeOK
<1>4. OneActive' /\ QuietAfterStop'
  BY <1>1, <1>2 DEF SubscriptionIInv, SubscriptionInv, OneActive, QuietAfterStop
<1>5. StatusTrue'
  BY <1>0, <1>1 DEF StatusTrue, w
<1>6. CancelSound' /\ Retries'
  BY <1>0, <1>1 DEF SubscriptionIInv, CancelSound, Retries
<1>7. NoOverlap'
  BY <1>1, <1>2 DEF SubscriptionIInv, NoOverlap
<1> QED
  BY <1>3, <1>4, <1>5, <1>6, <1>7 DEF SubscriptionIInv, SubscriptionInv

\* The request leaves, with an answer or without one: with one, nobody is left
\* alive unless a start had overtaken the stop.
LEMMA LeaveStep ==
  ASSUME SubscriptionConstants, SubscriptionIInv, NEW s \in Stops, Stopped(s) \/ HangUp(s)
  PROVE  SubscriptionIInv'
<1>0. /\ stops \in [Stops -> Workers \cup {Nobody}] /\ Nobody \notin Workers /\ stops[s] # Nobody
  BY DEF SubscriptionIInv, SubscriptionInv, SubscriptionTypeOK, Stopped, HangUp, SubscriptionConstants, Workers, Nobody
<1>1. /\ entry' = entry /\ cancelled' = cancelled /\ worker' = worker /\ endpoint' = endpoint
      /\ overlap' = overlap /\ late' = late /\ stops' \in [Stops -> Workers \cup {Nobody}]
      /\ \A r \in Stops : stops'[r] = Nobody \/ stops'[r] = stops[r]
      /\ status' \in States /\ desired' \in BOOLEAN /\ quiet' \in BOOLEAN
  BY <1>0 DEF Stopped, HangUp, Says, States, SubscriptionIInv, SubscriptionInv, SubscriptionTypeOK
<1>2. \A v \in Workers : Live(v)' <=> Live(v)
  BY <1>1 DEF Live
<1>3. ~overlap => entry = Nobody /\ \A v \in Workers : Live(v) => v \in cancelled
  BY <1>0 DEF SubscriptionIInv, SubscriptionInv, OneActive, NoOverlap
<1>4. ~overlap /\ quiet' => \A v \in Workers : ~Live(v)
  BY <1>0 DEF SubscriptionIInv, NoOverlap, Stopped, HangUp
<1>5. SubscriptionTypeOK'
  BY <1>1 DEF SubscriptionIInv, SubscriptionInv, SubscriptionTypeOK
<1>6. OneActive' /\ QuietAfterStop'
  BY <1>1, <1>2 DEF SubscriptionIInv, SubscriptionInv, OneActive, QuietAfterStop
<1>7. StatusTrue'
  BY <1>0, <1>1, <1>2, <1>3 DEF StatusTrue, Active
<1>8. CancelSound' /\ Retries'
  BY <1>1 DEF SubscriptionIInv, CancelSound, Retries
<1>9. NoOverlap'
  BY <1>0, <1>1, <1>2, <1>3, <1>4 DEF SubscriptionIInv, NoOverlap
<1> QED
  BY <1>5, <1>6, <1>7, <1>8, <1>9 DEF SubscriptionIInv, SubscriptionInv

LEMMA SubscriptionStep ==
  ASSUME SubscriptionConstants, SubscriptionIInv, [SubscriptionNext]_subVars
  PROVE  SubscriptionIInv'
<1>1. CASE UNCHANGED subVars
  BY <1>1 DEF subVars, SubscriptionIInv, SubscriptionInv, SubscriptionTypeOK, OneActive, StatusTrue, QuietAfterStop,
              CancelSound, Retries, NoOverlap, Active, Live, IsAt
<1>2. ASSUME NEW w \in Workers, Work(w) PROVE SubscriptionIInv'
  BY <1>2, WorkStep
<1>3. ASSUME NEW w \in Workers, Start(w) PROVE SubscriptionIInv'
  BY <1>3, StartStep
<1>4. CASE AlreadyStopped
  BY <1>4, AlreadyStoppedStep
<1>5. ASSUME NEW s \in Stops, Stop(s) PROVE SubscriptionIInv'
  BY <1>5, StopStep
<1>6. ASSUME NEW s \in Stops, Abort(s) PROVE SubscriptionIInv'
  BY <1>6, AbortStep
<1>7. ASSUME NEW s \in Stops, Stopped(s) \/ HangUp(s) PROVE SubscriptionIInv'
  BY <1>7, LeaveStep
<1> QED
  BY <1>1, <1>2, <1>3, <1>4, <1>5, <1>6, <1>7 DEF SubscriptionNext

\* The worker that was not told to stop is the registry's; unless a start has
\* overtaken a stop, the status says what the worker does and nothing comes
\* after the answer to a stop (source/subscription.rs, run and
\* stop_subscription_entry).
THEOREM SubscriptionSound == SubscriptionConstants => (SubscriptionSpec => []SubscriptionInv)
<1> SUFFICES ASSUME SubscriptionConstants PROVE SubscriptionSpec => []SubscriptionInv
  OBVIOUS
<1>1. SubscriptionInit => SubscriptionIInv
  BY SubscriptionInitial
<1>2. SubscriptionIInv /\ [SubscriptionNext]_subVars => SubscriptionIInv'
  BY SubscriptionStep
<1>3. SubscriptionIInv => SubscriptionInv
  BY DEF SubscriptionIInv
<1> QED
  BY <1>1, <1>2, <1>3, PTL DEF SubscriptionSpec

-----------------------------------------------------------------------------
\* The ids a channel remembers.
Ids(seq) == {seq[i] : i \in DOMAIN seq}

\* Of a channel with the count n and the remembered ids seq, to which the messages
\* M came and U since the count was reset: while the ids are all remembered, each is
\* remembered once, and what counts towards the backlog is remembered and unseen.
Books(n, seq, U, M) ==
  /\ IsFiniteSet(M) /\ Ids(seq) \subseteq M /\ U \subseteq M
  /\ Cardinality(M) <= MaxRecent =>
       /\ Len(seq) <= Cardinality(Ids(seq))
       /\ n <= Cardinality(U \cap Ids(seq))
Backlog(c) == Books(watch.count[c], watch.recent[c], unseen[c], met[c])

\* The state file knows of a nudge no earlier than an intent it was noted with.
Barred(i) ==
  /\ watch.global # Never /\ intents[i].at <= watch.global
  /\ watch.nudged[Channel[intents[i].message]] # Never
  /\ intents[i].at <= watch.nudged[Channel[intents[i].message]]

WatchIInv ==
  /\ WatchTypeOK /\ Spaced
  /\ \A c \in Channels : Backlog(c)
  /\ \A i \in noted : Barred(i)

LEMMA WatchLimits ==
  /\ Channel \in [Messages -> Channels \cup {Direct}]
  /\ MessagesMin \in Nat \ {0} /\ MaxRecent \in Nat \ {0}
  /\ GlobalCooldown \in Nat /\ ChannelCooldown \in Nat
  /\ MaxTime \in Nat /\ MaxReceived \in Nat /\ MaxLost \in Nat
BY WatchConstants

LEMMA WatchIInvImplies == WatchIInv => WatchInv
<1> SUFFICES ASSUME WatchIInv, NEW c \in Channels, Cardinality(met[c]) <= MaxRecent
             PROVE  watch.count[c] <= Cardinality(unseen[c])
  BY DEF WatchIInv, WatchInv, CountTrue
<1> DEFINE some == unseen[c] \cap Ids(watch.recent[c])
<1>1. IsFiniteSet(unseen[c]) /\ some \subseteq unseen[c]
  BY FS_Subset DEF WatchIInv, Backlog, Books
<1>2. Cardinality(some) <= Cardinality(unseen[c]) /\ Cardinality(some) \in Nat /\ Cardinality(unseen[c]) \in Nat
  BY <1>1, FS_Subset, FS_CardinalityType
<1>3. watch.count[c] <= Cardinality(some) /\ watch.count[c] \in Nat
  BY DEF WatchIInv, Backlog, Books, WatchTypeOK, WatchStates
<1> HIDE DEF some
<1> QED  BY <1>2, <1>3

-----------------------------------------------------------------------------
(* The books of a channel.                                                     *)

\* The ids of a sequence and one more.
LEMMA AppendedIds ==
  ASSUME NEW seq \in Seq(Messages), NEW m \in Messages
  PROVE  Ids(Append(seq, m)) = Ids(seq) \cup {m}
<1> DEFINE more == Append(seq, m)
<1>1. /\ Len(seq) \in Nat /\ DOMAIN seq = 1..Len(seq) /\ DOMAIN more = 1..Len(seq) + 1
      /\ more[Len(seq) + 1] = m /\ \A i \in 1..Len(seq) : more[i] = seq[i]
  OBVIOUS
<1> HIDE DEF more
<1>2. Ids(more) \subseteq Ids(seq) \cup {m}
  BY <1>1 DEF Ids
<1>3. ASSUME NEW x \in Ids(seq) \cup {m} PROVE x \in Ids(more)
  <2>1. CASE x = m
    BY <1>1, <2>1 DEF Ids
  <2>2. CASE x \in Ids(seq)
    <3>1. PICK i \in 1..Len(seq) : x = seq[i]
      BY <1>1, <2>2 DEF Ids
    <3>2. i \in DOMAIN more /\ more[i] = x
      BY <1>1, <3>1
    <3> QED  BY <3>2 DEF Ids
  <2> QED  BY <1>3, <2>1, <2>2
<1> QED  BY <1>2, <1>3 DEF more

\* A message adds its id to those remembered, or is one of them.
LEMMA RecordedIds ==
  ASSUME NEW seq \in Seq(Messages), NEW m \in Messages
  PROVE  /\ Recorded(seq, m) \in Seq(Messages)
         /\ Ids(Recorded(seq, m)) \subseteq Ids(seq) \cup {m}
         /\ Has(seq, m) <=> m \in Ids(seq)
         /\ Has(seq, m) => Recorded(seq, m) = seq
         /\ ~Has(seq, m) /\ Len(seq) < MaxRecent =>
              Ids(Recorded(seq, m)) = Ids(seq) \cup {m} /\ Len(Recorded(seq, m)) = Len(seq) + 1
<1>1. Has(seq, m) <=> m \in Ids(seq)
  BY DEF Has, Ids
<1>2. CASE Has(seq, m)
  BY <1>1, <1>2 DEF Recorded
<1>3. CASE ~Has(seq, m) /\ Len(seq) < MaxRecent
  <2>1. Recorded(seq, m) = Append(seq, m)
    BY <1>3 DEF Recorded
  <2>2. Ids(Append(seq, m)) = Ids(seq) \cup {m}
    BY AppendedIds
  <2> QED  BY <1>1, <1>3, <2>1, <2>2
<1>4. CASE ~Has(seq, m) /\ ~(Len(seq) < MaxRecent)
  <2>1. Recorded(seq, m) = Append(Tail(seq), m) /\ Len(seq) > 0 /\ seq # <<>>
    BY <1>4, WatchLimits DEF Recorded
  <2>2. Tail(seq) \in Seq(Messages) /\ Len(Tail(seq)) = Len(seq) - 1
        /\ \A i \in 1..Len(seq) - 1 : Tail(seq)[i] = seq[i + 1]
    BY <2>1
  <2>3. Ids(Tail(seq)) \subseteq Ids(seq)
    <3>1. DOMAIN Tail(seq) = 1..Len(seq) - 1 /\ DOMAIN seq = 1..Len(seq)
          /\ \A i \in 1..Len(seq) - 1 : i + 1 \in 1..Len(seq)
      BY <2>1, <2>2
    <3> QED  BY <2>2, <3>1 DEF Ids
  <2>4. Ids(Append(Tail(seq), m)) \subseteq Ids(seq) \cup {m}
    BY <2>2, <2>3, AppendedIds
  <2>5. Append(Tail(seq), m) \in Seq(Messages)
    BY <2>2
  <2> QED  BY <1>1, <1>4, <2>1, <2>4, <2>5
<1> QED  BY <1>2, <1>3, <1>4

\* A message that comes, with or without its being written down.
LEMMA BooksUnwritten ==
  ASSUME NEW seq, NEW n \in Nat, NEW U, NEW M, NEW m, Books(n, seq, U, M)
  PROVE  Books(n, seq, U \cup {m}, M \cup {m}) /\ Books(0, seq, {}, M)
         /\ (Cardinality(M \cup {m}) <= MaxRecent => Cardinality(M) <= MaxRecent)
<1>1. IsFiniteSet(M \cup {m}) /\ Cardinality(M) \in Nat /\ Cardinality(M \cup {m}) \in Nat
      /\ Cardinality(M) <= Cardinality(M \cup {m}) /\ IsFiniteSet(M)
  BY FS_AddElement, FS_CardinalityType DEF Books
<1>2. Cardinality(M \cup {m}) <= MaxRecent => Cardinality(M) <= MaxRecent
  BY <1>1, WatchLimits
<1> DEFINE some == U \cap Ids(seq)
           more == (U \cup {m}) \cap Ids(seq)
<1>3. Cardinality(some) <= Cardinality(more) /\ Cardinality(some) \in Nat /\ Cardinality(more) \in Nat
  <2>1. more \subseteq M /\ some \subseteq more
    BY DEF Books
  <2> HIDE DEF some, more
  <2>2. IsFiniteSet(more)
    BY <1>1, <2>1, FS_Subset
  <2> QED  BY <2>1, <2>2, FS_Subset, FS_CardinalityType
<1>4. Books(n, seq, U \cup {m}, M \cup {m})
  <2>1. Cardinality(M) <= MaxRecent => Len(seq) <= Cardinality(Ids(seq)) /\ n <= Cardinality(some)
    BY DEF Books
  <2>2. Ids(seq) \subseteq M \cup {m} /\ U \cup {m} \subseteq M \cup {m}
    BY DEF Books
  <2> HIDE DEF some
  <2>3. n <= Cardinality(some) => n <= Cardinality(more)
    BY <1>3
  <2> QED  BY <1>1, <1>2, <2>1, <2>2, <2>3 DEF Books
<1>5. Books(0, seq, {}, M)
  <2>1. {} \cap Ids(seq) = {} /\ Cardinality({}) = 0
    BY FS_EmptySet
  <2> QED  BY <2>1 DEF Books
<1> QED  BY <1>2, <1>4, <1>5

LEMMA BooksWritten ==
  ASSUME NEW seq \in Seq(Messages), NEW m \in Messages, NEW n \in Nat, NEW U, NEW M,
         Books(n, seq, U, M),
         NEW k \in Nat, k = n \/ (k = n + 1 /\ ~Has(seq, m))
  PROVE  Books(k, Recorded(seq, m), U \cup {m}, M \cup {m})
         /\ Books(0, Recorded(seq, m), {}, M \cup {m})
<1> DEFINE next == Recorded(seq, m)
           V == U \cup {m}
           N == M \cup {m}
<1>1. Books(n, seq, V, N) /\ (Cardinality(N) <= MaxRecent => Cardinality(M) <= MaxRecent)
  BY BooksUnwritten
<1>2. CASE Has(seq, m)
  <2>1. next = seq /\ k = n
    BY <1>2, RecordedIds
  <2> QED  BY <1>1, <2>1, BooksUnwritten
<1>3. CASE ~Has(seq, m) /\ ~(Cardinality(N) <= MaxRecent)
  <2>1. IsFiniteSet(N) /\ Ids(next) \subseteq N /\ V \subseteq N
    BY <1>1, RecordedIds DEF Books
  <2> QED  BY <1>3, <2>1 DEF Books
<1>4. CASE ~Has(seq, m) /\ Cardinality(N) <= MaxRecent
  <2> DEFINE S == Ids(seq)
             some == U \cap S
  <2>1. /\ IsFiniteSet(M) /\ S \subseteq M /\ U \subseteq M
        /\ Len(seq) <= Cardinality(S) /\ n <= Cardinality(some)
    BY <1>1, <1>4 DEF Books
  <2>2. m \notin S /\ m \notin some /\ IsFiniteSet(S) /\ IsFiniteSet(some)
    BY <1>4, <2>1, RecordedIds, FS_Subset
  <2>3. /\ Cardinality(S \cup {m}) = Cardinality(S) + 1 /\ Cardinality(some \cup {m}) = Cardinality(some) + 1
        /\ IsFiniteSet(S \cup {m}) /\ IsFiniteSet(some \cup {m})
        /\ Cardinality(S) \in Nat /\ Cardinality(some) \in Nat
    <3> HIDE DEF S, some
    <3> QED  BY <2>2, FS_AddElement, FS_CardinalityType
  <2>4. IsFiniteSet(N) /\ V \subseteq N /\ S \cup {m} \subseteq N
    BY <1>1, <2>1 DEF Books
  <2>5. Cardinality(S \cup {m}) <= Cardinality(N) /\ Cardinality(N) \in Nat
    BY <2>4, FS_Subset, FS_CardinalityType
  <2>6. Len(seq) < MaxRecent
    <3> HIDE DEF S, some, N
    <3> QED  BY <1>4, <2>1, <2>3, <2>5, WatchLimits
  <2>7. Ids(next) = S \cup {m} /\ Len(next) = Len(seq) + 1
    BY <1>4, <2>6, RecordedIds
  <2>8. V \cap Ids(next) = some \cup {m}
    BY <2>7
  <2>9. Len(next) <= Cardinality(Ids(next)) /\ k <= Cardinality(V \cap Ids(next))
    <3>1. Cardinality(Ids(next)) = Cardinality(S) + 1
          /\ Cardinality(V \cap Ids(next)) = Cardinality(some) + 1
      BY <2>3, <2>7, <2>8
    <3>2. Len(seq) \in Nat
      OBVIOUS
    <3> HIDE DEF S, some, N, V, next
    <3> QED  BY <2>1, <2>3, <2>7, <3>1, <3>2
  <2>10. Books(k, next, V, N)
    BY <2>4, <2>7, <2>9 DEF Books
  <2> QED  BY <2>10, BooksUnwritten
<1> QED  BY <1>2, <1>3, <1>4, BooksUnwritten

-----------------------------------------------------------------------------
LEMMA WatchInitial == WatchInit => WatchIInv
<1> SUFFICES ASSUME WatchInit PROVE WatchIInv
  OBVIOUS
<1>1. WatchTypeOK
  <2>1. watch \in WatchStates
    BY DEF WatchInit, WatchStates, Times
  <2> QED  BY <2>1, WatchLimits DEF WatchInit, WatchTypeOK, Times
<1>2. \A c \in Channels : Backlog(c)
  <2> SUFFICES ASSUME NEW c \in Channels PROVE Backlog(c)
    OBVIOUS
  <2>1. /\ met[c] = {} /\ unseen[c] = {} /\ watch.recent[c] = <<>> /\ watch.count[c] = 0
    BY DEF WatchInit
  <2>2. Ids(<<>>) = {} /\ Len(<<>>) = 0
    BY DEF Ids
  <2>3. {} \cap Ids(<<>>) = {} /\ Cardinality({}) = 0 /\ IsFiniteSet({})
    BY <2>2, FS_EmptySet
  <2>4. Books(0, <<>>, {}, {})
    <3>1. Cardinality({} \cap Ids(<<>>)) = 0 /\ Cardinality(Ids(<<>>)) = 0
      BY ONLY <2>2, <2>3, Zenon
    <3>2. Len(<<>>) <= 0 /\ 0 <= 0
      BY <2>2
    <3> QED  BY <2>2, <2>3, <3>1, <3>2 DEF Books
  <2> QED  BY <2>1, <2>4 DEF Backlog
<1> QED  BY <1>1, <1>2 DEF WatchInit, WatchIInv, Spaced
-----------------------------------------------------------------------------
(* What process_message makes of a state file.                                 *)
LEMMA CountedState ==
  ASSUME NEW s \in WatchStates, NEW m \in Messages, NEW t \in Times, NEW seen \in Times
  PROVE  /\ Counted(s, m, t, seen) \in WatchStates
         /\ Counted(s, m, t, seen).global = s.global /\ Counted(s, m, t, seen).nudged = s.nudged
         /\ \A c \in Channels :
              IF c = Channel[m]
              THEN /\ Counted(s, m, t, seen).recent[c] = Recorded(s.recent[c], m)
                   /\ \/ Counted(s, m, t, seen).count[c] = s.count[c]
                      \/ Counted(s, m, t, seen).count[c] = s.count[c] + 1 /\ ~Has(s.recent[c], m)
              ELSE /\ Counted(s, m, t, seen).recent[c] = s.recent[c]
                   /\ Counted(s, m, t, seen).count[c] = s.count[c]
<1> DEFINE c == Channel[m]
           count == IF c \in Channels /\ Counts(s, m, t) THEN [s.count EXCEPT ![c] = @ + 1] ELSE s.count
           recent == IF c \in Channels THEN [s.recent EXCEPT ![c] = Recorded(@, m)] ELSE s.recent
           pending == IF m \in Mentions /\ s.pending[m] = Never THEN [s.pending EXCEPT ![m] = seen]
                      ELSE s.pending
           new == [s EXCEPT !.count = count, !.recent = recent, !.pending = pending]
<1>1. Counted(s, m, t, seen) = new
  <2> HIDE DEF Counts, Recorded
  <2> QED  BY Zenon DEF Counted
<1>2. /\ count \in [Channels -> Nat]
      /\ \A d \in Channels \ {c} : count[d] = s.count[d]
      /\ c \in Channels => count[c] = s.count[c] \/ (count[c] = s.count[c] + 1 /\ Counts(s, m, t))
  <2>1. s.count \in [Channels -> Nat]
    BY DEF WatchStates
  <2> QED  BY <2>1
<1>3. /\ recent \in [Channels -> Seq(Messages)]
      /\ \A d \in Channels \ {c} : recent[d] = s.recent[d]
      /\ c \in Channels => recent[c] = Recorded(s.recent[c], m)
  <2>1. s.recent \in [Channels -> Seq(Messages)]
    BY DEF WatchStates
  <2>2. c \in Channels => Recorded(s.recent[c], m) \in Seq(Messages)
    BY <2>1, RecordedIds
  <2> QED  BY <2>1, <2>2
<1>4. pending \in [Messages -> Times \cup {Never}]
  BY DEF WatchStates
<1>5. Counts(s, m, t) => ~Has(s.recent[c], m)
  BY DEF Counts
<1> HIDE DEF count, recent, pending
<1>6. /\ new \in WatchStates /\ new.count = count /\ new.recent = recent
      /\ new.global = s.global /\ new.nudged = s.nudged
  BY <1>2, <1>3, <1>4 DEF WatchStates
<1> HIDE DEF new
<1> QED  BY <1>1, <1>2, <1>3, <1>5, <1>6

LEMMA NudgedState ==
  ASSUME NEW s \in WatchStates, NEW m \in Messages, NEW t \in Times
  PROVE  /\ Nudged(s, m, t) \in WatchStates
         /\ Nudged(s, m, t).global = t /\ Nudged(s, m, t).recent = s.recent
         /\ \A c \in Channels \cup {Direct} :
              Nudged(s, m, t).nudged[c] = IF c = Channel[m] THEN t ELSE s.nudged[c]
         /\ \A c \in Channels :
              \/ Nudged(s, m, t).count[c] = s.count[c]
              \/ c = Channel[m] /\ Nudged(s, m, t).count[c] = 0
<1> DEFINE c == Channel[m]
           nudged == [s.nudged EXCEPT ![c] = t]
           count == IF "backlog" \in Why(s, m, t) THEN [s.count EXCEPT ![c] = 0] ELSE s.count
           new == [s EXCEPT !.global = t, !.nudged = nudged, !.count = count]
<1>1. Nudged(s, m, t) = new
  BY DEF Nudged
<1>2. c \in Channels \cup {Direct}
  BY WatchLimits
<1>3. /\ nudged \in [Channels \cup {Direct} -> Times \cup {Never}]
      /\ \A d \in Channels \cup {Direct} : nudged[d] = IF d = c THEN t ELSE s.nudged[d]
  <2>1. s.nudged \in [Channels \cup {Direct} -> Times \cup {Never}]
    BY DEF WatchStates
  <2> HIDE DEF c
  <2> QED  BY <1>2, <2>1
<1>4. /\ count \in [Channels -> Nat]
      /\ \A d \in Channels : count[d] = s.count[d] \/ (d = c /\ count[d] = 0)
  <2>1. s.count \in [Channels -> Nat]
    BY DEF WatchStates
  <2> HIDE DEF c
  <2> QED  BY <2>1
<1> HIDE DEF count, nudged
<1>5. /\ new \in WatchStates /\ new.count = count /\ new.nudged = nudged
      /\ new.global = t /\ new.recent = s.recent
  BY <1>3, <1>4 DEF WatchStates
<1> HIDE DEF new
<1> QED  BY <1>1, <1>3, <1>4, <1>5
-----------------------------------------------------------------------------
(* A message is received.  What it makes of the two files: nothing is written, *)
(* or the intent without the state, or both.                                   *)
LEMMA Received ==
  ASSUME WatchIInv, NEW m \in Messages, NEW t \in 0..now, NEW seen \in Times, Receive(m, t, seen)
  PROVE  LET counted == Counted(watch, m, t, seen)
             nudged  == Nudged(counted, m, t)
             new == [message |-> m, why |-> Why(counted, m, t), at |-> t]
         IN /\ \/ intents' = intents /\ watch' \in {watch, counted}
               \/ ~InCooldown(counted, Channel[m], t) /\ intents' = intents /\ watch' = nudged
               \/ ~InCooldown(counted, Channel[m], t) /\ intents' = Append(intents, new)
                  /\ watch' \in {watch, nudged}
            /\ noted' = IF intents' # intents /\ watch' # watch THEN noted \cup {Len(intents')} ELSE noted
<1> DEFINE counted == Counted(watch, m, t, seen)
           written == Written(m, Why(counted, m, t), t)
           new == [message |-> m, why |-> Why(counted, m, t), at |-> t]
           nudged == Nudged(counted, m, t)
<1>1. written = intents \/ written = Append(intents, new)
  BY DEF Written
<1>2. Nudges(counted, m, t) => ~InCooldown(counted, Channel[m], t)
  BY DEF Nudges
<1>3. /\ \/ /\ intents' = IF Nudges(counted, m, t) THEN written ELSE intents
            /\ watch' = IF Nudges(counted, m, t) THEN nudged ELSE counted
         \/ /\ intents' = IF Nudges(counted, m, t) THEN written ELSE intents
            /\ watch' = watch
         \/ UNCHANGED <<intents, watch>>
      /\ noted' = IF intents' # intents /\ watch' # watch THEN noted \cup {Len(intents')} ELSE noted
  BY DEF Receive
<1> HIDE DEF counted, written, new, nudged
<1>4. /\ \/ intents' = intents /\ watch' \in {watch, counted}
         \/ ~InCooldown(counted, Channel[m], t) /\ intents' = intents /\ watch' = nudged
         \/ ~InCooldown(counted, Channel[m], t) /\ intents' = Append(intents, new)
            /\ watch' \in {watch, nudged}
  BY <1>1, <1>2, <1>3
<1> QED  BY <1>3, <1>4 DEF counted, new, nudged
\* The types a message is received with.
LEMMA ReceivedTypes ==
  ASSUME WatchIInv, NEW m \in Messages, NEW t \in 0..now, NEW seen \in Times, Receive(m, t, seen)
  PROVE  /\ t \in Times /\ Channel[m] \in Channels \cup {Direct} /\ watch \in WatchStates
         /\ Counted(watch, m, t, seen) \in WatchStates
         /\ Nudged(Counted(watch, m, t, seen), m, t) \in WatchStates
         /\ watch' \in WatchStates
         /\ intents' \in Seq([message : Messages, why : SUBSET Reasons, at : Times])
         /\ noted \subseteq noted' /\ noted' \subseteq DOMAIN intents'
<1>1. t \in Times /\ Channel[m] \in Channels \cup {Direct} /\ watch \in WatchStates
  BY WatchLimits DEF WatchIInv, WatchTypeOK, Times
<1> DEFINE counted == Counted(watch, m, t, seen)
           nudged  == Nudged(counted, m, t)
           new == [message |-> m, why |-> Why(counted, m, t), at |-> t]
           IntentType == [message : Messages, why : SUBSET Reasons, at : Times]
<1>2. counted \in WatchStates /\ nudged \in WatchStates
  BY <1>1, CountedState, NudgedState
<1>3. new \in IntentType
  BY <1>1 DEF Why
<1>4. intents \in Seq(IntentType) /\ noted \subseteq DOMAIN intents
  BY DEF WatchIInv, WatchTypeOK
<1> HIDE DEF counted, nudged, new, IntentType
<1>5. /\ watch' \in {watch, counted, nudged}
      /\ intents' = intents \/ intents' = Append(intents, new)
      /\ noted' = IF intents' # intents /\ watch' # watch THEN noted \cup {Len(intents')} ELSE noted
  BY Received DEF counted, nudged, new
<1>6. CASE intents' = intents
  BY <1>1, <1>2, <1>4, <1>5, <1>6 DEF counted, nudged, new, IntentType
<1>7. CASE intents' = Append(intents, new)
  <2>1. intents' \in Seq(IntentType) /\ DOMAIN intents' = 1..Len(intents) + 1
        /\ DOMAIN intents = 1..Len(intents) /\ Len(intents') = Len(intents) + 1 /\ Len(intents) \in Nat
    BY <1>3, <1>4, <1>7
  <2>2. noted \subseteq noted' /\ noted' \subseteq DOMAIN intents'
    BY <1>4, <1>5, <2>1
  <2> QED  BY <1>1, <1>2, <1>5, <2>1, <2>2 DEF counted, nudged, new, IntentType
<1> QED  BY <1>5, <1>6, <1>7

\* An intent that the state file was told of is as far from the next as the cooldowns.
LEMMA ReceivedSpaced ==
  ASSUME WatchIInv, NEW m \in Messages, NEW t \in 0..now, NEW seen \in Times, Receive(m, t, seen)
  PROVE  Spaced' /\ \A i \in noted' : Barred(i)'
<1> DEFINE counted == Counted(watch, m, t, seen)
           nudged  == Nudged(counted, m, t)
           new == [message |-> m, why |-> Why(counted, m, t), at |-> t]
           c == Channel[m]
<1>1. /\ t \in Times /\ c \in Channels \cup {Direct}
      /\ counted \in WatchStates /\ watch \in WatchStates
      /\ noted \subseteq DOMAIN intents
      /\ intents \in Seq([message : Messages, why : SUBSET Reasons, at : Times])
  BY ReceivedTypes DEF WatchIInv, WatchTypeOK
<1>2. /\ counted.global = watch.global /\ counted.nudged = watch.nudged
      /\ nudged.global = t
      /\ \A d \in Channels \cup {Direct} : nudged.nudged[d] = IF d = c THEN t ELSE watch.nudged[d]
  BY <1>1, CountedState, NudgedState
<1>3. new.message = m /\ new.at = t
  OBVIOUS
<1>4. /\ \/ intents' = intents /\ watch' \in {watch, counted}
         \/ ~InCooldown(counted, c, t) /\ intents' = intents /\ watch' = nudged
         \/ ~InCooldown(counted, c, t) /\ intents' = Append(intents, new) /\ watch' \in {watch, nudged}
      /\ noted' = IF intents' # intents /\ watch' # watch THEN noted \cup {Len(intents')} ELSE noted
  BY Received
<1>5. \A i \in noted : Barred(i) /\ i \in DOMAIN intents
  BY <1>1 DEF WatchIInv
<1>6. \A i \in DOMAIN intents : /\ intents[i].at \in Nat /\ intents[i].message \in Messages
                                /\ Channel[intents[i].message] \in Channels \cup {Direct}
  <2> SUFFICES ASSUME NEW i \in DOMAIN intents
               PROVE  /\ intents[i].at \in Nat /\ intents[i].message \in Messages
                      /\ Channel[intents[i].message] \in Channels \cup {Direct}
    OBVIOUS
  <2> DEFINE T == [message : Messages, why : SUBSET Reasons, at : Times]
  <2>1. intents \in Seq(T) => intents[i] \in T
    <3> HIDE DEF T
    <3> QED  OBVIOUS
  <2>2. intents[i] \in T
    BY <1>1, <2>1
  <2> QED  BY <2>2, WatchLimits DEF Times
<1>7. /\ t \in Nat /\ watch.global \in Nat \cup {Never}
      /\ \A d \in Channels \cup {Direct} : watch.nudged[d] \in Nat \cup {Never}
  BY <1>1 DEF WatchStates, Times
<1> HIDE DEF counted, nudged, new, c
<1>8. ASSUME ~InCooldown(counted, c, t), NEW i \in noted
      PROVE  /\ t - intents[i].at >= GlobalCooldown /\ intents[i].at <= t
             /\ Channel[intents[i].message] = c => t - intents[i].at >= ChannelCooldown
  <2>1. t - watch.global >= GlobalCooldown
    BY <1>2, <1>5, <1>7, <1>8, WatchLimits DEF InCooldown, Within, Barred
  <2>2. Channel[intents[i].message] = c => t - watch.nudged[c] >= ChannelCooldown
    BY <1>2, <1>5, <1>7, <1>8, <1>1, WatchLimits DEF InCooldown, Within, Barred
  <2>3. /\ intents[i].at <= watch.global /\ watch.global \in Nat /\ intents[i].at \in Nat
        /\ Channel[intents[i].message] = c => intents[i].at <= watch.nudged[c] /\ watch.nudged[c] \in Nat
    BY <1>1, <1>5, <1>6, <1>7 DEF Barred
  <2> QED  BY <1>7, <2>1, <2>2, <2>3, WatchLimits
<1>9. CASE intents' = intents
  <2>1. noted' = noted
    BY <1>4, <1>9
  <2>2. Spaced'
    BY <1>9, <2>1 DEF WatchIInv, Spaced, Apart
  <2>3. ASSUME NEW i \in noted PROVE Barred(i)'
    <3>1. CASE watch' \in {watch, counted}
      BY <1>2, <1>5, <1>9, <2>3, <3>1 DEF Barred
    <3>2. CASE ~InCooldown(counted, c, t) /\ watch' = nudged
      <4>1. intents[i].at <= t /\ t # Never
        BY <1>7, <1>8, <2>3, <3>2 DEF Never
      <4>2. Channel[intents[i].message] \in Channels \cup {Direct}
        BY <1>5, <1>6, <2>3
      <4> QED  BY <1>2, <1>5, <1>9, <2>3, <3>2, <4>1, <4>2 DEF Barred
    <3> QED  BY <1>4, <1>9, <3>1, <3>2
  <2> QED  BY <2>1, <2>2, <2>3
<1>10. CASE ~InCooldown(counted, c, t) /\ intents' = Append(intents, new) /\ watch' \in {watch, nudged}
  <2> DEFINE n == Len(intents) + 1
  <2>1. /\ Len(intents) \in Nat /\ DOMAIN intents = 1..Len(intents) /\ DOMAIN intents' = 1..n
        /\ Len(intents') = n /\ intents'[n] = new /\ \A i \in DOMAIN intents : intents'[i] = intents[i]
    BY <1>1, <1>10
  <2>2. noted' \subseteq noted \cup {n} /\ (n \in noted' => watch' = nudged)
    <3>1. n \notin noted
      BY <1>1, <2>1
    <3>2. noted' = IF intents' # intents /\ watch' # watch THEN noted \cup {n} ELSE noted
      BY <1>4, <2>1
    <3> HIDE DEF n
    <3> QED  BY <1>10, <3>1, <3>2
  <2>3. ASSUME NEW i \in noted', NEW j \in DOMAIN intents', i < j PROVE Apart(i, j)'
    <3>1. i \in noted /\ i \in DOMAIN intents
      BY <1>5, <2>1, <2>2, <2>3
    <3>2. CASE j \in DOMAIN intents
      BY <2>1, <2>3, <3>1, <3>2 DEF WatchIInv, Spaced, Apart
    <3>3. CASE j = n
      BY <1>3, <1>8, <1>10, <2>1, <3>1, <3>3 DEF Apart, c
    <3> QED  BY <2>1, <2>3, <3>2, <3>3
  <2>4. ASSUME NEW i \in noted' PROVE Barred(i)'
    <3>1. CASE i = n
      <4>1. watch' = nudged /\ intents'[i] = new /\ t # Never /\ t <= t
        BY <1>7, <2>1, <2>2, <2>4, <3>1 DEF Never
      <4>2. nudged.nudged[c] = t
        BY <1>1, <1>2
      <4> QED  BY <1>2, <1>3, <4>1, <4>2 DEF Barred, c
    <3>2. CASE i \in noted
      <4>1. intents'[i] = intents[i] /\ intents[i].at <= t /\ t # Never
        BY <1>5, <1>7, <1>8, <1>10, <2>1, <3>2 DEF Never
      <4>2. Channel[intents[i].message] \in Channels \cup {Direct}
        BY <1>5, <1>6, <3>2
      <4> QED  BY <1>2, <1>5, <1>10, <3>2, <4>1, <4>2 DEF Barred
    <3> QED  BY <2>2, <2>4, <3>1, <3>2
  <2> QED  BY <2>3, <2>4 DEF Spaced
<1> QED  BY <1>4, <1>9, <1>10
\* The books of every channel, after a message is received.
LEMMA ReceivedBooks ==
  ASSUME WatchIInv, NEW m \in Messages, NEW t \in 0..now, NEW seen \in Times, Receive(m, t, seen),
         NEW d \in Channels
  PROVE  Backlog(d)'
<1> DEFINE counted == Counted(watch, m, t, seen)
           nudged  == Nudged(counted, m, t)
           c == Channel[m]
           n == watch.count[d]
           seq == watch.recent[d]
<1>1. /\ t \in Times /\ watch \in WatchStates /\ counted \in WatchStates
      /\ watch' \in {watch, counted, nudged}
  BY ReceivedTypes, Received
<1>2. /\ n \in Nat /\ seq \in Seq(Messages) /\ Books(n, seq, unseen[d], met[d])
      /\ unseen \in [Channels -> SUBSET Messages] /\ met \in [Channels -> SUBSET Messages]
  BY <1>1 DEF WatchIInv, WatchTypeOK, WatchStates, Backlog
<1>3. CASE d # c
  <2>1. watch'.count[d] = n
    <3>1. counted.count[d] = n
      BY <1>1, <1>3, CountedState
    <3>2. nudged.count[d] = counted.count[d]
      BY <1>1, <1>3, NudgedState
    <3> HIDE DEF counted, nudged
    <3> QED  BY <1>1, <3>1, <3>2
  <2>2. watch'.recent[d] = seq
    <3>1. counted.recent[d] = seq
      BY <1>1, <1>3, CountedState
    <3>2. nudged.recent = counted.recent
      BY <1>1, NudgedState
    <3> HIDE DEF counted, nudged, seq
    <3> QED  BY <1>1, <3>1, <3>2 DEF seq
  <2>3. unseen'[d] = unseen[d] /\ met'[d] = met[d]
    BY <1>2, <1>3 DEF Receive
  <2> QED  BY <1>2, <2>1, <2>2, <2>3 DEF Backlog
<1>4. CASE d = c
  <2>1. /\ met'[d] = met[d] \cup {m}
        /\ unseen'[d] = IF watch'.count[d] < n THEN {} ELSE unseen[d] \cup {m}
    BY <1>2, <1>4 DEF Receive
  <2>2. CASE watch' = watch
    <3>1. unseen'[d] = unseen[d] \cup {m}
      BY <1>2, <2>1, <2>2
    <3>2. Books(n, seq, unseen[d] \cup {m}, met[d] \cup {m})
      BY <1>2, BooksUnwritten
    <3> QED  BY <2>1, <2>2, <3>1, <3>2 DEF Backlog
  <2>3. CASE watch' \in {counted, nudged}
    <3> DEFINE k == counted.count[d]
    <3>1. /\ k = n \/ (k = n + 1 /\ ~Has(seq, m))
          /\ counted.recent[d] = Recorded(seq, m)
      BY <1>1, <1>4, CountedState
    <3>2. /\ watch'.recent[d] = Recorded(seq, m)
          /\ watch'.count[d] \in {k, 0}
      BY <1>1, <2>3, <3>1, NudgedState
    <3> HIDE DEF k, n, seq
    <3>3. CASE watch'.count[d] = k
      <4>1. k \in Nat /\ unseen'[d] = unseen[d] \cup {m}
        BY <1>2, <2>1, <3>1, <3>3
      <4>2. Books(k, Recorded(seq, m), unseen[d] \cup {m}, met[d] \cup {m})
        BY <1>2, <3>1, <4>1, BooksWritten
      <4> QED  BY <2>1, <3>2, <3>3, <4>1, <4>2 DEF Backlog
    <3>4. CASE watch'.count[d] = 0
      <4>1. CASE 0 < n
        <5>1. Books(0, Recorded(seq, m), {}, met[d] \cup {m})
          BY <1>2, BooksWritten
        <5> QED  BY <2>1, <3>2, <3>4, <4>1, <5>1 DEF Backlog
      <4>2. CASE n = 0
        <5>1. Books(n, Recorded(seq, m), unseen[d] \cup {m}, met[d] \cup {m})
          BY <1>2, BooksWritten
        <5> QED  BY <2>1, <3>2, <3>4, <4>2, <5>1 DEF Backlog
      <4> QED  BY <1>2, <4>1, <4>2
    <3> QED  BY <3>2, <3>3, <3>4
  <2> QED  BY <1>1, <2>2, <2>3
<1> QED  BY <1>3, <1>4

-----------------------------------------------------------------------------
LEMMA WatchStep == WatchIInv /\ [WatchNext]_watchVars => WatchIInv'
<1> SUFFICES ASSUME WatchIInv, [WatchNext]_watchVars PROVE WatchIInv'
  OBVIOUS
<1>0. now \in Times /\ watch \in WatchStates
  BY DEF WatchIInv, WatchTypeOK
<1>1. ASSUME NEW m \in Messages, NEW t \in 0..now, NEW seen \in 0..now, Receive(m, t, seen)
      PROVE  WatchIInv'
  <2>1. seen \in Times
    BY <1>0, <1>1, WatchLimits DEF Times
  <2>2. /\ watch' \in WatchStates /\ noted' \subseteq DOMAIN intents'
        /\ intents' \in Seq([message : Messages, why : SUBSET Reasons, at : Times])
    BY <1>1, <2>1, ReceivedTypes
  <2>3. now' \in Times /\ received' \in 0..MaxReceived /\ lost' \in 0..MaxLost
    BY <1>1, WatchLimits DEF Receive, Loses, WatchIInv, WatchTypeOK
  <2>4. unseen' \in [Channels -> SUBSET Messages] /\ met' \in [Channels -> SUBSET Messages]
    BY <1>1 DEF Receive, WatchIInv, WatchTypeOK
  <2>5. WatchTypeOK'
    BY <2>2, <2>3, <2>4 DEF WatchTypeOK
  <2> QED  BY <1>1, <2>1, <2>5, ReceivedSpaced, ReceivedBooks DEF WatchIInv
<1>2. ASSUME NEW c \in Channels \cup {Direct}, Answer(c) PROVE WatchIInv'
  <2> DEFINE answered == [m \in Messages |-> IF Channel[m] = c THEN Never ELSE watch.pending[m]]
             count == [d \in Channels |-> IF d = c THEN 0 ELSE watch.count[d]]
  <2>1. /\ watch' = [watch EXCEPT !.pending = answered, !.count = count]
        /\ unseen' = [d \in Channels |-> IF d = c THEN {} ELSE unseen[d]]
        /\ UNCHANGED <<now, intents, received, lost, met, noted>>
    BY <1>2 DEF Answer
  <2>2. answered \in [Messages -> Times \cup {Never}] /\ count \in [Channels -> Nat]
    BY <1>0 DEF WatchStates
  <2>3. \A d \in Channels : count[d] = IF d = c THEN 0 ELSE watch.count[d]
    OBVIOUS
  <2> HIDE DEF answered, count
  <2>4. /\ watch' \in WatchStates /\ watch'.count = count /\ watch'.recent = watch.recent
        /\ watch'.global = watch.global /\ watch'.nudged = watch.nudged
    BY <1>0, <2>1, <2>2 DEF WatchStates
  <2>5. unseen' \in [Channels -> SUBSET Messages]
    BY <2>1 DEF WatchIInv, WatchTypeOK
  <2>6. WatchTypeOK'
    BY <2>1, <2>4, <2>5 DEF WatchIInv, WatchTypeOK
  <2>7. Spaced' /\ \A i \in noted' : Barred(i)'
    BY <2>1, <2>4 DEF WatchIInv, Spaced, Apart, Barred
  <2>8. ASSUME NEW d \in Channels PROVE Backlog(d)'
    <3>1. Backlog(d) /\ watch.count[d] \in Nat
      BY <1>0 DEF WatchIInv, WatchStates
    <3>2. Books(0, watch.recent[d], {}, met[d])
      BY <3>1, BooksUnwritten DEF Backlog
    <3> QED  BY <2>1, <2>3, <2>4, <3>1, <3>2 DEF Backlog
  <2> QED  BY <2>6, <2>7, <2>8 DEF WatchIInv
<1>3. CASE Tick \/ UNCHANGED watchVars
  <2>1. UNCHANGED <<watch, intents, received, lost, unseen, met, noted>> /\ now' \in Times
    BY <1>0, <1>3, WatchLimits DEF Tick, watchVars, Times
  <2> QED  BY <2>1 DEF WatchIInv, WatchTypeOK, Spaced, Apart, Barred, Backlog
<1>4. ASSUME NEW m \in Messages, NEW t \in 0..now,
             NEW seen \in IF Channel[m] = Direct THEN 0..t ELSE {0}, Receive(m, t, seen)
      PROVE  WatchIInv'
  <2>1. seen \in 0..now
    BY <1>0 DEF Times
  <2> QED  BY <1>1, <1>4, <2>1
<1> QED  BY <1>2, <1>3, <1>4 DEF WatchNext

(* A message counts once towards the backlog of a channel however often the    *)
(* request comes, and nudges keep the cooldowns apart unless the state file    *)
(* was not written (process_message, record_recent_message_id, in_cooldown).   *)
THEOREM WatchAlwaysSound == WatchSpec => []WatchInv
BY WatchInitial, WatchStep, WatchIInvImplies, PTL DEF WatchSpec
=============================================================================
