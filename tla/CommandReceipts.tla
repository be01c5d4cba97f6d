--------------------------- MODULE CommandReceipts --------------------------
(* The control plane's mutations (gjc/control.rs): a command has an            *)
(* idempotency key, is reserved as a receipt before it goes to the session's   *)
(* peer, and its receipt follows what the peer answers.  The receipts of all   *)
(* sessions are in one registry in memory; each worktree has a file, which a   *)
(* request loads into the registry first and which a change of any receipt of  *)
(* the worktree's requests overwrites with the whole registry.                 *)
(*                                                                             *)
(* A request gives up its plane when it ends, in whatever way: an error of the *)
(* transport, a lease that is stale, a deadline, or a caller that hangs up at  *)
(* an await all leave the registry as it is.  A receipt is its status; the     *)
(* code compares all fields of two receipts where the model compares statuses, *)
(* and then refuses more requests, which may end at that point anyhow.         *)
EXTENDS Integers, FiniteSets

CONSTANTS
  Keys,         \* idempotency keys
  Worktrees,    \* worktrees of the daemon's lanes
  Home,         \* per key, the worktree of the session its command is for
  Cwd,          \* the worktree the daemon was started in, if it is one of them
  Requests,     \* requests under way at a time
  Capacity,     \* MAX_COMMAND_RECEIPTS
  MaxRequests,  \* bound on the requests
  MaxFaults     \* bound on crashes and failed writes

\* What a user of the module assumes of the constants.
ReceiptConstants ==
  /\ Home \in [Keys -> Worktrees]
  /\ Capacity \in Nat \ {0}
  /\ {MaxRequests, MaxFaults} \subseteq Nat

VARIABLES
  registry,  \* the receipts in memory
  file,      \* per worktree, the receipts of its journal
  req,       \* the requests
  sent,      \* history: how often a command went to its peer since its receipt was evicted
  told,      \* history: the outcome a client was told since then
  asked,     \* how many requests there were
  faults,
  broken     \* history: worktrees where, since the start, a write failed that replaced the file

receiptVars == <<registry, file, req, sent, told, asked, faults, broken>>

-----------------------------------------------------------------------------
(* Receipts.                                                                   *)

Outcomes == {"completed", "failed"}                \* GjcCommandStatus::is_terminal
Statuses == {"accepted", "acked"} \cup Outcomes
Receipts == [Keys -> Statuses \cup {"none"}]
Empty    == [k \in Keys |-> "none"]

Known(receipts) == {k \in Keys : receipts[k] # "none"}
CanTransition(status) == status \in {"accepted", "acked"}

(* merge_loaded_receipts: a receipt that is known in memory must be the same. *)
Mergeable(loaded) ==
  /\ Cardinality(Known(registry) \cup Known(loaded)) <= Capacity
  /\ \A k \in Known(registry) \cap Known(loaded) : registry[k] = loaded[k]
Merged(loaded) == [k \in Keys |-> IF registry[k] # "none" THEN registry[k] ELSE loaded[k]]

(* What a peer may answer: it has accepted the command, and perhaps says its   *)
(* outcome already, or something that is no outcome.                           *)
Replies == {"accepted", "malformed"} \cup Outcomes

Idle == [pc |-> "idle"]
RequestStates ==
  {Idle} \cup [pc : {"load"}, key : Keys, loaded : Receipts]
         \cup [pc : {"check", "reserve", "send"}, key : Keys]
         \cup [pc : {"reply"}, key : Keys, reply : Replies]
         \cup [pc : {"finish"}, key : Keys, reply : Outcomes]

ReceiptsInit ==
  /\ registry = Empty
  /\ file = [w \in Worktrees |-> Empty]
  /\ req = [r \in Requests |-> Idle]
  /\ sent = [k \in Keys |-> 0]
  /\ told = [k \in Keys |-> "none"]
  /\ asked = 0 /\ faults = 0 /\ broken = {}

-----------------------------------------------------------------------------
(* A request.                                                                  *)

At(r, pc) == req[r].pc = pc
Goes(r, next) == req' = [req EXCEPT ![r] = next]
Step(pc, k) == [pc |-> pc, key |-> k]

(* scoped_to_worktree: the plane of the request reads the file at once... *)
Open(r, k) ==
  /\ At(r, "idle") /\ asked < MaxRequests
  /\ Goes(r, [pc |-> "load", key |-> k, loaded |-> file[Home[k]]])
  /\ asked' = asked + 1
  /\ UNCHANGED <<registry, file, sent, told, faults, broken>>

(* ...and merges it when it gets the registry's lock (initialize, or           *)
(* ensure_loaded); a reading of a session by the reconciler does the same and  *)
(* ends.  A file that does not fit the registry refuses the request.           *)
Load(r) ==
  /\ At(r, "load")
  /\ IF Mergeable(req[r].loaded)
       THEN registry' = Merged(req[r].loaded) /\ Goes(r, Step("check", req[r].key))
       ELSE registry' = registry /\ Goes(r, Idle)
  /\ UNCHANGED <<file, sent, told, asked, faults, broken>>

(* A key that is known ends the request: with the receipt when it has an       *)
(* outcome, and with a refusal while the command is in flight (End).           *)
Check(r) ==
  /\ At(r, "check") /\ registry[req[r].key] = "none"
  /\ Goes(r, Step("reserve", req[r].key))
  /\ UNCHANGED <<registry, file, sent, told, asked, faults, broken>>

(* persist, for the request r: the worktree's file becomes the registry, and   *)
(* the change counts.  A write that fails is taken back in memory, whether it  *)
(* failed before or after it replaced the file.                                *)
Persists(r, receipts) ==
  /\ registry' = receipts
  /\ file' = [file EXCEPT ![Home[req[r].key]] = receipts]
  /\ UNCHANGED <<faults, broken>>

PersistFails(r, receipts) ==
  /\ faults < MaxFaults /\ faults' = faults + 1
  /\ registry' = registry
  /\ \/ UNCHANGED <<file, broken>>
     \/ /\ file' = [file EXCEPT ![Home[req[r].key]] = receipts]
        /\ broken' = broken \cup {Home[req[r].key]}

(* Room for a new receipt: a full registry gives up one with an outcome.       *)
EvictableAny ==
  IF Cardinality(Known(registry)) < Capacity THEN {{}} ELSE {{e} : e \in Known(registry)}
Evictable ==
  IF Cardinality(Known(registry)) < Capacity THEN {{}}
  ELSE {{e} : e \in {k \in Keys : registry[k] \in Outcomes}}
Reserved(k, evicted) ==
  [j \in Keys |-> IF j = k THEN "accepted" ELSE IF j \in evicted THEN "none" ELSE registry[j]]

(* An evicted command is one never heard of, once memory or the file has lost it. *)
Forgets(evicted) ==
  LET gone == IF registry' = registry /\ file' = file THEN {} ELSE evicted
  IN /\ sent' = [k \in Keys |-> IF k \in gone THEN 0 ELSE sent[k]]
     /\ told' = [k \in Keys |-> IF k \in gone THEN "none" ELSE told[k]]

Reserve(r) ==
  /\ At(r, "reserve") /\ registry[req[r].key] = "none"
  /\ \E evicted \in Evictable :
       LET receipts == Reserved(req[r].key, evicted)
       IN /\ \/ Persists(r, receipts)     /\ Goes(r, Step("send", req[r].key))
             \/ PersistFails(r, receipts) /\ Goes(r, Idle)
          /\ Forgets(evicted)
  /\ UNCHANGED asked

(* round_trip: a control request goes out once, whatever becomes of it. *)
Send(r) ==
  /\ At(r, "send")
  /\ sent' = [sent EXCEPT ![req[r].key] = @ + 1]
  /\ \E reply \in Replies : Goes(r, [pc |-> "reply", key |-> req[r].key, reply |-> reply])
  /\ UNCHANGED <<registry, file, told, asked, faults, broken>>

(* The answer is taken: Acked, and the outcome is next if there is one. *)
Ack(r) ==
  LET k == req[r].key
      receipts == [registry EXCEPT ![k] = "acked"]
  IN /\ At(r, "reply") /\ CanTransition(registry[k])
     /\ \/ /\ Persists(r, receipts)
           /\ Goes(r, IF req[r].reply \in Outcomes THEN [req[r] EXCEPT !.pc = "finish"] ELSE Idle)
        \/ PersistFails(r, receipts) /\ Goes(r, Idle)
     /\ UNCHANGED <<sent, told, asked>>

Finish(r) ==
  LET k == req[r].key
      receipts == [registry EXCEPT ![k] = req[r].reply]
  IN /\ At(r, "finish") /\ CanTransition(registry[k])
     /\ \/ Persists(r, receipts) /\ told' = [told EXCEPT ![k] = req[r].reply]
        \/ PersistFails(r, receipts) /\ UNCHANGED told
     /\ Goes(r, Idle)
     /\ UNCHANGED <<sent, asked>>

(* The request ends and leaves the registry as it is, at any await: the key is *)
(* known, there is no room, the transport refuses, the lease is stale, the     *)
(* reply is lost or strange, or the caller hangs up.                           *)
End(r) ==
  /\ ~At(r, "idle")
  /\ Goes(r, Idle)
  /\ UNCHANGED <<registry, file, sent, told, asked, faults, broken>>

(* The daemon starts anew, with the receipts of the worktree it starts in.     *)
Restart ==
  /\ faults < MaxFaults /\ faults' = faults + 1
  /\ registry' = IF Cwd \in Worktrees THEN file[Cwd] ELSE Empty
  /\ req' = [r \in Requests |-> Idle]
  /\ broken' = {}
  /\ UNCHANGED <<file, sent, told, asked>>

ReceiptsNext ==
  \/ Restart
  \/ \E r \in Requests :
       \/ \E k \in Keys : Open(r, k)
       \/ Load(r) \/ Check(r) \/ Reserve(r) \/ Send(r) \/ Ack(r) \/ Finish(r) \/ End(r)

ReceiptsSpec == ReceiptsInit /\ [][ReceiptsNext]_receiptVars

-----------------------------------------------------------------------------
(* Properties.                                                                 *)

ReceiptsTypeOK ==
  /\ registry \in Receipts /\ file \in [Worktrees -> Receipts]
  /\ req \in [Requests -> RequestStates]
  /\ sent \in [Keys -> Nat] /\ told \in [Keys -> Outcomes \cup {"none"}]
  /\ asked \in 0..MaxRequests /\ faults \in 0..MaxFaults /\ broken \subseteq Worktrees

\* What a request has reserved and not seen to its end is its own, in memory and
\* in the worktree's file, and is not evicted under it ("entry vanished mid-flight").
Reservation(r) ==
  req[r].pc \in {"send", "reply", "finish"} =>
    LET k == req[r].key
    IN /\ registry[k] = IF At(r, "finish") THEN "acked" ELSE "accepted"
       /\ file[Home[k]][k] # "none"
       /\ \A o \in Requests \ {r} : req[o].pc \in {"send", "reply", "finish"} => req[o].key # k

\* A command that went out is on disk, so that no restart forgets it; and none
\* goes out again while its receipt is kept.
SentIsReserved ==
  \A k \in Keys : /\ sent[k] <= 1
                  /\ sent[k] = 1 => file[Home[k]][k] # "none"

ReceiptsInv ==
  /\ ReceiptsTypeOK /\ SentIsReserved
  /\ \A r \in Requests : Reservation(r)

(* While one worktree only has receipts in its file. *)
OnlyWritten(w) == \A v \in Worktrees \ {w} : file[v] = Empty

\* Over one worktree the registry is what the file says, until a write fails
\* that has replaced the file; so no request is refused for a conflict but one
\* whose reading another request has overtaken.
MemoryIsFile ==
  \A w \in Worktrees : OnlyWritten(w) /\ w \notin broken => registry \in {Empty, file[w]}

\* Over one worktree an outcome a client was told is what every later request
\* for the key finds, if it finds a receipt: a command's status only moves forward.
OnlyForward ==
  \A k \in Keys : told[k] # "none" /\ OnlyWritten(Home[k]) => registry[k] \in {"none", told[k]}

\* What clients of the control plane rely on.  Over two worktrees memory has
\* receipts a file has not, and an outcome a client was told may be outdone.
CommandsInv == ReceiptsInv /\ MemoryIsFile /\ OnlyForward
=============================================================================
