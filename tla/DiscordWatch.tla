----------------------------- MODULE DiscordWatch ----------------------------
(* The watch of Discord channels (discord_watch.rs): every message the daemon  *)
(* is told of is counted in a state file, and a nudge is written to a file of  *)
(* intents when a threshold is met and no cooldown runs.  Messages come again  *)
(* when a client repeats a request; one request at a time reads and writes the *)
(* files, but with the time at which it arrived.  An intent is written before  *)
(* the state, so that a crash or a failed write leaves the one without the     *)
(* other; an intent is written once per message and set of reasons.            *)
(*                                                                             *)
(* What of a message starts a nudge at once (its author, a keyword) is one     *)
(* attribute; banned channels are those with no messages here.                 *)
EXTENDS Integers, Sequences, FiniteSets

CONSTANTS
  Channels,          \* watched channels
  Messages,          \* messages of others than the bot
  Channel,           \* per message its channel, a watched one or Direct
  Mentions,          \* messages that mention the bot
  Urgent,            \* messages that call for a nudge by themselves
  MentionsMin,       \* pending_mentions_threshold
  MessagesMin,       \* channel_message_threshold
  Patience,          \* direct_mention_persist_ms
  GlobalCooldown, ChannelCooldown,
  MaxRecent,         \* MAX_RECENT_MESSAGE_IDS
  MaxTime,           \* bound of the clock
  MaxReceived,       \* bound on the messages received
  MaxLost            \* bound on crashes and failed writes

Direct == "direct"

ASSUME WatchConstants ==
  /\ Channel \in [Messages -> Channels \cup {Direct}]
  /\ Mentions \subseteq Messages /\ Urgent \subseteq Messages
  /\ \A m \in Mentions : Channel[m] = Direct => m \in Urgent
  /\ {MentionsMin, MessagesMin, MaxRecent} \subseteq Nat \ {0}
  /\ {Patience, GlobalCooldown, ChannelCooldown, MaxTime, MaxReceived, MaxLost} \subseteq Nat

VARIABLES
  now,        \* the clock
  watch,      \* the state file
  intents,    \* the file of intents: what each is for, why, and when
  received,   \* how many messages were received
  lost,       \* how many crashes and failed writes there were
  unseen,     \* history: per channel, messages that came since its count was reset
  met,        \* history: per channel, all messages that came
  noted       \* history: the intents whose nudge the state file got with them

watchVars == <<now, watch, intents, received, lost, unseen, met, noted>>

Never == -1
Times == 0..MaxTime
Reasons == {"urgent", "mentions", "unanswered", "backlog"}

WatchInit ==
  /\ now = 0
  /\ watch = [count   |-> [c \in Channels |-> 0],
              recent  |-> [c \in Channels |-> <<>>],
              nudged  |-> [c \in Channels \cup {Direct} |-> Never],
              global  |-> Never,
              pending |-> [m \in Messages |-> Never]]  \* first_seen_at_ms
  /\ intents = <<>> /\ received = 0 /\ lost = 0
  /\ unseen = [c \in Channels |-> {}] /\ met = [c \in Channels |-> {}] /\ noted = {}

-----------------------------------------------------------------------------
(* process_message, for a state file s and the time t.                         *)

Within(t, last, cooldown) == last # Never /\ t - last < cooldown
InCooldown(s, c, t) ==
  \/ Within(t, s.global, GlobalCooldown)
  \/ Within(t, s.nudged[c], ChannelCooldown)

Has(seq, x) == \E i \in DOMAIN seq : seq[i] = x

(* record_recent_message_id *)
Recorded(seq, m) ==
  IF Has(seq, m) THEN seq
  ELSE IF Len(seq) < MaxRecent THEN Append(seq, m) ELSE Append(Tail(seq), m)

CountsAgain(s, m, t) == ~InCooldown(s, Channel[m], t)
Counts(s, m, t) == ~InCooldown(s, Channel[m], t) /\ ~Has(s.recent[Channel[m]], m)

(* The message is counted in a watched channel, and its mention is pending.    *)
Counted(s, m, t, seen) ==
  LET c == Channel[m]
  IN [s EXCEPT
       !.count   = IF c \in Channels /\ Counts(s, m, t) THEN [s.count EXCEPT ![c] = @ + 1] ELSE @,
       !.recent  = IF c \in Channels THEN [s.recent EXCEPT ![c] = Recorded(@, m)] ELSE @,
       !.pending = IF m \in Mentions /\ @[m] = Never THEN [s.pending EXCEPT ![m] = seen] ELSE @]

Pending(s) == {m \in Messages : s.pending[m] # Never}
Why(s, m, t) ==
  {r \in Reasons :
     CASE r = "urgent"     -> m \in Urgent
       [] r = "mentions"   -> Cardinality({p \in Pending(s) : Channel[p] \in Channels}) >= MentionsMin
       [] r = "unanswered" -> \E p \in Pending(s) : Channel[p] = Direct /\ t - s.pending[p] >= Patience
       [] r = "backlog"    -> Channel[m] \in Channels /\ s.count[Channel[m]] >= MessagesMin}

Nudges(s, m, t) == Why(s, m, t) # {} /\ ~InCooldown(s, Channel[m], t)

Nudged(s, m, t) ==
  [s EXCEPT !.global = t,
            !.nudged = [s.nudged EXCEPT ![Channel[m]] = t],
            !.count  = IF "backlog" \in Why(s, m, t) THEN [s.count EXCEPT ![Channel[m]] = 0] ELSE @]

(* A message is looked at: in a watched channel, or a direct one that calls   *)
(* for a nudge by itself.                                                     *)
Relevant(m) == Channel[m] \in Channels \/ m \in Urgent

(* append_intent: an intent is the message and the reasons, and is written once. *)
Written(m, why, t) ==
  IF \E i \in DOMAIN intents : intents[i].message = m /\ intents[i].why = why THEN intents
  ELSE Append(intents, [message |-> m, why |-> why, at |-> t])

-----------------------------------------------------------------------------

Loses == lost < MaxLost /\ lost' = lost + 1

(* handle_local_intent_event *)
Receive(m, t, seen) ==
  LET counted == Counted(watch, m, t, seen)
      nudges  == Nudges(counted, m, t)
      written == IF nudges THEN Written(m, Why(counted, m, t), t) ELSE intents
      next    == IF nudges THEN Nudged(counted, m, t) ELSE counted
      c == Channel[m]
  IN /\ received < MaxReceived /\ received' = received + 1
     /\ Relevant(m)
     /\ \/ intents' = written /\ watch' = next /\ UNCHANGED lost
        \* the state is not written, or nothing is
        \/ intents' = written /\ watch' = watch /\ Loses
        \/ nudges /\ UNCHANGED <<intents, watch>> /\ Loses
     /\ noted' = IF intents' # intents /\ watch' # watch THEN noted \cup {Len(intents')} ELSE noted
     /\ IF c \in Channels
          THEN /\ met' = [met EXCEPT ![c] = @ \cup {m}]
               /\ unseen' = [unseen EXCEPT ![c] = IF watch'.count[c] < watch.count[c] THEN {} ELSE @ \cup {m}]
          ELSE UNCHANGED <<met, unseen>>
     /\ UNCHANGED now

(* The bot writes in a channel: nothing there is unanswered. *)
Answer(c) ==
  LET answered == [m \in Messages |-> IF Channel[m] = c THEN Never ELSE watch.pending[m]]
  IN /\ watch' = [watch EXCEPT !.pending = answered,
                               !.count = [d \in Channels |-> IF d = c THEN 0 ELSE @[d]]]
     /\ unseen' = [d \in Channels |-> IF d = c THEN {} ELSE unseen[d]]
     /\ UNCHANGED <<now, intents, received, lost, met, noted>>

Tick == now < MaxTime /\ now' = now + 1 /\ UNCHANGED <<watch, intents, received, lost, unseen, met, noted>>

WatchNext ==
  \/ Tick
  \* the age of a mention matters for a direct one
  \/ \E m \in Messages, t \in 0..now :
       \E seen \in IF Channel[m] = Direct THEN 0..t ELSE {0} : Receive(m, t, seen)
  \/ \E c \in Channels \cup {Direct} : Answer(c)

WatchSpec == WatchInit /\ [][WatchNext]_watchVars

-----------------------------------------------------------------------------
(* Properties.                                                                 *)

WatchStates ==
  [count : [Channels -> Nat], recent : [Channels -> Seq(Messages)],
   nudged : [Channels \cup {Direct} -> Times \cup {Never}],
   global : Times \cup {Never}, pending : [Messages -> Times \cup {Never}]]
WatchTypeOK ==
  /\ now \in Times /\ received \in 0..MaxReceived /\ lost \in 0..MaxLost /\ noted \subseteq DOMAIN intents
  /\ watch \in WatchStates
  /\ intents \in Seq([message : Messages, why : SUBSET Reasons, at : Times])
  /\ unseen \in [Channels -> SUBSET Messages] /\ met \in [Channels -> SUBSET Messages]

\* A message counts once towards the backlog, however often it comes, while the
\* ids of a channel are all remembered.
CountTrue ==
  \A c \in Channels :
    Cardinality(met[c]) <= MaxRecent => watch.count[c] <= Cardinality(unseen[c])

\* Intents keep the cooldowns apart, whatever the order in which the requests get
\* the lock; only an intent whose nudge never reached the state file is no bar.
Apart(i, j) ==
  /\ intents[j].at - intents[i].at >= GlobalCooldown
  /\ Channel[intents[i].message] = Channel[intents[j].message] =>
       intents[j].at - intents[i].at >= ChannelCooldown
Spaced == \A i \in noted : \A j \in DOMAIN intents : i < j => Apart(i, j)

WatchInv == WatchTypeOK /\ CountTrue /\ Spaced
=============================================================================
