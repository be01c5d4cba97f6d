--------------------------- MODULE DiscordDelivery ---------------------------
(***************************************************************************)
(* How a Discord target is sent to: DiscordClient::send (src/discord.rs)   *)
(* with the circuit breaker and the token bucket it keeps for every target *)
(* (src/core/circuit_breaker.rs, src/core/rate_limit.rs).                  *)
(*                                                                         *)
(* The dispatcher awaits each send, so at most one call is under way, for  *)
(* one target.  A call is admitted by the breaker once, then makes up to   *)
(* MaxAttempts POSTs: before each it takes a token or sleeps, and after a  *)
(* 429 that says when to retry it sleeps again.  Time is relative: every   *)
(* duration is what is left of it, so no clock has to be bounded.  A tick  *)
(* is a fraction of the time a token takes.                                *)
(***************************************************************************)
EXTENDS Integers

CONSTANTS
  Keys,         \* the targets (target_rate_limit_key)
  MaxAttempts,  \* MAX_ATTEMPTS, 3
  Threshold,    \* CIRCUIT_FAILURE_THRESHOLD, 3
  Cooldown,     \* CIRCUIT_COOLDOWN_SECS, in ticks
  Capacity,     \* RATE_LIMIT_CAPACITY, in tokens
  TokenTicks,   \* the ticks in which the bucket gains a token
  RetryWaits,   \* the sleeps a 429 may ask for, jitter included
  Window        \* how far back the history of POSTs goes, in ticks

ASSUME DeliveryAssumption ==
  /\ {MaxAttempts, Threshold, Cooldown, Capacity, TokenTicks} \subseteq Nat \ {0}
  /\ RetryWaits \subseteq Nat
  /\ Window \in Nat

VARIABLES
  circuit,  \* circuit[k]: "closed", "open" or "half-open"
  failures, \* failures[k]: consecutive_failures of the breaker
  cool,     \* cool[k]: what is left of the cooldown of an open circuit
  tokens,   \* tokens[k]: the bucket's content, in ticks
  call,     \* the send under way, with what is left of its sleep
  healed,   \* the targets have come back for good
  trail,    \* history: POSTs of k that failed since the last that did not
  recent,   \* history: recent[k][a], the POSTs of k in the last a ticks
  beyond    \* history: POSTs of k during the cooldown of its circuit

breakers == <<circuit, failures, cool>>
history == <<trail, recent, beyond>>
vars == <<breakers, tokens, call, healed, history>>

Full == Capacity * TokenTicks
Idle == [phase |-> "idle"]
Sleeping(k, attempt, left) ==
  [phase |-> "sleeping", key |-> k, attempt |-> attempt, left |-> left]
Backoff(k, attempt, left) ==
  [phase |-> "backoff", key |-> k, attempt |-> attempt, left |-> left]
Posting(k, attempt) == [phase |-> "posting", key |-> k, attempt |-> attempt]

Init ==
  /\ circuit = [k \in Keys |-> "closed"]
  /\ failures = [k \in Keys |-> 0]
  /\ cool = [k \in Keys |-> 0]
  /\ tokens = [k \in Keys |-> Full]
  /\ call = Idle
  /\ healed = FALSE
  /\ trail = [k \in Keys |-> 0]
  /\ recent = [k \in Keys |-> [a \in 0..Window |-> 0]]
  /\ beyond = [k \in Keys |-> 0]

-----------------------------------------------------------------------------
(* The token bucket: a caller that finds too little empties the bucket and *)
(* is told how long the rest takes; nothing is reserved for it.            *)
DelayOfRest(k) == IF tokens[k] >= TokenTicks THEN 0 ELSE tokens[k]
Delay(k) == IF tokens[k] >= TokenTicks THEN 0 ELSE TokenTicks - tokens[k]
Left(k) == IF tokens[k] >= TokenTicks THEN tokens[k] - TokenTicks ELSE 0

(* Attempt a of the call for k: the rate limit, and the sleep it asks for. *)
Attempt(k, a) ==
  /\ tokens' = [tokens EXCEPT ![k] = Left(k)]
  /\ call' = Sleeping(k, a, Delay(k))

(* What an admitted or refused request does to the breaker.  A refused one *)
(* is buried as a dead letter and the call returns its error.              *)
Allows(k) == circuit[k] # "open" \/ cool[k] = 0

RefusedRearmed(k) == cool' = [cool EXCEPT ![k] = Cooldown]
Refused(k) == UNCHANGED cool

Admit(k) ==
  /\ call = Idle
  /\ Allows(k)
  /\ circuit' = [circuit EXCEPT ![k] = IF @ = "open" THEN "half-open" ELSE @]
  /\ Attempt(k, 1)
  /\ UNCHANGED <<failures, cool, healed, history>>

Refuse(k) ==
  /\ call = Idle
  /\ ~Allows(k)
  /\ Refused(k)
  /\ UNCHANGED <<circuit, failures, tokens, call, healed, history>>

-----------------------------------------------------------------------------
(* The sleep for the rate limit is over and the POST goes out.             *)
Post ==
  /\ call.phase = "sleeping"
  /\ call.left = 0
  /\ LET k == call.key IN
       /\ call' = Posting(k, call.attempt)
       /\ recent' = [recent EXCEPT ![k] = [a \in 0..Window |-> recent[k][a] + 1]]
       /\ beyond' = [beyond EXCEPT ![k] = IF cool[k] > 0 THEN @ + 1 ELSE @]
  /\ UNCHANGED <<breakers, tokens, healed, trail>>

(* record_success closes the circuit from any state; record_failure counts *)
(* while it is closed, opens it again from half-open, and does nothing     *)
(* while it is open.                                                       *)
Success(k) ==
  /\ failures' = [failures EXCEPT ![k] = 0]
  /\ circuit' = [circuit EXCEPT ![k] = "closed"]

OpensLate(k) == circuit[k] = "half-open"
                  \/ (circuit[k] = "closed" /\ failures[k] >= Threshold)
Opens(k) == circuit[k] = "half-open"
              \/ (circuit[k] = "closed" /\ failures[k] + 1 >= Threshold)
Failure(k) ==
  /\ failures' = [failures EXCEPT ![k] = IF circuit[k] = "closed" THEN @ + 1 ELSE @]
  /\ circuit' = [circuit EXCEPT ![k] = IF Opens(k) THEN "open" ELSE @]
  /\ cool' = [cool EXCEPT ![k] = IF Opens(k) THEN Cooldown ELSE @]

Delivered ==
  /\ call.phase = "posting"
  /\ LET k == call.key IN
       /\ Success(k)
       /\ cool' = [cool EXCEPT ![k] = 0]
       /\ trail' = [trail EXCEPT ![k] = 0]
       /\ beyond' = [beyond EXCEPT ![k] = 0]
  /\ call' = Idle
  /\ UNCHANGED <<tokens, healed, recent>>

Failed(k) ==
  /\ call.phase = "posting"
  /\ call.key = k
  /\ ~healed
  /\ Failure(k)
  /\ trail' = [trail EXCEPT ![k] = IF @ < Threshold THEN @ + 1 ELSE @]
  /\ beyond' = [beyond EXCEPT ![k] = IF Opens(k) THEN 0 ELSE @]
  /\ UNCHANGED <<tokens, healed, recent>>

(* A 429 with a time, and an attempt left: the call sleeps and tries again *)
(* without asking the breaker.  Anything else ends in a dead letter.       *)
Limited ==
  \E k \in Keys, w \in RetryWaits :
    /\ Failed(k)
    /\ call.attempt < MaxAttempts
    /\ call' = Backoff(k, call.attempt, w)

GivenUp ==
  \E k \in Keys :
    /\ Failed(k)
    /\ call' = Idle

Retry ==
  /\ call.phase = "backoff"
  /\ call.left = 0
  /\ Attempt(call.key, call.attempt + 1)
  /\ UNCHANGED <<breakers, healed, history>>

-----------------------------------------------------------------------------
(* The targets stop failing, for good.                                     *)
Heal == healed' = TRUE /\ UNCHANGED <<breakers, tokens, call, history>>

Elapsed ==
  IF call.phase = "sleeping" /\ call.left > 0
  THEN Sleeping(call.key, call.attempt, call.left - 1)
  ELSE IF call.phase = "backoff" /\ call.left > 0
       THEN Backoff(call.key, call.attempt, call.left - 1)
       ELSE call

(* Time passes, whatever is under way: a sleep may last longer than asked. *)
Tick ==
  /\ cool' = [k \in Keys |-> IF cool[k] > 0 THEN cool[k] - 1 ELSE 0]
  /\ tokens' = [k \in Keys |-> IF tokens[k] < Full THEN tokens[k] + 1 ELSE Full]
  /\ recent' = [k \in Keys |->
                 [a \in 0..Window |-> IF a = 0 THEN 0 ELSE recent[k][a - 1]]]
  /\ call' = Elapsed
  /\ UNCHANGED <<circuit, failures, healed, trail, beyond>>

Next ==
  \/ \E k \in Keys : Admit(k) \/ Refuse(k)
  \/ Post
  \/ Delivered
  \/ Limited
  \/ GivenUp
  \/ Retry
  \/ Heal
  \/ Tick

Spec == Init /\ [][Next]_vars

(* Time goes on: the one thing a circuit needs to be tried again.          *)
FairSpec == Spec /\ WF_vars(Tick)

-----------------------------------------------------------------------------
(* The types of the variables; POSTs, failures and tokens within bounds.   *)
Calls ==
  {Idle}
    \cup [phase : {"sleeping"}, key : Keys, attempt : 1..MaxAttempts, left : 0..TokenTicks]
    \cup [phase : {"backoff"}, key : Keys, attempt : 1..MaxAttempts, left : Nat]
    \cup [phase : {"posting"}, key : Keys, attempt : 1..MaxAttempts]

TypeOK ==
  /\ circuit \in [Keys -> {"closed", "open", "half-open"}]
  /\ failures \in [Keys -> 0..Threshold]
  /\ cool \in [Keys -> 0..Cooldown]
  /\ tokens \in [Keys -> 0..Full]
  /\ call \in Calls
  /\ healed \in BOOLEAN
  /\ trail \in [Keys -> 0..Threshold]
  /\ recent \in [Keys -> [0..Window -> Nat]]
  /\ beyond \in [Keys -> Nat]

(* The breaker tells what the target did: its circuit is closed exactly    *)
(* while fewer than Threshold POSTs in a row have failed, whatever the     *)
(* calls they belonged to, the refusals and the probes in between.         *)
ClosedIffAnswering ==
  \A k \in Keys : circuit[k] = "closed" <=> trail[k] < Threshold

(* An open circuit protects the target: it gets at most the retries of the *)
(* call that opened it, and nothing else before the cooldown is over.      *)
OpenSpares == \A k \in Keys : beyond[k] < MaxAttempts
BreakerSound == ClosedIffAnswering /\ OpenSpares

(* What the token bucket promises to a target: over a span of ticks no     *)
(* more POSTs than it holds at once and twice what it gains.  Twice,       *)
(* because the caller that sleeps for its token does not take it: the      *)
(* token is there for the next one.                                        *)
RateBounded ==
  \A k \in Keys, a \in 0..Window :
    recent[k][a] <= Capacity + (2 * a) \div TokenTicks + 1
DeliveryInv == TypeOK /\ RateBounded

(* Once the targets answer, every circuit is or comes to be one that lets  *)
(* calls through, and stays so: refusals do not prolong a cooldown.        *)
Recovers == <>[](healed => \A k \in Keys : Allows(k))

=============================================================================
