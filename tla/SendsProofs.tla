----------------------------- MODULE SendsProofs -----------------------------
(***************************************************************************)
(* What the daemon says to the outside and must not say too often: the     *)
(* POSTs to Discord and the jobs of the scheduler.                         *)
(*                                                                         *)
(* For any number of targets and any limits the circuit of a target is     *)
(* closed exactly while fewer than Threshold POSTs in a row have failed,   *)
(* an open circuit lets at most the retries of one call through, and the   *)
(* token bucket bounds the POSTs of every span of time.                    *)
(*                                                                         *)
(* For any jobs, schedules and receipts, and any number of crashes, lost   *)
(* writes and steps back of the clock, the scheduler's file claims no      *)
(* minute that was not processed, a minute is repeated once at most for    *)
(* each of those faults, and a job is withheld only while what it would    *)
(* say has been said.                                                      *)
(***************************************************************************)
EXTENDS DiscordDelivery, CronScheduler, TLAPS

(* The parts of the state the two proofs are about.                        *)
Typed ==
  /\ circuit \in [Keys -> {"closed", "open", "half-open"}]
  /\ failures \in [Keys -> Nat]
  /\ cool \in [Keys -> 0..Cooldown]
  /\ trail \in [Keys -> 0..Threshold]
  /\ beyond \in [Keys -> Nat]
  /\ tokens \in [Keys -> 0..Full]
  /\ call \in Calls

(* While it is closed the breaker's count is the target's; otherwise the   *)
(* target has failed often enough, and a cooldown runs only while open.    *)
Counted ==
  \A k \in Keys :
    /\ circuit[k] = "closed" => failures[k] = trail[k] /\ trail[k] < Threshold
    /\ circuit[k] # "closed" => trail[k] = Threshold
    /\ cool[k] > 0 => circuit[k] = "open"

(* POSTs of the call under way that its own circuit can have seen.         *)
Seen == IF call.phase = "sleeping" THEN call.attempt - 1 ELSE call.attempt

(* A call that meets a cooldown started it, with a POST of its own: the    *)
(* POSTs after that one are fewer than the ones it has made.               *)
Spared ==
  /\ \A k \in Keys : beyond[k] < MaxAttempts
  /\ call # Idle /\ cool[call.key] > 0 => beyond[call.key] < Seen
  /\ call.phase = "backoff" => call.attempt < MaxAttempts

IInv == Typed /\ Counted /\ Spared

LEMMA Limits ==
  /\ MaxAttempts \in Nat \ {0} /\ Threshold \in Nat \ {0} /\ Cooldown \in Nat \ {0}
  /\ Capacity \in Nat \ {0} /\ TokenTicks \in Nat \ {0} /\ Full \in Nat
  /\ RetryWaits \subseteq Nat /\ Window \in Nat
<1>1. Capacity \in Nat \ {0} /\ TokenTicks \in Nat \ {0}
  BY DeliveryAssumption
<1>2. Capacity * TokenTicks \in Nat
  BY <1>1
<1> QED
  BY <1>1, <1>2, DeliveryAssumption DEF Full

LEMMA InitIInv == Init => IInv
<1> SUFFICES ASSUME Init PROVE IInv
  OBVIOUS
<1> USE Limits DEF Init
<1>1. Typed
  <2>1. tokens \in [Keys -> 0..Full] /\ call \in Calls
    BY DEF Calls
  <2> QED
    BY <2>1 DEF Typed
<1>2. Counted
  <2> SUFFICES ASSUME NEW k \in Keys
               PROVE  /\ circuit[k] = "closed" => failures[k] = trail[k] /\ trail[k] < Threshold
                      /\ circuit[k] # "closed" => trail[k] = Threshold
                      /\ cool[k] > 0 => circuit[k] = "open"
    BY DEF Counted
  <2>1. circuit[k] = "closed" /\ failures[k] = 0 /\ trail[k] = 0 /\ cool[k] = 0
    OBVIOUS
  <2>2. 0 < Threshold /\ ~(0 > 0)
    OBVIOUS
  <2> QED
    BY <2>1, <2>2
<1>3. Spared
  BY DEF Spared, Idle
<1> QED
  BY <1>1, <1>2, <1>3 DEF IInv

(* A target's POST that failed: what it leaves of the three parts.         *)
LEMMA FailedKeeps ==
  ASSUME IInv, NEW k \in Keys, Failed(k)
  PROVE  /\ failures' \in [Keys -> Nat]
         /\ circuit' \in [Keys -> {"closed", "open", "half-open"}]
         /\ cool' \in [Keys -> 0..Cooldown]
         /\ trail' \in [Keys -> 0..Threshold]
         /\ beyond' \in [Keys -> Nat]
         /\ Counted'
         /\ \A j \in Keys : beyond'[j] < MaxAttempts
         /\ cool'[k] > 0 => beyond'[k] < call.attempt
<1> USE DeliveryAssumption DEF IInv, Failed, Failure, Opens
<1>1. /\ failures' \in [Keys -> Nat]
      /\ circuit' \in [Keys -> {"closed", "open", "half-open"}]
      /\ cool' \in [Keys -> 0..Cooldown]
      /\ trail' \in [Keys -> 0..Threshold]
      /\ beyond' \in [Keys -> Nat]
  BY DEF Typed
<1>2. Counted'
  <2> SUFFICES ASSUME NEW j \in Keys
               PROVE  /\ circuit'[j] = "closed" => failures'[j] = trail'[j] /\ trail'[j] < Threshold
                      /\ circuit'[j] # "closed" => trail'[j] = Threshold
                      /\ cool'[j] > 0 => circuit'[j] = "open"
    BY DEF Counted
  <2>1. CASE j # k
    BY <2>1 DEF Typed, Counted
  <2>2. CASE j = k
    BY <2>2 DEF Typed, Counted
  <2> QED
    BY <2>1, <2>2
<1>3. \A j \in Keys : beyond'[j] < MaxAttempts
  BY DEF Typed, Spared
<1>4. call.attempt \in 1..MaxAttempts
  BY DEF Typed, Calls, Idle
<1>5. cool'[k] > 0 => beyond'[k] < call.attempt
  BY <1>4 DEF Typed, Spared, Seen, Idle
<1> QED
  BY <1>1, <1>2, <1>3, <1>5

LEMMA NextIInv == IInv /\ [Next]_vars => IInv'
<1> SUFFICES ASSUME IInv, [Next]_vars PROVE IInv'
  OBVIOUS
<1> USE DeliveryAssumption DEF IInv
<1>1. ASSUME NEW k \in Keys, Admit(k) PROVE IInv'
  <2> USE <1>1 DEF Admit, Attempt, history
  <2>1. Delay(k) \in 0..TokenTicks /\ Left(k) \in 0..Full
    BY DEF Typed, Delay, Left, Full
  <2>2. Typed'
    <3>1. call' \in Calls
      BY <2>1 DEF Calls, Sleeping
    <3>2. circuit' \in [Keys -> {"closed", "open", "half-open"}]
      BY DEF Typed
    <3>3. tokens' \in [Keys -> 0..Full]
      BY <2>1 DEF Typed
    <3> QED
      BY <3>1, <3>2, <3>3 DEF Typed
  <2>3. cool[k] = 0
    BY DEF Allows, Counted, Typed
  <2>4. Counted'
    BY <2>3 DEF Counted, Typed
  <2>5. Spared'
    BY <2>3 DEF Spared, Sleeping
  <2> QED
    BY <2>2, <2>4, <2>5
<1>2. ASSUME NEW k \in Keys, Refuse(k) PROVE IInv'
  BY <1>2 DEF Refuse, Refused, history, Typed, Counted, Spared, Seen
<1>3. CASE Post
  <2>1. PICK k \in Keys : k = call.key
    BY <1>3 DEF Post, Typed, Calls, Idle
  <2>2. call.attempt \in 1..MaxAttempts
    BY <1>3 DEF Post, Typed, Calls, Idle
  <2>3. /\ call.phase = "sleeping" /\ call # Idle
        /\ call' = Posting(k, call.attempt)
        /\ UNCHANGED <<circuit, failures, cool, tokens, trail>>
    BY <1>3, <2>1 DEF Post, Idle, breakers
  <2>4. beyond' = [beyond EXCEPT ![k] = IF cool[k] > 0 THEN @ + 1 ELSE @]
    BY <1>3, <2>1 DEF Post
  <2>5. call' \in Calls
    BY <2>2, <2>3 DEF Posting, Calls
  <2>6. beyond' \in [Keys -> Nat]
    <3>1. CASE cool[k] > 0
      BY <2>4, <3>1 DEF Typed
    <3>2. CASE ~(cool[k] > 0)
      BY <2>4, <3>2 DEF Typed
    <3> QED
      BY <3>1, <3>2
  <2>7. cool[k] > 0 => beyond[k] < call.attempt - 1
    <3>1. call.phase = "sleeping" /\ call # Idle
      BY <2>3
    <3>2. cool[call.key] > 0 => beyond[call.key] < Seen
      BY <3>1 DEF Spared
    <3>3. Seen = call.attempt - 1
      BY <3>1 DEF Seen
    <3> QED
      BY <2>1, <3>2, <3>3
  <2>8. Spared'
    <3>1. \A j \in Keys : beyond'[j] < MaxAttempts
      <4> SUFFICES ASSUME NEW j \in Keys PROVE beyond'[j] < MaxAttempts
        OBVIOUS
      <4>1. CASE j = k
        <5>1. cool[k] \in Nat /\ beyond[k] \in Nat
          BY DEF Typed
        <5>2. beyond'[k] = IF cool[k] > 0 THEN beyond[k] + 1 ELSE beyond[k]
          BY <2>4 DEF Typed
        <5> QED
          BY <2>2, <2>7, <4>1, <5>1, <5>2 DEF Spared
      <4>2. CASE j # k
        BY <2>4, <4>2 DEF Spared, Typed
      <4> QED
        BY <4>1, <4>2
    <3>2. cool[k] > 0 => beyond'[k] < call.attempt
      BY <2>2, <2>4, <2>7 DEF Typed
    <3> QED
      BY <2>3, <3>1, <3>2 DEF Spared, Seen, Posting
  <2> QED
    BY <2>3, <2>5, <2>6, <2>8 DEF Typed, Counted
<1>4. CASE Delivered
  <2> USE <1>4 DEF Delivered, Success
  <2>1. PICK k \in Keys : k = call.key
    BY DEF Typed, Calls, Idle
  <2>2. Typed'
    BY <2>1 DEF Typed, Calls
  <2>3. Counted'
    BY <2>1 DEF Typed, Counted
  <2>4. Spared'
    BY <2>1 DEF Typed, Spared, Idle
  <2> QED
    BY <2>2, <2>3, <2>4
<1>5. CASE Limited
  <2>1. PICK k \in Keys, w \in RetryWaits :
          /\ Failed(k)
          /\ call.attempt < MaxAttempts
          /\ call' = Backoff(k, call.attempt, w)
    BY <1>5 DEF Limited
  <2>2. call.attempt \in 1..MaxAttempts /\ w \in Nat /\ call.key = k
    BY <2>1 DEF Typed, Calls, Idle, Failed
  <2>3. call' \in Calls
    BY <2>1, <2>2 DEF Calls, Backoff
  <2>4. tokens' \in [Keys -> 0..Full]
    BY <2>1 DEF Failed, Typed
  <2>5. Typed' /\ Counted'
    BY <2>1, <2>3, <2>4, FailedKeeps DEF Typed
  <2>6. Spared'
    BY <2>1, FailedKeeps DEF Spared, Seen, Backoff
  <2> QED
    BY <2>5, <2>6
<1>6. CASE GivenUp
  <2>1. PICK k \in Keys : Failed(k) /\ call' = Idle
    BY <1>6 DEF GivenUp
  <2>2. call' \in Calls
    BY <2>1 DEF Calls
  <2>3. tokens' \in [Keys -> 0..Full]
    BY <2>1 DEF Failed, Typed
  <2>4. Typed' /\ Counted'
    BY <2>1, <2>2, <2>3, FailedKeeps DEF Typed
  <2>5. Spared'
    BY <2>1, FailedKeeps DEF Spared, Idle
  <2> QED
    BY <2>4, <2>5
<1>7. CASE Retry
  <2> USE <1>7 DEF Retry, Attempt, breakers, history
  <2>1. PICK k \in Keys : k = call.key
    BY DEF Typed, Calls, Idle
  <2>2. call.attempt \in 1..MaxAttempts /\ call.attempt < MaxAttempts
    BY DEF Typed, Calls, Idle, Spared
  <2>3. Delay(k) \in 0..TokenTicks /\ Left(k) \in 0..Full
    BY DEF Typed, Delay, Left, Full
  <2>4. call' = Sleeping(k, call.attempt + 1, Delay(k)) /\ call # Idle
    BY <2>1 DEF Idle
  <2>5. call' \in Calls
    BY <2>2, <2>3, <2>4 DEF Calls, Sleeping
  <2>6. tokens' \in [Keys -> 0..Full]
    BY <2>1, <2>3 DEF Typed
  <2>7. Spared'
    BY <2>1, <2>2, <2>4 DEF Spared, Seen, Sleeping
  <2> QED
    BY <2>5, <2>6, <2>7 DEF Typed, Counted
<1>8. CASE Heal
  BY <1>8 DEF Heal, breakers, history, Typed, Counted, Spared, Seen
<1>9. CASE Tick
  <2> USE <1>9 DEF Tick
  <2>1. cool' \in [Keys -> 0..Cooldown] /\ tokens' \in [Keys -> 0..Full]
    <3>1. cool' = [k \in Keys |-> IF cool[k] > 0 THEN cool[k] - 1 ELSE 0]
      OBVIOUS
    <3>2. tokens' = [k \in Keys |-> IF tokens[k] < Full THEN tokens[k] + 1 ELSE Full]
      OBVIOUS
    <3> HIDE <1>9
    <3>3. cool' \in [Keys -> 0..Cooldown]
      BY <3>1, Limits DEF Typed
    <3>4. tokens' \in [Keys -> 0..Full]
      BY <3>2, Limits DEF Typed
    <3> QED
      BY <3>3, <3>4
  <2>2. \A k \in Keys : cool'[k] > 0 => cool[k] > 0
    BY DEF Typed
  <2>3. call' \in Calls /\ call'.phase = call.phase
        /\ (call # Idle => /\ call'.key = call.key /\ call' # Idle
                           /\ call'.attempt = call.attempt)
        /\ (call = Idle => call' = Idle)
    <3>1. CASE call = Idle
      BY <3>1 DEF Idle, Typed, Elapsed
    <3>2. CASE call.phase = "posting"
      BY <3>2 DEF Typed, Idle, Elapsed
    <3>3. CASE call.phase = "sleeping"
      <4>1. /\ call \in [phase : {"sleeping"}, key : Keys, attempt : 1..MaxAttempts, left : 0..TokenTicks]
            /\ call # Idle
        BY <3>3 DEF Typed, Calls, Idle
      <4>2. call' = call \/ (call.left > 0 /\ call' = Sleeping(call.key, call.attempt, call.left - 1))
        BY <3>3 DEF Elapsed
      <4> QED
        BY <3>3, <4>1, <4>2 DEF Calls, Idle, Sleeping
    <3>4. CASE call.phase = "backoff"
      <4>1. /\ call \in [phase : {"backoff"}, key : Keys, attempt : 1..MaxAttempts, left : Nat]
            /\ call # Idle
        BY <3>4 DEF Typed, Calls, Idle
      <4>2. call' = call \/ (call.left > 0 /\ call' = Backoff(call.key, call.attempt, call.left - 1))
        BY <3>4 DEF Elapsed
      <4> QED
        BY <3>4, <4>1, <4>2 DEF Calls, Idle, Backoff
    <3> QED
      BY <3>1, <3>2, <3>3, <3>4 DEF Typed, Calls
  <2>4. Typed'
    BY <2>1, <2>3 DEF Typed
  <2>5. Counted'
    BY <2>2 DEF Counted
  <2>6. call # Idle => call.key \in Keys
    BY DEF Typed, Calls
  <2>7. Spared'
    <3>1. call' # Idle /\ cool'[call'.key] > 0 => beyond'[call'.key] < Seen'
      BY <2>2, <2>3, <2>6 DEF Spared, Seen
    <3>2. call'.phase = "backoff" => call'.attempt < MaxAttempts
      BY <2>3 DEF Spared, Idle
    <3> QED
      BY <3>1, <3>2 DEF Spared
  <2> QED
    BY <2>4, <2>5, <2>7
<1>10. CASE UNCHANGED vars
  BY <1>10 DEF vars, breakers, history, Typed, Counted, Spared, Seen
<1> QED
  BY <1>1, <1>2, <1>3, <1>4, <1>5, <1>6, <1>7, <1>8, <1>9, <1>10 DEF Next

LEMMA IInvImplies == IInv => BreakerSound
BY DeliveryAssumption
   DEF IInv, Typed, Counted, Spared, BreakerSound, ClosedIffAnswering, OpenSpares

(* The circuit is closed exactly while the target answers often enough, and *)
(* during a cooldown a target gets fewer POSTs than a call has attempts     *)
(* (record_success, record_failure, allow_request, and the retries of       *)
(* DiscordClient::send).                                                    *)
THEOREM CircuitSparesTarget == Spec => []BreakerSound
<1> QED
  BY IInvImplies, InitIInv, NextIInv, PTL DEF Spec

-----------------------------------------------------------------------------
(* What the call under way has paid for its next POST: the token, or what  *)
(* was left of it and the ticks it has slept since.                        *)
Paid(k) ==
  IF call.phase = "sleeping"
  THEN IF call.key = k THEN TokenTicks - call.left ELSE 0
  ELSE 0

(* Every POST of a span has been paid for: from what the bucket held, from  *)
(* what it gained, from what a caller slept, or before the span began.      *)
Paced ==
  \A k \in Keys, a \in 0..Window :
    TokenTicks * recent[k][a] + tokens[k] + Paid(k) <= Full + 2 * a + TokenTicks

PacedInv ==
  /\ failures \in [Keys -> 0..Threshold]
  /\ healed \in BOOLEAN
  /\ recent \in [Keys -> [0..Window -> Nat]]
  /\ Paced

(* What has been paid is a token at most.                                  *)
LEMMA PaidBounds ==
  ASSUME Typed
  PROVE  \A k \in Keys : Paid(k) \in 0..TokenTicks
<1>1. CASE call.phase = "sleeping"
  <2>1. call.left \in 0..TokenTicks
    BY <1>1 DEF Typed, Calls, Idle
  <2> QED
    BY <1>1, <2>1, Limits DEF Paid
<1>2. CASE call.phase # "sleeping"
  BY <1>2, Limits DEF Paid
<1> QED
  BY <1>1, <1>2

(* The bound of a span, in numbers: how far a step may move its terms.     *)
LEMMA Spend ==
  ASSUME NEW t \in Nat, NEW n \in Nat, NEW u \in Nat, NEW p \in Nat, NEW b \in Nat,
         t * n + u + p <= b
  PROVE  /\ t * n \in Nat
         /\ \A v, q \in Nat : v + q <= u + p => t * n + v + q <= b
         /\ \A v \in Nat : p = t /\ v <= u => t * (n + 1) + v <= b
         /\ \A v, q \in Nat : v <= u + 1 /\ q <= p + 1 => t * n + v + q <= b + 2
<1>1. t * n \in Nat
  OBVIOUS
<1>2. t * (n + 1) = t * n + t
  OBVIOUS
<1> DEFINE m == t * n
<1>3. m \in Nat /\ m + u + p <= b /\ t * (n + 1) = m + t
  BY <1>1, <1>2
<1> HIDE DEF m
<1>4. \A v, q \in Nat : v + q <= u + p => m + v + q <= b
  BY <1>3
<1>5. \A v \in Nat : p = t /\ v <= u => m + t + v <= b
  BY <1>3
<1>6. \A v, q \in Nat : v <= u + 1 /\ q <= p + 1 => m + v + q <= b + 2
  BY <1>3
<1> QED
  BY <1>1, <1>2, <1>4, <1>5, <1>6 DEF m

(* The pace of one target and one span, with all its terms typed.          *)
Bound(a) == Full + 2 * a + TokenTicks

LEMMA PaceOf ==
  ASSUME Typed, PacedInv, NEW k \in Keys, NEW a \in 0..Window
  PROVE  /\ recent[k][a] \in Nat /\ tokens[k] \in 0..Full /\ Paid(k) \in Nat
         /\ Bound(a) \in Nat
         /\ TokenTicks * recent[k][a] + tokens[k] + Paid(k) <= Bound(a)
<1>1. recent[k][a] \in Nat
  BY DEF PacedInv
<1>2. tokens[k] \in 0..Full /\ Paid(k) \in Nat
  BY PaidBounds, Limits DEF Typed
<1>3. Bound(a) \in Nat
  BY Limits DEF Bound
<1>4. TokenTicks * recent[k][a] + tokens[k] + Paid(k) <= Bound(a)
  BY DEF PacedInv, Paced, Bound
<1> QED
  BY <1>1, <1>2, <1>3, <1>4

LEMMA InitPaced == Init => PacedInv
<1> SUFFICES ASSUME Init PROVE PacedInv
  OBVIOUS
<1>1. /\ failures = [k \in Keys |-> 0] /\ healed = FALSE
      /\ recent = [k \in Keys |-> [a \in 0..Window |-> 0]]
      /\ tokens = [k \in Keys |-> Full] /\ \A k \in Keys : Paid(k) = 0
  BY DEF Init, Paid, Idle
<1>2. Paced
  <2> SUFFICES ASSUME NEW k \in Keys, NEW a \in 0..Window
               PROVE  TokenTicks * recent[k][a] + tokens[k] + Paid(k) <= Full + 2 * a + TokenTicks
    BY DEF Paced
  <2>1. recent[k][a] = 0 /\ tokens[k] = Full /\ Paid(k) = 0
    BY <1>1
  <2>2. TokenTicks * 0 = 0
    BY Limits
  <2>3. Full \in Nat /\ TokenTicks \in Nat /\ a \in Nat
    BY Limits
  <2> QED
    BY <2>1, <2>2, <2>3
<1>3. failures \in [Keys -> 0..Threshold]
  BY <1>1, Limits
<1>4. recent \in [Keys -> [0..Window -> Nat]]
  BY <1>1
<1>5. healed \in BOOLEAN
  BY <1>1
<1> QED
  BY <1>2, <1>3, <1>4, <1>5 DEF PacedInv

(* A step that makes no POST, after which the bucket and the call hold no   *)
(* more between them, keeps the pace.                                       *)
LEMMA SamePace ==
  ASSUME Typed, PacedInv, recent' = recent,
         \A k \in Keys : /\ tokens'[k] \in Nat /\ Paid(k)' \in Nat
                         /\ tokens'[k] + Paid(k)' <= tokens[k] + Paid(k)
  PROVE  Paced'
<1> SUFFICES ASSUME NEW k \in Keys, NEW a \in 0..Window
             PROVE  TokenTicks * recent'[k][a] + tokens'[k] + Paid(k)' <= Bound(a)
  BY DEF Paced, Bound
<1>1. /\ recent[k][a] \in Nat /\ tokens[k] \in Nat /\ Paid(k) \in Nat /\ Bound(a) \in Nat
      /\ TokenTicks \in Nat
      /\ TokenTicks * recent[k][a] + tokens[k] + Paid(k) <= Bound(a)
  BY PaceOf, Limits
<1>2. \A v, q \in Nat : v + q <= tokens[k] + Paid(k)
                        => TokenTicks * recent[k][a] + v + q <= Bound(a)
  BY <1>1, Spend
<1>3. /\ tokens'[k] \in Nat /\ Paid(k)' \in Nat
      /\ tokens'[k] + Paid(k)' <= tokens[k] + Paid(k)
  OBVIOUS
<1> QED
  BY <1>2, <1>3

(* Taking a token and sleeping for one come to the same.                   *)
LEMMA AttemptPaid ==
  ASSUME Typed, NEW k \in Keys, NEW a, Attempt(k, a), \A j \in Keys : Paid(j) = 0
  PROVE  \A j \in Keys : /\ tokens'[j] \in Nat /\ Paid(j)' \in Nat
                         /\ tokens'[j] + Paid(j)' <= tokens[j] + Paid(j)
<1>1. /\ tokens' = [tokens EXCEPT ![k] = Left(k)]
      /\ call'.phase = "sleeping" /\ call'.key = k /\ call'.left = Delay(k)
  BY DEF Attempt, Sleeping
<1>2. tokens \in [Keys -> 0..Full] /\ Full \in Nat /\ TokenTicks \in Nat
  BY Limits DEF Typed
<1>3. /\ Left(k) \in Nat /\ TokenTicks - Delay(k) \in Nat
      /\ Left(k) + (TokenTicks - Delay(k)) = tokens[k]
  BY <1>2 DEF Left, Delay
<1>4. TAKE j \in Keys
<1>5. CASE j = k
  <2>1. tokens'[j] = Left(k) /\ Paid(j)' = TokenTicks - Delay(k) /\ Paid(j) = 0
    BY <1>1, <1>2, <1>5 DEF Paid
  <2>2. tokens[j] = tokens[k] /\ tokens[k] \in Nat
    BY <1>2, <1>5
  <2> QED
    BY <1>3, <2>1, <2>2
<1>6. CASE j # k
  <2>1. tokens'[j] = tokens[j] /\ tokens[j] \in Nat /\ Paid(j)' = 0 /\ Paid(j) = 0
    BY <1>1, <1>2, <1>6 DEF Paid
  <2> QED
    BY <2>1
<1> QED
  BY <1>5, <1>6

LEMMA NextPaced == IInv /\ PacedInv /\ [Next]_vars => PacedInv'
<1> SUFFICES ASSUME Typed, Counted, Spared, PacedInv, [Next]_vars PROVE PacedInv'
  BY DEF IInv
<1>0. /\ failures \in [Keys -> 0..Threshold] /\ healed \in BOOLEAN
      /\ recent \in [Keys -> [0..Window -> Nat]]
  BY DEF PacedInv
<1>h. \A k \in Keys : tokens[k] \in Nat /\ Paid(k) \in 0..TokenTicks /\ Paid(k) \in Nat
  BY PaidBounds, Limits DEF Typed
<1>1. ASSUME NEW k \in Keys, Admit(k) PROVE PacedInv'
  <2>1. /\ Attempt(k, 1) /\ \A j \in Keys : Paid(j) = 0
        /\ UNCHANGED <<failures, healed, recent>>
    BY <1>1 DEF Admit, history, Paid, Idle
  <2>2. Paced'
    BY <2>1, AttemptPaid, SamePace
  <2> QED
    BY <1>0, <2>1, <2>2 DEF PacedInv
<1>2. ASSUME NEW k \in Keys, Refuse(k) PROVE PacedInv'
  BY <1>2 DEF Refuse, history, PacedInv, Paced, Paid
<1>3. CASE Post
  <2>1. PICK k \in Keys : k = call.key
    BY <1>3 DEF Post, Typed, Calls, Idle
  <2>2. /\ UNCHANGED <<failures, tokens, healed>>
        /\ recent' = [recent EXCEPT ![k] = [a \in 0..Window |-> recent[k][a] + 1]]
        /\ \A j \in Keys : Paid(j)' = 0
    BY <1>3, <2>1 DEF Post, breakers, Paid, Posting
  <2>3. recent' \in [Keys -> [0..Window -> Nat]]
    <3>1. [a \in 0..Window |-> recent[k][a] + 1] \in [0..Window -> Nat]
      <4>1. \A a \in 0..Window : recent[k][a] \in Nat
        BY <1>0
      <4>2. \A a \in 0..Window : recent[k][a] + 1 \in Nat
        BY <4>1
      <4> QED
        BY <4>2
    <3> QED
      BY <1>0, <2>2, <3>1
  <2>4. Paced'
    <3> SUFFICES ASSUME NEW j \in Keys, NEW a \in 0..Window
                 PROVE  TokenTicks * recent'[j][a] + tokens'[j] + Paid(j)' <= Bound(a)
      BY DEF Paced, Bound
    <3>1. /\ recent[j][a] \in Nat /\ tokens[j] \in Nat /\ Paid(j) \in Nat /\ Bound(a) \in Nat
          /\ TokenTicks \in Nat
          /\ TokenTicks * recent[j][a] + tokens[j] + Paid(j) <= Bound(a)
      BY PaceOf, Limits
    <3>2. tokens'[j] = tokens[j] /\ Paid(j)' = 0
      BY <2>2
    <3>3. CASE j = k
      <4>1. Paid(j) = TokenTicks
        <5>1. call.phase = "sleeping" /\ call.left = 0 /\ call.key = j
          BY <1>3, <2>1, <3>3 DEF Post
        <5> QED
          BY <3>1, <5>1 DEF Paid
      <4>2. recent'[j][a] = recent[j][a] + 1
        BY <1>0, <2>2, <3>3
      <4>3. \A v \in Nat : Paid(j) = TokenTicks /\ v <= tokens[j]
                           => TokenTicks * (recent[j][a] + 1) + v <= Bound(a)
        BY <3>1, Spend
      <4>4. TokenTicks * (recent[j][a] + 1) + tokens[j] <= Bound(a)
        BY <3>1, <4>1, <4>3
      <4>5. TokenTicks * (recent[j][a] + 1) \in Nat
        BY <3>1
      <4> QED
        BY <3>1, <3>2, <4>2, <4>4, <4>5
    <3>4. CASE j # k
      <4>1. recent'[j][a] = recent[j][a]
        BY <1>0, <2>2, <3>4
      <4>2. \A v, q \in Nat : v + q <= tokens[j] + Paid(j)
                              => TokenTicks * recent[j][a] + v + q <= Bound(a)
        BY <3>1, Spend
      <4>3. 0 \in Nat /\ tokens[j] + 0 <= tokens[j] + Paid(j)
        BY <3>1
      <4> QED
        BY <3>1, <3>2, <4>1, <4>2, <4>3
    <3> QED
      BY <3>3, <3>4
  <2> QED
    BY <1>0, <2>2, <2>3, <2>4 DEF PacedInv
<1>4. CASE Delivered
  <2>1. UNCHANGED <<tokens, healed, recent>> /\ \A k \in Keys : Paid(k)' = 0
    BY <1>4 DEF Delivered, Paid, Idle
  <2>2. \A k \in Keys : /\ tokens'[k] \in Nat /\ Paid(k)' \in Nat
                        /\ tokens'[k] + Paid(k)' <= tokens[k] + Paid(k)
    BY <1>h, <2>1
  <2>3. Paced'
    BY <2>1, <2>2, SamePace
  <2>4. failures' \in [Keys -> 0..Threshold]
    <3>1. failures' = [failures EXCEPT ![call.key] = 0] /\ 0 \in 0..Threshold
      BY <1>4, Limits DEF Delivered, Success
    <3> QED
      BY <1>0, <3>1
  <2> QED
    BY <1>0, <2>1, <2>3, <2>4 DEF PacedInv
<1>5. ASSUME NEW k \in Keys, Failed(k), \A j \in Keys : Paid(j)' = 0
      PROVE  PacedInv'
  <2>1. UNCHANGED <<tokens, healed, recent>>
    BY <1>5 DEF Failed
  <2>2. \A j \in Keys : /\ tokens'[j] \in Nat /\ Paid(j)' \in Nat
                        /\ tokens'[j] + Paid(j)' <= tokens[j] + Paid(j)
    BY <1>h, <1>5, <2>1
  <2>3. Paced'
    BY <2>1, <2>2, SamePace
  <2>4. failures' \in [Keys -> 0..Threshold]
    <3>1. failures[k] \in 0..Threshold /\ (circuit[k] = "closed" => failures[k] + 1 \in 0..Threshold)
      BY <1>0, Limits DEF Counted, Typed
    <3>2. failures' = [failures EXCEPT ![k] = IF circuit[k] = "closed" THEN @ + 1 ELSE @]
      BY <1>5 DEF Failed, Failure
    <3> QED
      BY <1>0, <3>1, <3>2
  <2> QED
    BY <1>0, <2>1, <2>3, <2>4 DEF PacedInv
<1>6. CASE Limited \/ GivenUp
  <2>1. PICK k \in Keys : Failed(k) /\ call'.phase \in {"idle", "backoff"}
    BY <1>6 DEF Limited, GivenUp, Backoff, Idle
  <2>2. \A j \in Keys : Paid(j)' = 0
    BY <2>1 DEF Paid
  <2> QED
    BY <1>5, <2>1, <2>2
<1>7. CASE Retry
  <2>1. PICK k \in Keys : k = call.key
    BY <1>7 DEF Retry, Typed, Calls, Idle
  <2>2. /\ Attempt(k, call.attempt + 1) /\ \A j \in Keys : Paid(j) = 0
        /\ UNCHANGED <<failures, healed, recent>>
    BY <1>7, <2>1 DEF Retry, breakers, history, Paid
  <2>3. Paced'
    BY <2>2, AttemptPaid, SamePace
  <2> QED
    BY <1>0, <2>2, <2>3 DEF PacedInv
<1>8. CASE Heal
  BY <1>8 DEF Heal, breakers, history, PacedInv, Paced, Paid
<1>9. CASE Tick
  <2>1. /\ tokens' = [k \in Keys |-> IF tokens[k] < Full THEN tokens[k] + 1 ELSE Full]
        /\ recent' = [k \in Keys |->
                       [a \in 0..Window |-> IF a = 0 THEN 0 ELSE recent[k][a - 1]]]
        /\ call' = Elapsed /\ UNCHANGED <<failures, healed>>
    BY <1>9 DEF Tick
  <2>2. recent' \in [Keys -> [0..Window -> Nat]]
    <3>1. \A k \in Keys, a \in 0..Window : a # 0 => recent[k][a - 1] \in Nat
      BY <1>0, Limits
    <3> QED
      BY <2>1, <3>1
  <2>3. ASSUME NEW k \in Keys
        PROVE  Paid(k)' \in 0..TokenTicks /\ Paid(k)' <= Paid(k) + 1
    <3>1. CASE call.phase = "sleeping" /\ call.left > 0
      <4>1. call.left \in 0..TokenTicks /\ TokenTicks \in Nat
        BY <3>1, Limits DEF Typed, Calls, Idle
      <4>2. call' = Sleeping(call.key, call.attempt, call.left - 1)
        BY <2>1, <3>1 DEF Elapsed
      <4>3. call'.phase = "sleeping" /\ call'.key = call.key /\ call'.left = call.left - 1
        BY <4>2 DEF Sleeping
      <4> QED
        BY <3>1, <4>1, <4>3 DEF Paid
    <3>2. CASE call.phase = "backoff" /\ call.left > 0
      <4>1. call'.phase = "backoff"
        BY <2>1, <3>2 DEF Elapsed, Backoff
      <4>2. Paid(k)' = 0
        BY <4>1 DEF Paid
      <4> QED
        BY <1>h, <4>2, Limits
    <3>3. CASE ~(call.phase \in {"sleeping", "backoff"} /\ call.left > 0)
      <4>1. call' = call
        BY <2>1, <3>3 DEF Elapsed
      <4>2. Paid(k)' = Paid(k)
        BY <4>1 DEF Paid
      <4> QED
        BY <1>h, <4>2, Limits
    <3> QED
      BY <3>1, <3>2, <3>3
  <2>4. Paced'
    <3> SUFFICES ASSUME NEW k \in Keys, NEW a \in 0..Window
                 PROVE  TokenTicks * recent'[k][a] + tokens'[k] + Paid(k)' <= Bound(a)
      BY DEF Paced, Bound
    <3>1. tokens[k] \in 0..Full /\ tokens'[k] \in 0..Full /\ tokens'[k] <= tokens[k] + 1
      BY <2>1, Limits DEF Typed
    <3>2. Paid(k)' \in Nat /\ Paid(k)' <= TokenTicks /\ Paid(k)' <= Paid(k) + 1
      BY <2>3, Limits
    <3>3. tokens'[k] \in Nat
      BY <3>1, Limits
    <3>4. CASE a = 0
      <4>1. recent'[k][a] = 0
        BY <2>1, <3>4
      <4>2. TokenTicks * 0 = 0 /\ TokenTicks \in Nat /\ Full \in Nat
        BY Limits
      <4>3. Bound(a) = Full + TokenTicks
        BY <3>4, <4>2 DEF Bound
      <4> QED
        BY <3>1, <3>2, <4>1, <4>2, <4>3
    <3>5. CASE a # 0
      <4>1. a - 1 \in 0..Window /\ recent'[k][a] = recent[k][a - 1] /\ Window \in Nat
        BY <2>1, <3>5, Limits
      <4>2. /\ recent[k][a - 1] \in Nat /\ tokens[k] \in Nat /\ Paid(k) \in Nat
            /\ Bound(a - 1) \in Nat /\ TokenTicks \in Nat
            /\ TokenTicks * recent[k][a - 1] + tokens[k] + Paid(k) <= Bound(a - 1)
        BY <4>1, PaceOf, Limits
      <4>3. \A v, q \in Nat : v <= tokens[k] + 1 /\ q <= Paid(k) + 1
                              => TokenTicks * recent[k][a - 1] + v + q <= Bound(a - 1) + 2
        BY <4>2, Spend
      <4>4. Bound(a - 1) + 2 = Bound(a)
        BY <4>1, Limits DEF Bound
      <4> QED
        BY <3>1, <3>2, <3>3, <4>1, <4>3, <4>4
    <3> QED
      BY <3>4, <3>5
  <2> QED
    BY <1>0, <2>1, <2>2, <2>4 DEF PacedInv
<1>10. CASE UNCHANGED vars
  BY <1>10 DEF vars, breakers, history, PacedInv, Paced, Paid
<1> QED
  BY <1>1, <1>2, <1>3, <1>4, <1>6, <1>7, <1>8, <1>9, <1>10 DEF Next

(* From the pace to the number of POSTs.                                   *)
LEMMA Quotient ==
  ASSUME NEW t \in Nat \ {0}, NEW n \in Nat, NEW c \in Nat, NEW b \in Nat,
         t * n <= c * t + b + t
  PROVE  n <= c + b \div t + 1
<1> DEFINE q == b \div t
<1>1. q \in Nat /\ b < t * q + t
  BY SMT
<1> HIDE DEF q
<1>2. SUFFICES ASSUME n >= c + q + 2 PROVE FALSE
  BY <1>1 DEF q
<1> DEFINE d == n - (c + q + 2)
<1>3. d \in Nat /\ n = c + q + 2 + d
  BY <1>1, <1>2
<1> HIDE DEF d
<1>4. t * n = t * c + t * q + t + t + t * d
  BY <1>1, <1>3
<1>5. t * d \in Nat /\ t * c = c * t /\ t * c \in Nat /\ t * q \in Nat
  BY <1>1, <1>3
<1> DEFINE td == t * d  tc == t * c  tq == t * q
<1>6. /\ td \in Nat /\ tc \in Nat /\ tq \in Nat /\ b < tq + t
      /\ tc + tq + t + t + td <= tc + b + t
  BY <1>1, <1>4, <1>5
<1> HIDE DEF td, tc, tq
<1> QED
  BY <1>6

LEMMA PacedImplies == IInv /\ PacedInv => DeliveryInv
<1> SUFFICES ASSUME Typed, PacedInv PROVE DeliveryInv
  BY DEF IInv
<1>1. TypeOK
  BY DEF Typed, PacedInv, TypeOK
<1>2. RateBounded
  <2> SUFFICES ASSUME NEW k \in Keys, NEW a \in 0..Window
               PROVE  recent[k][a] <= Capacity + (2 * a) \div TokenTicks + 1
    BY DEF RateBounded
  <2>1. /\ recent[k][a] \in Nat /\ tokens[k] \in Nat /\ Paid(k) \in Nat
        /\ TokenTicks * recent[k][a] + tokens[k] + Paid(k) <= Bound(a)
    BY PaceOf, Limits
  <2>2. TokenTicks * recent[k][a] \in Nat
    BY <2>1, Limits
  <2>3. Bound(a) \in Nat /\ Bound(a) = Full + 2 * a + TokenTicks /\ 2 * a \in Nat
    BY Limits DEF Bound
  <2>4. TokenTicks * recent[k][a] <= Full + 2 * a + TokenTicks
    BY <2>1, <2>2, <2>3
  <2>5. TokenTicks * recent[k][a] <= Capacity * TokenTicks + 2 * a + TokenTicks
    BY <2>4 DEF Full
  <2> QED
    BY <2>1, <2>3, <2>5, Quotient, Limits
<1> QED
  BY <1>1, <1>2 DEF DeliveryInv

(* A target gets no more POSTs in any span of time than its bucket holds at *)
(* once and twice what it gains in the span, whatever calls, retries and    *)
(* refusals there are (RateLimiter::delay_for and the sleeps of             *)
(* DiscordClient::send).                                                    *)
THEOREM PostsBounded == Spec => []DeliveryInv
<1> QED
  BY InitIInv, NextIInv, InitPaced, NextPaced, PacedImplies, PTL DEF Spec

-----------------------------------------------------------------------------
(* The scheduler.  The minutes behind a pass are those it has been through,  *)
(* with the jobs before its own in the minute it is at.                      *)
Behind(j, m) == m < pass.minute \/ (m = pass.minute /\ j < pass.job)

CronTypes == CronTypeOK /\ receipt \in [Jobs -> UNION {Held(j) : j \in Jobs}]

(* What memory and the file call the last minute is true, as is what a pass  *)
(* has behind it; memory that knows of no minute has read a file without.    *)
DoneUpTo(last) ==
  \A j \in Jobs, m \in Minutes :
    from <= m /\ m <= last /\ m \in Schedule[j] => Handled(j, m)
PassTrue ==
  \A j \in Jobs, m \in Minutes :
    from <= m /\ Behind(j, m) /\ m \in Schedule[j] => Handled(j, m)
RecordTrue ==
  /\ DoneUpTo(file.last) /\ DoneUpTo(memory.last)
  /\ phase = "running" => PassTrue
  /\ phase # "down" /\ memory.last = NoMinute => file.last = NoMinute

(* A minute that may be emitted again without another fault has been emitted *)
(* no oftener than there were faults: a minute the clock has yet to reach,   *)
(* one that the pass has ahead of it, and one beyond the last that is known. *)
(* What a pass has ahead beyond the clock, which was set back, will be       *)
(* emitted by it and by a later one.                                         *)
Reached ==
  CASE phase = "running"              -> pass.upto
    [] phase \in {"waiting", "saving"} -> memory.last
    [] phase = "down"                 -> file.last
    [] OTHER                          -> NoMinute
PassAhead ==
  \A j \in Jobs, m \in Minutes :
    m <= pass.upto /\ ~Behind(j, m) =>
      /\ fired[j][m] <= mishaps
      /\ m > now => fired[j][m] + 1 <= mishaps
RefiresCounted ==
  /\ RefireBounded
  /\ \A j \in Jobs, m \in Minutes : m > now \/ m > Reached => fired[j][m] <= mishaps
  /\ phase = "running" => PassAhead
  /\ phase = "waiting" => file.last = memory.last

(* A lease is of something that was emitted.                                 *)
Leased(record) ==
  \A j \in Jobs :
    \/ record.leases[j] = NoLease
    \/ \E s \in emitted :
         /\ s.job = j /\ s.print = record.leases[j].key
         /\ record.leases[j].expires = s.minute + Ttl[j]
LeasesSaid == Leased(memory) /\ Leased(file) /\ WithheldWasSaid

CronIInv == CronTypes /\ RecordTrue /\ RefiresCounted /\ LeasesSaid

LEMMA CronIInvImplies == CronIInv => CronInv
BY DEF CronIInv, CronTypes, RecordTrue, DoneUpTo, NothingSkipped, RefiresCounted, LeasesSaid, CronInv

LEMMA ReceiptType ==
  ASSUME NEW j \in Jobs, NEW r \in Held(j)
  PROVE  r \in UNION {Held(i) : i \in Jobs} /\ r.print \in Prints /\ r.zero \in BOOLEAN
<1>1. r \in UNION {Held(i) : i \in Jobs}
  OBVIOUS
<1>2. r.print \in Prints
  BY <1>1 DEF Prints
<1>3. r \in Receipts[j] \/ r = Nothing
  BY DEF Held
<1>4. Nothing.zero \in BOOLEAN
  BY DEF Nothing
<1>5. QED
  BY <1>1, <1>2, <1>3, <1>4, CronAssumption DEF CronAssumption

LEMMA EmptyStateType ==
  /\ EmptyState \in States /\ EmptyState.last = NoMinute
  /\ \A j \in Jobs : EmptyState.leases[j] = NoLease
<1>1. 1 \in Jobs
  BY CronAssumption DEF Jobs
<1>2. Nothing \in Held(1) /\ Nothing.print = "nothing"
  BY DEF Held, Nothing
<1>3. "nothing" \in Prints
  BY <1>1, <1>2, ReceiptType
<1>4. NoLease \in [key : Prints, expires : Int]
  BY <1>3 DEF NoLease, NoMinute
<1>5. QED
  BY <1>3, <1>4 DEF EmptyState, States

(* Where a pass goes on.                                                     *)
LEMMA Advanced ==
  ASSUME CronTypes, InPass, Advance
  PROVE  /\ pass' \in [minute : 0..(MaxMinute + 1), job : Jobs, upto : Minutes]
         /\ pass'.upto = pass.upto
         /\ pass.minute \in Minutes /\ Job \in Jobs
         /\ ~Behind(Job, pass.minute)
         /\ \A j \in Jobs, m \in Minutes :
              Behind(j, m)' <=> Behind(j, m) \/ (j = Job /\ m = pass.minute)
<1>1. /\ pass.minute \in 0..(MaxMinute + 1) /\ pass.job \in 1..NJobs /\ pass.upto \in 0..MaxMinute
      /\ pass.minute <= pass.upto /\ NJobs \in Nat /\ MaxMinute \in Nat
  BY CronAssumption DEF CronTypes, CronTypeOK, InPass, Jobs, Minutes
<1> DEFINE Passes == [minute : 0..(MaxMinute + 1), job : 1..NJobs, upto : 0..MaxMinute]
<1>0. pass \in Passes
  BY DEF CronTypes, CronTypeOK, Jobs, Minutes
<1>2. CASE Job < NJobs
  <2>1. pass' = [pass EXCEPT !.job = @ + 1]
    BY <1>2 DEF Advance
  <2>2. pass'.minute = pass.minute /\ pass'.job = pass.job + 1 /\ pass'.upto = pass.upto
        /\ pass' \in Passes
    BY <1>0, <1>1, <1>2, <2>1 DEF Job
  <2>3. QED
    BY <1>1, <2>2 DEF Behind, Job, Jobs, Minutes
<1>3. CASE ~(Job < NJobs)
  <2>1. pass' = [pass EXCEPT !.minute = @ + 1, !.job = 1]
    BY <1>3 DEF Advance
  <2>2. pass'.minute = pass.minute + 1 /\ pass'.job = 1 /\ pass'.upto = pass.upto
        /\ pass' \in Passes
    <3>1. pass.minute + 1 \in 0..(MaxMinute + 1) /\ 1 \in 1..NJobs
      BY <1>1
    <3>2. QED
      BY <1>0, <2>1, <3>1
  <2>3. pass.job = NJobs
    BY <1>1, <1>3 DEF Job
  <2>4. QED
    BY <1>1, <2>2, <2>3 DEF Behind, Job, Jobs, Minutes
<1>4. QED
  BY <1>2, <1>3

(* The record an emission leaves.                                            *)
LEMMA EmittedRecord ==
  ASSUME CronTypes, NEW j \in Jobs, NEW m \in Minutes
  PROVE  /\ Emitted(j, m) \in States /\ Emitted(j, m).last = memory.last
         /\ \A i \in Jobs :
              Emitted(j, m).leases[i] = IF i = j THEN Lease(j, m) ELSE memory.leases[i]
<1> DEFINE leases == [memory.leases EXCEPT ![j] = Lease(j, m)]
           prints == [memory.prints EXCEPT ![j] = IF receipt[j] = Nothing THEN @ ELSE receipt[j].print]
           new == [memory EXCEPT !.leases = leases, !.prints = prints]
<1>1. receipt[j].print \in Prints
  BY ReceiptType DEF CronTypes, CronTypeOK
<1>2. Lease(j, m) \in [key : Prints, expires : Int]
  <2>1. NoLease \in [key : Prints, expires : Int]
    BY EmptyStateType DEF States, EmptyState
  <2>2. m + Ttl[j] \in Int
    BY CronAssumption DEF Minutes
  <2>3. QED
    BY <1>1, <2>1, <2>2 DEF Lease
<1>3. /\ memory.last \in {NoMinute} \cup Minutes /\ memory.prints \in [Jobs -> Prints]
      /\ memory.leases \in [Jobs -> [key : Prints, expires : Int]] /\ memory \in States
  BY DEF CronTypes, CronTypeOK, States
<1>4. /\ leases \in [Jobs -> [key : Prints, expires : Int]]
      /\ \A i \in Jobs : leases[i] = IF i = j THEN Lease(j, m) ELSE memory.leases[i]
  BY <1>2, <1>3
<1>5. prints \in [Jobs -> Prints]
  BY <1>1, <1>3
<1>6. Emitted(j, m) = new
  BY <1>3 DEF Emitted, States
<1> HIDE DEF leases, prints
<1>7. new \in States /\ new.last = memory.last /\ new.leases = leases
  BY <1>3, <1>4, <1>5 DEF States
<1>8. QED
  BY <1>4, <1>6, <1>7

LEMMA CronInitial == CronInit => CronIInv
<1> SUFFICES ASSUME CronInit  PROVE CronIInv
  OBVIOUS
<1>1. /\ memory = EmptyState /\ file = EmptyState /\ phase = "waiting" /\ now = 0 /\ mishaps = 0
      /\ emitted = {} /\ withheld = {} /\ \A j \in Jobs, m \in Minutes : fired[j][m] = 0
  BY DEF CronInit
<1>2. CronTypes
  <2>1. NoPass \in [minute : 0..(MaxMinute + 1), job : Jobs, upto : Minutes]
    BY CronAssumption DEF NoPass, Jobs, Minutes
  <2>2. fired \in [Jobs -> [Minutes -> Nat]]
    BY DEF CronInit
  <2>3. 0 \in Minutes
    BY CronAssumption DEF Minutes
  <2>4. QED
    BY <2>1, <2>2, <2>3, EmptyStateType, CronAssumption DEF CronInit, CronTypes, CronTypeOK
<1>3. RecordTrue
  BY <1>1, EmptyStateType DEF RecordTrue, DoneUpTo, NoMinute, Minutes
<1>4. RefiresCounted
  BY <1>1 DEF RefiresCounted, RefireBounded
<1>5. LeasesSaid
  BY <1>1, EmptyStateType DEF LeasesSaid, Leased, WithheldWasSaid
<1>6. QED
  BY <1>2, <1>3, <1>4, <1>5 DEF CronIInv

-----------------------------------------------------------------------------
LEMMA CronTypesKept == CronTypes /\ [CronNext]_cronVars => CronTypes'
<1> SUFFICES ASSUME CronTypes, [CronNext]_cronVars  PROVE CronTypes'
  OBVIOUS
<1> DEFINE Passes == [minute : 0..(MaxMinute + 1), job : Jobs, upto : Minutes]
<1>0. NoPass \in Passes
  BY CronAssumption DEF NoPass, Jobs, Minutes
<1>1. CASE Begin
  <2>1. First \in 0..(MaxMinute + 1) /\ now \in Minutes /\ 1 \in Jobs
    <3>1. memory.last \in {NoMinute} \cup Minutes /\ now \in Minutes
      BY DEF CronTypes, CronTypeOK, States
    <3>2. QED
      BY <3>1, CronAssumption DEF First, Minutes, NoMinute, Jobs
  <2>2. pass' \in Passes /\ from' \in Minutes
    BY <1>1, <2>1 DEF Begin, CronTypes, CronTypeOK
  <2>3. QED
    BY <1>1, <2>2 DEF Begin, CronTypes, CronTypeOK, cronHistory
<1>2. CASE Skip
  BY <1>2, Advanced DEF Skip, CronTypes, CronTypeOK, cronHistory
<1>3. CASE Withhold
  <2>1. pass' \in Passes /\ Job \in Jobs /\ pass.minute \in Minutes
    BY <1>3, Advanced DEF Withhold
  <2>2. [job |-> Job, minute |-> pass.minute, print |-> receipt[Job].print] \in Notes
    BY <2>1, ReceiptType DEF CronTypes, CronTypeOK, Notes
  <2>3. QED
    BY <1>3, <2>1, <2>2 DEF Withhold, CronTypes, CronTypeOK
<1>4. CASE Emit
  <2>1. pass' \in Passes /\ Job \in Jobs /\ pass.minute \in Minutes
    BY <1>4, Advanced DEF Emit
  <2>2. [job |-> Job, minute |-> pass.minute, print |-> receipt[Job].print] \in Notes
    BY <2>1, ReceiptType DEF CronTypes, CronTypeOK, Notes
  <2>3. memory' \in States
    BY <1>4, <2>1, EmittedRecord DEF Emit
  <2>4. fired' \in [Jobs -> [Minutes -> Nat]]
    BY <1>4, <2>1 DEF Emit, CronTypes, CronTypeOK
  <2>5. QED
    BY <1>4, <2>1, <2>2, <2>3, <2>4 DEF Emit, CronTypes, CronTypeOK
<1>5. CASE Finish
  <2>1. memory' \in States
    BY <1>5 DEF Finish, Progress, CronTypes, CronTypeOK, States
  <2>2. QED
    BY <1>0, <1>5, <2>1 DEF Finish, CronTypes, CronTypeOK, cronHistory
<1>6. CASE Save \/ Start \/ MinutePasses \/ Stop
  <2>1. CASE Save \/ Start
    BY <2>1 DEF Save, Start, CronTypes, CronTypeOK, cronHistory
  <2>2. CASE MinutePasses
    <3>1. now' \in Minutes
      <4>1. now \in Minutes /\ now < MaxMinute /\ now' = now + 1
        BY <2>2 DEF MinutePasses, CronTypes, CronTypeOK
      <4>2. QED
        BY <4>1, CronAssumption DEF Minutes
    <3>2. QED
      BY <2>2, <3>1 DEF MinutePasses, CronTypes, CronTypeOK, cronHistory
  <2>3. CASE Stop
    BY <1>0, <2>3, EmptyStateType DEF Stop, Down, CronTypes, CronTypeOK, cronHistory
  <2>4. QED
    BY <1>6, <2>1, <2>2, <2>3
<1>7. CASE SaveFails \/ Crash \/ SetBack
  <2>1. mishaps' \in 0..MaxMishaps
    BY <1>7, CronAssumption DEF SaveFails, Crash, SetBack, Mishap, CronTypes, CronTypeOK
  <2>2. QED
    BY <1>0, <1>7, <2>1, EmptyStateType
       DEF SaveFails, Crash, Down, SetBack, CronTypes, CronTypeOK, cronHistory
<1>8. CASE Rewrite
  <2>1. /\ receipt' \in [Jobs -> UNION {Held(i) : i \in Jobs}]
        /\ \A j \in Jobs : receipt'[j] \in Held(j)
    BY <1>8, ReceiptType DEF Rewrite, CronTypes, CronTypeOK
  <2>2. QED
    BY <1>8, <2>1 DEF Rewrite, CronTypes, CronTypeOK, cronHistory
<1>9. CASE UNCHANGED cronVars
  BY <1>9 DEF cronVars, cronHistory, CronTypes, CronTypeOK
<1>10. QED
  BY <1>1, <1>2, <1>3, <1>4, <1>5, <1>6, <1>7, <1>8, <1>9 DEF CronNext
-----------------------------------------------------------------------------
LEMMA HandledForGood ==
  ASSUME CronTypes, CronTypes', fired' = fired \/ Emit, withheld \subseteq withheld',
         NEW j \in Jobs, NEW m \in Minutes, Handled(j, m)
  PROVE  Handled(j, m)'
<1>1. fired'[j][m] >= fired[j][m]
  <2>1. CASE fired' = fired
    BY <2>1 DEF CronTypes, CronTypeOK
  <2>2. CASE Emit
    <3>1. Job \in Jobs /\ pass.minute \in Minutes
      BY <2>2, Advanced DEF Emit
    <3>2. fired \in [Jobs -> [Minutes -> Nat]] /\ fired' = [fired EXCEPT ![Job][pass.minute] = @ + 1]
      BY <2>2 DEF Emit, CronTypes, CronTypeOK
    <3>3. QED
      BY <3>1, <3>2
  <2>3. QED
    BY <2>1, <2>2
<1>2. fired[j][m] \in Nat /\ fired'[j][m] \in Nat
  BY DEF CronTypes, CronTypeOK
<1>3. QED
  BY <1>1, <1>2 DEF Handled

(* The record is true.                                                       *)
LEMMA RecordStaysTrue ==
  CronTypes /\ CronTypes' /\ RecordTrue /\ [CronNext]_cronVars => RecordTrue'
<1> SUFFICES ASSUME CronTypes, CronTypes', RecordTrue, [CronNext]_cronVars  PROVE RecordTrue'
  OBVIOUS
<1>0. /\ memory.last \in {NoMinute} \cup Minutes /\ file.last \in {NoMinute} \cup Minutes
      /\ from \in Minutes /\ now \in Minutes
  BY DEF CronTypes, CronTypeOK, States
<1>1. CASE Begin
  <2>1. /\ pass'.minute = First /\ pass'.job = 1 /\ phase' = "running"
        /\ UNCHANGED <<memory, file, fired, withheld>>
    BY <1>1 DEF Begin, cronHistory
  <2>2. CASE memory.last = NoMinute
    <3>1. file.last = NoMinute
      BY <1>1, <2>2 DEF Begin, RecordTrue
    <3>2. DoneUpTo(file.last)' /\ DoneUpTo(memory.last)'
      BY <2>1, <2>2, <3>1, CronAssumption DEF DoneUpTo, NoMinute, Minutes
    <3>3. pass'.minute = now /\ from' = now
      BY <1>1, <2>1, <2>2 DEF Begin, First
    <3>4. PassTrue'
      BY <1>0, <2>1, <3>3, CronAssumption DEF PassTrue, Behind, Minutes, Jobs
    <3>5. QED
      BY <2>1, <3>1, <3>2, <3>4 DEF RecordTrue
  <2>3. CASE memory.last # NoMinute
    <3>1. from' = from /\ pass'.minute = memory.last + 1 /\ memory.last \in Minutes
      BY <1>0, <1>1, <2>1, <2>3 DEF Begin, First
    <3>2. DoneUpTo(file.last)' /\ DoneUpTo(memory.last)'
      BY <2>1, <3>1 DEF RecordTrue, DoneUpTo, Handled
    <3>3. PassTrue'
      <4>1. SUFFICES ASSUME NEW j \in Jobs, NEW m \in Minutes,
                            from <= m, Behind(j, m)', m \in Schedule[j]
                     PROVE  Handled(j, m)
        BY <2>1, <3>1 DEF PassTrue, Handled
      <4>2. m <= memory.last
        BY <2>1, <3>1, <4>1, CronAssumption DEF Behind, Minutes, Jobs
      <4>3. QED
        BY <4>1, <4>2 DEF RecordTrue, DoneUpTo
    <3>4. QED
      BY <2>1, <2>3, <3>2, <3>3 DEF RecordTrue
  <2>4. QED
    BY <2>2, <2>3
<1>2. CASE Skip \/ Withhold \/ Emit
  <2>1. /\ phase = "running" /\ UNCHANGED <<phase, file, from>> /\ memory'.last = memory.last
        /\ InPass /\ Advance
    BY <1>2, Advanced, EmittedRecord DEF Skip, Withhold, Emit, InPass
  <2>2. \A j \in Jobs, m \in Minutes : Handled(j, m) => Handled(j, m)'
    BY <1>2, HandledForGood DEF Skip, Withhold, cronHistory, Emit
  <2>3. ASSUME NEW j \in Jobs, NEW m \in Minutes, j = Job, m = pass.minute, m \in Schedule[j]
        PROVE  Handled(j, m)'
    <3>1. CASE Skip
      BY <2>3, <3>1 DEF Skip, Matches
    <3>2. CASE Withhold
      <4>1. [job |-> j, minute |-> m, print |-> receipt[Job].print] \in withheld'
        BY <2>3, <3>2 DEF Withhold
      <4>2. QED
        BY <4>1 DEF Handled
    <3>3. CASE Emit
      <4>1. fired \in [Jobs -> [Minutes -> Nat]] /\ fired' = [fired EXCEPT ![j][m] = @ + 1]
        BY <2>3, <3>3 DEF Emit, CronTypes, CronTypeOK
      <4>2. fired'[j][m] = fired[j][m] + 1 /\ fired[j][m] \in Nat
        BY <4>1
      <4>3. QED
        BY <4>2 DEF Handled
    <3>4. QED
      BY <1>2, <3>1, <3>2, <3>3
  <2>4. DoneUpTo(file.last)' /\ DoneUpTo(memory.last)'
    BY <2>1, <2>2 DEF RecordTrue, DoneUpTo
  <2>5. PassTrue'
    <3>1. SUFFICES ASSUME NEW j \in Jobs, NEW m \in Minutes,
                          from <= m, Behind(j, m)', m \in Schedule[j]
                   PROVE  Handled(j, m)'
      BY <2>1 DEF PassTrue
    <3>2. Behind(j, m) \/ (j = Job /\ m = pass.minute)
      BY <2>1, <3>1, Advanced
    <3>3. QED
      BY <2>1, <2>2, <2>3, <3>1, <3>2 DEF RecordTrue, PassTrue
  <2>6. QED
    BY <2>1, <2>4, <2>5 DEF RecordTrue
<1>3. CASE Finish
  <2>1. memory'.last = pass.upto /\ phase' = "saving" /\ UNCHANGED <<file, from, fired, withheld>>
    BY <1>3 DEF Finish, Progress, cronHistory, CronTypes, CronTypeOK, States
  <2>2. pass.minute \in Nat /\ pass.upto \in Minutes /\ pass.minute > pass.upto
    BY <1>3, CronAssumption DEF Finish, CronTypes, CronTypeOK
  <2>3. DoneUpTo(memory.last)'
    <3>1. SUFFICES ASSUME NEW j \in Jobs, NEW m \in Minutes,
                          from <= m, m <= pass.upto, m \in Schedule[j]
                   PROVE  Handled(j, m)
      BY <2>1 DEF DoneUpTo, Handled
    <3>2. Behind(j, m)
      BY <2>2, <3>1 DEF Behind, Minutes
    <3>3. QED
      BY <1>3, <3>1, <3>2 DEF Finish, RecordTrue, PassTrue
  <2>4. DoneUpTo(file.last)'
    BY <2>1 DEF RecordTrue, DoneUpTo, Handled
  <2>5. memory'.last # NoMinute
    BY <2>1, <2>2 DEF NoMinute, Minutes
  <2>6. QED
    BY <2>1, <2>3, <2>4, <2>5 DEF RecordTrue
<1>4. CASE Save \/ SaveFails \/ Stop \/ Crash \/ Start
  <2>1. /\ file'.last \in {file.last, memory.last, NoMinute}
        /\ memory'.last \in {file.last, memory.last, NoMinute}
    BY <1>4, EmptyStateType DEF Save, SaveFails, Stop, Crash, Start, Down
  <2>2. UNCHANGED <<from, fired, withheld>> /\ phase' # "running"
    BY <1>4 DEF Save, SaveFails, Stop, Crash, Start, Down, cronHistory
  <2>3. DoneUpTo(NoMinute)
    BY CronAssumption DEF DoneUpTo, NoMinute, Minutes
  <2>4. DoneUpTo(file'.last) /\ DoneUpTo(memory'.last)
    BY <2>1, <2>3 DEF RecordTrue
  <2>5. DoneUpTo(file.last)' /\ DoneUpTo(memory.last)'
    BY <2>2, <2>4 DEF DoneUpTo, Handled
  <2>6. phase' # "down" /\ memory'.last = NoMinute => file'.last = NoMinute
    BY <1>4, EmptyStateType DEF Save, SaveFails, Stop, Crash, Start, Down, RecordTrue
  <2>7. QED
    BY <2>2, <2>5, <2>6 DEF RecordTrue
<1>5. CASE MinutePasses \/ SetBack \/ Rewrite \/ UNCHANGED cronVars
  <2>1. UNCHANGED <<memory, file, phase, pass, from, fired, withheld>>
    BY <1>5 DEF MinutePasses, SetBack, Rewrite, cronVars, cronHistory
  <2>2. QED
    BY <2>1 DEF RecordTrue, DoneUpTo, PassTrue, Behind, Handled
<1>6. QED
  BY <1>1, <1>2, <1>3, <1>4, <1>5 DEF CronNext
-----------------------------------------------------------------------------
(* What a fault makes of the counts: whatever was emitted may be emitted     *)
(* again.                                                                    *)
LEMMA FaultsAllowRefires ==
  ASSUME CronTypes, CronTypes', RefiresCounted, mishaps' = mishaps + 1, fired' = fired
  PROVE  \A j \in Jobs, m \in Minutes : fired'[j][m] <= mishaps'
BY DEF CronTypes, CronTypeOK, RefiresCounted, RefireBounded

LEMMA RefiresStayCounted ==
  CronTypes /\ CronTypes' /\ RefiresCounted /\ [CronNext]_cronVars => RefiresCounted'
<1> SUFFICES ASSUME CronTypes, CronTypes', RefiresCounted, [CronNext]_cronVars
             PROVE  RefiresCounted'
  OBVIOUS
<1>0. /\ memory.last \in {NoMinute} \cup Minutes /\ file.last \in {NoMinute} \cup Minutes
      /\ now \in Minutes /\ mishaps \in Nat
      /\ \A j \in Jobs, m \in Minutes : fired[j][m] \in Nat
  BY CronAssumption DEF CronTypes, CronTypeOK, States
<1>1. CASE Begin
  <2>1. /\ pass'.minute = First /\ pass'.job = 1 /\ pass'.upto = now
        /\ phase = "waiting" /\ phase' = "running"
        /\ UNCHANGED <<memory, file, fired, now, mishaps>>
    BY <1>1 DEF Begin, cronHistory
  <2>2. ASSUME NEW j \in Jobs, NEW m \in Minutes, m <= now, ~Behind(j, m)'
        PROVE  fired[j][m] <= mishaps
    <3>1. m > memory.last
      <4>1. First <= m
        BY <1>0, <2>1, <2>2, CronAssumption DEF Behind, First, NoMinute, Minutes, Jobs
      <4>2. QED
        BY <1>0, <4>1, CronAssumption DEF First, NoMinute, Minutes
    <3>2. QED
      BY <2>1, <3>1 DEF RefiresCounted, Reached
  <2>3. PassAhead'
    BY <1>0, <2>1, <2>2 DEF PassAhead, Minutes
  <2>4. QED
    BY <1>0, <2>1, <2>3 DEF RefiresCounted, RefireBounded, Reached
<1>2. CASE Skip \/ Withhold
  <2>1. /\ phase = "running" /\ UNCHANGED <<phase, mishaps, now, fired>> /\ pass'.upto = pass.upto
        /\ InPass /\ Advance
    BY <1>2, Advanced DEF Skip, Withhold, InPass, cronHistory
  <2>2. \A j \in Jobs, m \in Minutes : Behind(j, m) => Behind(j, m)'
    BY <2>1, Advanced
  <2>3. PassAhead'
    BY <2>1, <2>2 DEF RefiresCounted, PassAhead
  <2>4. QED
    BY <2>1, <2>3 DEF RefiresCounted, RefireBounded, Reached
<1>3. CASE Emit
  <2>1. /\ phase = "running" /\ UNCHANGED <<phase, mishaps, now>> /\ pass'.upto = pass.upto
        /\ InPass /\ Advance /\ Job \in Jobs /\ pass.minute \in Minutes
        /\ ~Behind(Job, pass.minute) /\ pass.minute <= pass.upto
    BY <1>3, Advanced DEF Emit, InPass
  <2>2. \A j \in Jobs, m \in Minutes :
          fired'[j][m] = IF j = Job /\ m = pass.minute THEN fired[j][m] + 1 ELSE fired[j][m]
    <3>1. fired \in [Jobs -> [Minutes -> Nat]] /\ fired' = [fired EXCEPT ![Job][pass.minute] = @ + 1]
      BY <1>3 DEF Emit, CronTypes, CronTypeOK
    <3>2. QED
      BY <2>1, <3>1
  <2>3. /\ fired[Job][pass.minute] <= mishaps
        /\ pass.minute > now => fired[Job][pass.minute] + 1 <= mishaps
    BY <2>1 DEF RefiresCounted, PassAhead
  <2>4. PassAhead'
    <3>1. SUFFICES ASSUME NEW j \in Jobs, NEW m \in Minutes, m <= pass.upto, ~Behind(j, m)'
                   PROVE  /\ fired'[j][m] <= mishaps
                          /\ m > now => fired'[j][m] + 1 <= mishaps
      BY <2>1 DEF PassAhead
    <3>2. ~Behind(j, m) /\ ~(j = Job /\ m = pass.minute)
      BY <2>1, <3>1, Advanced
    <3>3. QED
      BY <2>1, <2>2, <3>1, <3>2 DEF RefiresCounted, PassAhead
  <2>5. RefireBounded'
    BY <1>0, <2>1, <2>2, <2>3 DEF RefiresCounted, RefireBounded
  <2>6. ASSUME NEW j \in Jobs, NEW m \in Minutes, m > now \/ m > pass.upto
        PROVE  fired'[j][m] <= mishaps
    <3>1. CASE j = Job /\ m = pass.minute
      <4>1. m > now
        BY <2>1, <2>6, <3>1 DEF CronTypes, CronTypeOK, Minutes
      <4>2. QED
        BY <2>2, <2>3, <3>1, <4>1
    <3>2. CASE ~(j = Job /\ m = pass.minute)
      BY <2>1, <2>2, <2>6, <3>2 DEF RefiresCounted, Reached
    <3>3. QED
      BY <3>1, <3>2
  <2>7. QED
    BY <2>1, <2>4, <2>5, <2>6 DEF RefiresCounted, Reached
<1>4. CASE Finish
  <2>1. /\ memory'.last = pass.upto /\ phase = "running" /\ phase' = "saving"
        /\ UNCHANGED <<fired, now, mishaps>>
    BY <1>4 DEF Finish, Progress, cronHistory, CronTypes, CronTypeOK, States
  <2>2. QED
    BY <2>1 DEF RefiresCounted, RefireBounded, Reached
<1>5. CASE Save \/ Start
  <2>1. /\ UNCHANGED <<fired, now, mishaps>> /\ phase' = "waiting" /\ Reached' = Reached
        /\ memory' = file'
    BY <1>5 DEF Save, Start, Reached, cronHistory
  <2>2. QED
    BY <2>1 DEF RefiresCounted, RefireBounded
<1>6. CASE Stop
  <2>1. UNCHANGED <<fired, now, mishaps, file>> /\ phase' = "down" /\ phase \in {"waiting", "stopped"}
    BY <1>6 DEF Stop, Down, cronHistory
  <2>2. \A m \in Minutes : m > file.last => m > Reached
    BY <2>1, CronAssumption DEF RefiresCounted, Reached, NoMinute, Minutes
  <2>3. QED
    BY <2>1, <2>2 DEF RefiresCounted, RefireBounded, Reached
<1>7. CASE SaveFails \/ Crash \/ SetBack
  <2>1. fired' = fired /\ mishaps' = mishaps + 1
    BY <1>7 DEF SaveFails, Crash, SetBack, Mishap, cronHistory
  <2>2. \A j \in Jobs, m \in Minutes : fired'[j][m] <= mishaps' /\ fired'[j][m] <= 1 + mishaps'
    BY <1>0, <2>1, FaultsAllowRefires
  <2>3. phase' = "running" => PassAhead'
    <3>1. CASE SaveFails \/ Crash
      BY <3>1 DEF SaveFails, Crash, Down
    <3>2. CASE SetBack
      <4>1. UNCHANGED <<phase, pass>>
        BY <3>2 DEF SetBack
      <4>2. QED
        BY <1>0, <2>1, <2>2, <4>1 DEF RefiresCounted, PassAhead, Behind
    <3>3. QED
      BY <1>7, <3>1, <3>2
  <2>4. phase' = "waiting" => file'.last = memory'.last
    BY <1>7 DEF SaveFails, Crash, Down, SetBack, RefiresCounted
  <2>5. QED
    BY <2>2, <2>3, <2>4 DEF RefiresCounted, RefireBounded
<1>8. CASE MinutePasses \/ Rewrite \/ UNCHANGED cronVars
  <2>1. UNCHANGED <<memory, file, phase, pass, mishaps, fired>>
    BY <1>8 DEF MinutePasses, Rewrite, cronVars, cronHistory
  <2>2. now' = now \/ now' = now + 1
    BY <1>8 DEF MinutePasses, Rewrite, cronVars
  <2>3. \A m \in Minutes : m > now' => m > now
    BY <1>0, <2>2, CronAssumption DEF Minutes
  <2>4. QED
    BY <2>1, <2>3 DEF RefiresCounted, RefireBounded, PassAhead, Behind, Reached
<1>9. QED
  BY <1>1, <1>2, <1>3, <1>4, <1>5, <1>6, <1>7, <1>8 DEF CronNext

-----------------------------------------------------------------------------
(* Leases.                                                                   *)
LEMMA LeasesStaySaid ==
  CronTypes /\ CronTypes' /\ LeasesSaid /\ [CronNext]_cronVars => LeasesSaid'
<1> SUFFICES ASSUME CronTypes, CronTypes', LeasesSaid, [CronNext]_cronVars
             PROVE  LeasesSaid'
  OBVIOUS
<1>1. ASSUME emitted \subseteq emitted', memory' \in {memory, file, EmptyState, Progress},
             file' \in {memory, file, EmptyState}, withheld' = withheld
      PROVE  LeasesSaid'
  <2>1. Leased(EmptyState)
    BY EmptyStateType DEF Leased
  <2>2. Progress.leases = memory.leases
    BY DEF Progress, CronTypes, CronTypeOK, States
  <2>3. Leased(Progress)
    BY <2>2 DEF LeasesSaid, Leased
  <2>4. Leased(memory') /\ Leased(file')
    BY <1>1, <2>1, <2>3 DEF LeasesSaid
  <2>5. Leased(memory)' /\ Leased(file)'
    BY <1>1, <2>4 DEF Leased
  <2>6. WithheldWasSaid'
    BY <1>1 DEF LeasesSaid, WithheldWasSaid
  <2>7. QED
    BY <2>5, <2>6 DEF LeasesSaid
<1>2. CASE Withhold
  <2>1. /\ Job \in Jobs /\ pass.minute \in Minutes /\ Suppressed(Job, pass.minute)
        /\ UNCHANGED <<memory, file, emitted>>
    BY <1>2, Advanced DEF Withhold
  <2>2. memory.leases[Job] # NoLease
    BY <2>1, CronAssumption DEF Suppressed, NoLease, NoMinute, Minutes
  <2>3. PICK s \in emitted : /\ s.job = Job /\ s.print = memory.leases[Job].key
                             /\ memory.leases[Job].expires = s.minute + Ttl[Job]
    BY <2>1, <2>2 DEF LeasesSaid, Leased
  <2>4. s.print = receipt[Job].print /\ pass.minute < s.minute + Ttl[Job]
    BY <2>1, <2>3, CronAssumption DEF Suppressed, CronTypes, CronTypeOK, Notes, Minutes
  <2>5. WithheldWasSaid'
    <3> DEFINE new == [job |-> Job, minute |-> pass.minute, print |-> receipt[Job].print]
    <3>1. withheld' = withheld \cup {new}
      BY <1>2 DEF Withhold
    <3>2. s.job = new.job /\ s.print = new.print /\ new.minute < s.minute + Ttl[new.job]
      BY <2>3, <2>4
    <3> HIDE DEF new
    <3>3. QED
      BY <2>1, <2>3, <3>1, <3>2 DEF LeasesSaid, WithheldWasSaid
  <2>6. QED
    BY <2>1, <2>5 DEF LeasesSaid, Leased
<1>3. CASE Emit
  <2> DEFINE new == [job |-> Job, minute |-> pass.minute, print |-> receipt[Job].print]
  <2>1. /\ Job \in Jobs /\ pass.minute \in Minutes /\ memory' = Emitted(Job, pass.minute)
        /\ emitted' = emitted \cup {new} /\ UNCHANGED <<file, withheld>>
    BY <1>3, Advanced DEF Emit
  <2>2. \/ Lease(Job, pass.minute) = NoLease
        \/ /\ new.job = Job /\ new.print = Lease(Job, pass.minute).key
           /\ Lease(Job, pass.minute).expires = new.minute + Ttl[Job]
    BY DEF Lease
  <2>3. \A j \in Jobs :
          memory'.leases[j] = IF j = Job THEN Lease(Job, pass.minute) ELSE memory.leases[j]
    BY <2>1, EmittedRecord
  <2> HIDE DEF new
  <2>4. Leased(memory)'
    BY <2>1, <2>2, <2>3 DEF LeasesSaid, Leased
  <2>5. Leased(file)' /\ WithheldWasSaid'
    BY <2>1 DEF LeasesSaid, Leased, WithheldWasSaid
  <2>6. QED
    BY <2>4, <2>5 DEF LeasesSaid
<1>4. CASE Begin \/ Skip \/ Finish \/ Save \/ SaveFails \/ Stop
  BY <1>1, <1>4 DEF Begin, Skip, Finish, Save, SaveFails, Stop, Down, cronHistory
<1>5. CASE Crash \/ Start \/ MinutePasses \/ SetBack \/ Rewrite \/ UNCHANGED cronVars
  BY <1>1, <1>5 DEF Crash, Down, Start, MinutePasses, SetBack, Rewrite, cronVars, cronHistory
<1>6. QED
  BY <1>2, <1>3, <1>4, <1>5 DEF CronNext

-----------------------------------------------------------------------------
LEMMA CronIInvAlways == CronSpec => []CronIInv
<1>1. CronIInv /\ [CronNext]_cronVars => CronIInv'
  BY CronTypesKept, RecordStaysTrue, RefiresStayCounted, LeasesStaySaid DEF CronIInv
<1>2. QED
  BY <1>1, CronInitial, PTL DEF CronSpec

(* The scheduler's record is true, a minute's job is repeated at most once   *)
(* per fault, and what is withheld has been said (emit_due, should_suppress, *)
(* persist_state).                                                           *)
THEOREM CronAlwaysTrue == CronSpec => []CronInv
BY CronIInvAlways, CronIInvImplies, PTL
=============================================================================
