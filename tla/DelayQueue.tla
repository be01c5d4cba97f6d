----------------------------- MODULE DelayQueue -----------------------------
(***************************************************************************)
(* What the batchers of src/dispatch.rs need from their timer: entries are *)
(* accepted with a due time, and a tick hands back every entry that is due *)
(* and no other.  The clock is the wall clock, which may also be set back. *)
(***************************************************************************)
EXTENDS Naturals

CONSTANTS Ids,       \* entries that are ever scheduled
          MaxTime    \* bound of the clock

Times == 0..MaxTime

VARIABLES pending,   \* scheduled and not handed back: a set of [id, at]
          now,       \* the time of the last tick
          due        \* what the last tick handed back

vars == <<pending, now, due>>

Init == pending = {} /\ now \in Times /\ due = {}

Schedule(id, at) ==
  /\ pending' = pending \cup {[id |-> id, at |-> at]}
  /\ due' = {}
  /\ UNCHANGED now

Tick(t) ==
  /\ now' = t
  /\ due' = {e \in pending : e.at <= t}
  /\ pending' = pending \ due'

Next ==
  \/ \E id \in Ids, at \in Times : Schedule(id, at)
  \/ \E t \in Times : Tick(t)

Spec == Init /\ [][Next]_vars
=============================================================================
