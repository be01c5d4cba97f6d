------------------------------ MODULE MCBatches ------------------------------
(* What the dispatcher does with time: the wheel, the routine batches and the  *)
(* messages one of them is cut into, and the CI batches.  None of them looks   *)
(* at another except through what the wheel hands back, which its own part     *)
(* checks; they are explored one at a time, beside each other.                 *)
EXTENDS RoutineBatcher, RoutineChunks, TimerWheel, CiBatcher

CONSTANTS k1, k2,              \* keys of routine batches
          x, y,                \* entries of the wheel
          run, build, test     \* a workflow run and its jobs

\* A wheel scaled down: three levels whose ratios, as in the code, divide evenly,
\* and rings short enough for the clock to wrap each of them.
Units == <<2, 4, 8>>
Rings == <<2, 2, 2>>

VARIABLE part    \* what is explored

MCInit ==
  /\ part \in {"wheel", "routine", "chunks", "ci"}
  /\ Init /\ ChunkInit /\ WheelInit /\ CiInit
  /\ part # "wheel"   => current = 0
  /\ part # "routine" => clock = 0
  /\ part # "chunks"  => lens = <<>>
  /\ part # "ci"      => ciClock = 0

MCNext ==
  \/ part = "wheel"   /\ WheelNext /\ UNCHANGED <<part, vars, chunkVars, ciVars>>
  \/ part = "routine" /\ Next      /\ UNCHANGED <<part, wheelVars, chunkVars, ciVars>>
  \/ part = "chunks"  /\ ChunkNext /\ UNCHANGED <<part, vars, wheelVars, ciVars>>
  \/ part = "ci"      /\ CiNext    /\ UNCHANGED <<part, vars, wheelVars, chunkVars>>

MCSpec == MCInit /\ [][MCNext]_<<part, vars, wheelVars, chunkVars, ciVars>>
=============================================================================
