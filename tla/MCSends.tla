------------------------------ MODULE MCSends -------------------------------
(* What the daemon sends again and what it must not: the events of CI runs    *)
(* through their outbox, the POSTs to Discord, and the jobs of the scheduler. *)
(* Each has its own record of what was done; they are explored one at a time. *)
EXTENDS DiscordDelivery, CronScheduler, CiOutbox

CONSTANTS r1, r2       \* workflow runs

VARIABLE part          \* what is explored

\* The outbox is explored with any four faults while one run moves, and with two
\* runs and one fault of any kind but a write that leaves the old file.
Kept == INSTANCE CiOutbox WITH MaxFaults <- 1, Faults <- {"crash", "unsynced", "partial", "fetch"}

\* A job for every minute that looks at a receipt, and a plain one for a single minute.
TwoSchedules == <<0..MaxMinute, {1}>>
TwoTtls      == <<2, 0>>
TwoReceipts  ==
  <<{[print |-> "clear", zero |-> TRUE], [print |-> "calm", zero |-> TRUE], [print |-> "busy", zero |-> FALSE]},
    {}>>

ASSUME PartsAssumption ==
  OutboxConstants /\ MaxAge < Retention /\ Kept!OutboxConstants

MCInit ==
  /\ part \in {"discord", "faulty", "kept", "cron"}
  /\ Init /\ CronInit /\ OutboxInit
  /\ part # "cron" => receipt = [j \in 1..2 |-> CHOOSE r \in Held(j) : TRUE]

MCNext ==
  \/ part = "discord" /\ Next            /\ UNCHANGED <<part, outboxVars, cronVars>>
  \/ part = "faulty"  /\ OutboxNext /\ hub'[r2] = "none" /\ UNCHANGED <<part, vars, cronVars>>
  \/ part = "kept"    /\ Kept!OutboxNext /\ UNCHANGED <<part, vars, cronVars>>
  \/ part = "cron"    /\ CronNext        /\ UNCHANGED <<part, vars, outboxVars>>

\* The fairness of each part, while it is explored.
MCSpec ==
  /\ MCInit /\ [][MCNext]_<<part, vars, outboxVars, cronVars>>
  /\ WF_vars(part = "discord" /\ Tick)
  /\ WF_outboxVars(part = "kept" /\ Kept!Deliver)
  /\ WF_outboxVars(part = "kept" /\ Kept!StartPoll)
  /\ WF_outboxVars(part = "kept" /\ Kept!PollAll)
  /\ WF_outboxVars(part = "kept" /\ Kept!Hour)
  /\ SF_cronVars(part = "cron" /\ Begin)
  /\ WF_cronVars(part = "cron" /\ (Skip \/ Withhold \/ Emit \/ Finish))
  /\ WF_cronVars(part = "cron" /\ Save)
  /\ WF_cronVars(part = "cron" /\ Start)
  /\ WF_cronVars(part = "cron" /\ MinutePasses)

\* What a poll wanted to report is sent or a dead letter in the end.
ReportsSettle == []<>(part = "kept" => Settles)
=============================================================================
