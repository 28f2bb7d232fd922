----------------------------- MODULE JobLedger -----------------------------
(***************************************************************************)
(* What the job queue promises to whoever enqueues: a job accepted is      *)
(* performed at least once before it is reported completed, or reported    *)
(* failed, and a report is never taken back.                               *)
(***************************************************************************)
CONSTANT Job

VARIABLES
  outcome,  \* outcome[j]: what the queue reports of j
  done      \* done[j]: the effect of j has happened at least once

Init ==
  /\ outcome = [j \in Job |-> "absent"]
  /\ done = [j \in Job |-> FALSE]

Accept(j) ==
  /\ outcome[j] = "absent"
  /\ outcome' = [outcome EXCEPT ![j] = "open"]
  /\ UNCHANGED done

Perform(j) ==
  /\ outcome[j] # "absent"
  /\ done' = [done EXCEPT ![j] = TRUE]
  /\ UNCHANGED outcome

Succeed(j) ==
  /\ outcome[j] = "open" /\ done[j]
  /\ outcome' = [outcome EXCEPT ![j] = "completed"]
  /\ UNCHANGED done

GiveUp(j) ==
  /\ outcome[j] = "open"
  /\ outcome' = [outcome EXCEPT ![j] = "failed"]
  /\ UNCHANGED done

\* Records of finished jobs are dropped after 30 days.
Purge(j) ==
  /\ outcome[j] \in {"completed", "failed"}
  /\ outcome' = [outcome EXCEPT ![j] = "purged"]
  /\ UNCHANGED done

Next == \E j \in Job : Accept(j) \/ Perform(j) \/ Succeed(j) \/ GiveUp(j) \/ Purge(j)

Spec == Init /\ [][Next]_<<outcome, done>>
============================================================================
