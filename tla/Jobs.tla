-------------------------------- MODULE Jobs --------------------------------
(***************************************************************************)
(* The durable job queue of backend/src/jobs: a Mongo collection of jobs   *)
(* and, in every backend process, a worker that claims one job per tick,   *)
(* runs its handler and reports the result.                                *)
(*                                                                         *)
(* Each action is one awaited store call or handler run of one worker.     *)
(* Real time is abstracted to what the queries read: whether the lease of  *)
(* a running job has lapsed, whether the backoff of a failed one has       *)
(* elapsed, and the order of runAt, which is the order of `line`.          *)
(* workerId is written by the code and read nowhere; it is left out.       *)
(***************************************************************************)
EXTENDS Naturals, Sequences, FiniteSets

CONSTANTS
  Job,          \* jobs, one per idempotency key (keys are never reused)
  Worker,       \* backend processes
  MaxAttempts,  \* maxAttempts of every job
  MaxFaults     \* bound on process deaths and refused store calls

ASSUME AttemptsAssumption == MaxAttempts \in Nat \ {0}
ASSUME FaultsAssumption   == MaxFaults \in Nat

VARIABLES
  status,    \* status[j] of the record; "absent" before, "purged" after it
  attempts,  \* attempts[j]
  lease,     \* lease[j]: leasedUntil is null, in the future or in the past
  line,      \* the jobs whose runAt has come, by runAt
  worker,    \* worker[w]: where its tick is, the job and attempt it holds
  faults,
  (* History variables. *)
  performed, \* performed[j]: the attempts whose handler ran to its end
  doubtful   \* jobs whose lease lapsed or whose completion was refused

records == <<status, attempts, lease, line>>
ghosts  == <<performed, doubtful>>
vars    == <<records, worker, faults, ghosts>>

Finished == {"completed", "failed"}

Free(w) == worker[w].pc = "free"

Tick == [pc: {"free"}]
        \cup [pc: {"handle", "complete", "fail"}, job: Job, attempt: 1..MaxAttempts]

TypeOK ==
  /\ status \in [Job -> {"absent", "pending", "running", "purged"} \cup Finished]
  /\ attempts \in [Job -> 0..MaxAttempts]
  /\ lease \in [Job -> {"none", "live", "lapsed"}]
  /\ line \in Seq(Job)
  /\ worker \in [Worker -> Tick]
  /\ faults \in Nat
  /\ performed \in [Job -> SUBSET (1..MaxAttempts)]
  /\ doubtful \subseteq Job

Init ==
  /\ status = [j \in Job |-> "absent"]
  /\ attempts = [j \in Job |-> 0]
  /\ lease = [j \in Job |-> "none"]
  /\ line = <<>>
  /\ worker = [w \in Worker |-> [pc |-> "free"]]
  /\ faults = 0
  /\ performed = [j \in Job |-> {}]
  /\ doubtful = {}

InLine(j) == \E i \in DOMAIN line : line[i] = j

\* The line without its i-th job.
Without(i) == SubSeq(line, 1, i - 1) \o SubSeq(line, i + 1, Len(line))

\* j, wherever it is, leaves the line.
Leave(j) ==
  \/ \E i \in DOMAIN line : line[i] = j /\ line' = Without(i)
  \/ ~InLine(j) /\ line' = line

-----------------------------------------------------------------------------
\* enqueue: $setOnInsert, so a second call with the same key changes nothing.
Enqueue(j) ==
  /\ status[j] = "absent"
  /\ status' = [status EXCEPT ![j] = "pending"]
  /\ line' = Append(line, j)
  /\ UNCHANGED <<attempts, lease, worker, faults, ghosts>>

\* Faulty variants of the filter of claimNext: a live lease is no obstacle; a
\* lapsed lease is no reason; the number of attempts does not matter.
ClaimableLeased(j)  == status[j] \in {"pending", "running"} /\ attempts[j] < MaxAttempts
ClaimablePending(j) == status[j] = "pending" /\ attempts[j] < MaxAttempts
ClaimableAlways(j)  == <<status[j], lease[j]>> \in {<<"pending", "none">>, <<"running", "lapsed">>}

\* The filter of claimNext, besides runAt.
Claimable(j) ==
  /\ \/ status[j] = "pending"
     \/ status[j] = "running" /\ lease[j] = "lapsed"
  /\ attempts[j] < MaxAttempts

\* Faulty variant: attempts are not counted.
SameAttempt(j) == attempts[j]

NextAttempt(j) == attempts[j] + 1

\* One findOneAndUpdate: the claimable job with the least runAt.
Claim(w) ==
  /\ Free(w)
  /\ \E i \in DOMAIN line :
       LET j == line[i]
       IN  /\ Claimable(j)
           /\ \A k \in 1..(i - 1) : ~Claimable(line[k])
           /\ status' = [status EXCEPT ![j] = "running"]
           /\ lease' = [lease EXCEPT ![j] = "live"]
           /\ attempts' = [attempts EXCEPT ![j] = NextAttempt(j)]
           /\ worker' = [worker EXCEPT ![w] =
                [pc |-> "handle", job |-> j, attempt |-> NextAttempt(j)]]
  /\ UNCHANGED <<line, faults, ghosts>>

HandlerReturns(w) ==
  /\ worker[w].pc = "handle"
  /\ performed' = [performed EXCEPT ![worker[w].job] = @ \cup {worker[w].attempt}]
  /\ worker' = [worker EXCEPT ![w].pc = "complete"]
  /\ UNCHANGED <<records, faults, doubtful>>

\* The handler rejects, or none is registered for the kind.
HandlerThrows(w) ==
  /\ worker[w].pc = "handle"
  /\ worker' = [worker EXCEPT ![w].pc = "fail"]
  /\ UNCHANGED <<records, faults, ghosts>>

\* The job of w gets the status s, if its record still is what w expects.
Report(w, s) ==
  LET j == worker[w].job
  IN  IF status[j] = "running"
        THEN /\ status' = [status EXCEPT ![j] = s]
             /\ lease' = [lease EXCEPT ![j] = "none"]
             /\ Leave(j)
        ELSE UNCHANGED <<status, lease, line>>

\* Faulty variant: the update does not ask for a running job.
CompleteAny(w) ==
  /\ worker[w].pc = "complete"
  /\ status' = [status EXCEPT ![worker[w].job] = "completed"]
  /\ lease' = [lease EXCEPT ![worker[w].job] = "none"]
  /\ Leave(worker[w].job)
  /\ worker' = [worker EXCEPT ![w] = [pc |-> "free"]]
  /\ UNCHANGED <<attempts, faults, ghosts>>

Complete(w) ==
  /\ worker[w].pc = "complete"
  /\ Report(w, "completed")
  /\ worker' = [worker EXCEPT ![w] = [pc |-> "free"]]
  /\ UNCHANGED <<attempts, faults, ghosts>>

\* Faulty variant: off by one.
TerminalLate(attempt) == attempt > MaxAttempts

\* fail decides on the attempt the worker claimed, not on the record.
Terminal(attempt) == attempt >= MaxAttempts

FailJob(w) ==
  /\ worker[w].pc = "fail"
  /\ Report(w, IF Terminal(worker[w].attempt) THEN "failed" ELSE "pending")
  /\ worker' = [worker EXCEPT ![w] = [pc |-> "free"]]
  /\ UNCHANGED <<attempts, faults, ghosts>>

BackoffElapses(j) ==
  /\ status[j] = "pending" /\ ~InLine(j)
  /\ line' = Append(line, j)
  /\ UNCHANGED <<status, attempts, lease, worker, faults, ghosts>>

\* 30 seconds after the claim; nothing renews a lease.
LeaseLapses(j) ==
  /\ status[j] = "running" /\ lease[j] = "live"
  /\ lease' = [lease EXCEPT ![j] = "lapsed"]
  /\ doubtful' = doubtful \cup {j}
  /\ UNCHANGED <<status, attempts, line, worker, faults, performed>>

\* The TTL index on completedAt.
Purge(j) ==
  /\ status[j] \in Finished
  /\ status' = [status EXCEPT ![j] = "purged"]
  /\ UNCHANGED <<attempts, lease, line, worker, faults, ghosts>>

\* The store refuses complete, which sends the tick to fail, or refuses fail,
\* which ends it.
Refuse(w) ==
  /\ faults < MaxFaults
  /\ faults' = faults + 1
  /\ \/ /\ worker[w].pc = "complete"
        /\ worker' = [worker EXCEPT ![w].pc = "fail"]
        /\ doubtful' = doubtful \cup {worker[w].job}
     \/ /\ worker[w].pc = "fail"
        /\ worker' = [worker EXCEPT ![w] = [pc |-> "free"]]
        /\ UNCHANGED doubtful
  /\ UNCHANGED <<records, performed>>

\* The process dies in the middle of a tick and is started again.
Crash(w) ==
  /\ ~Free(w)
  /\ faults < MaxFaults
  /\ faults' = faults + 1
  /\ worker' = [worker EXCEPT ![w] = [pc |-> "free"]]
  /\ UNCHANGED <<records, ghosts>>

Work(w) ==
  \/ Claim(w) \/ HandlerReturns(w) \/ HandlerThrows(w)
  \/ Complete(w) \/ FailJob(w)

Time(j) == BackoffElapses(j) \/ LeaseLapses(j)

Next ==
  \/ \E j \in Job : Enqueue(j) \/ Time(j) \/ Purge(j)
  \/ \E w \in Worker : Work(w) \/ Refuse(w) \/ Crash(w)

Spec == Init /\ [][Next]_vars

\* @Interval keeps ticking, handlers return or throw, and time passes.
FairSpec ==
  /\ Spec
  /\ \A w \in Worker : WF_vars(Work(w))
  /\ \A j \in Job : WF_vars(Time(j))

-----------------------------------------------------------------------------
(* Properties. *)

\* What the queue reports of each job, and whether its effect has happened.
Outcome == [j \in Job |-> IF status[j] \in {"pending", "running"} THEN "open" ELSE status[j]]
Done    == [j \in Job |-> performed[j] # {}]

Ledger == INSTANCE JobLedger WITH outcome <- Outcome, done <- Done

\* What enqueue promises its callers (the abstract specification): a completed
\* job was performed, and an end once reported stands, although stale workers
\* may report later.
LedgerSpec == Ledger!Spec

\* Two workers hold one job only after its lease lapsed, or after the store
\* refused to hear that it was completed: the claim is exclusive.
ClaimExclusive ==
  \A v, w \in Worker :
    v # w /\ ~Free(v) /\ ~Free(w) /\ worker[v].job = worker[w].job
      => worker[v].job \in doubtful

\* The effect of a job happens once unless a lease lapsed or the store refused
\* the completion: a retry only follows a handler that threw.
EffectOnce ==
  \A j \in Job \ doubtful : Cardinality(performed[j]) <= 1

\* No worker ever holds an attempt a second time: a crash or a lapsed lease
\* costs an attempt, so retries stay bounded across restarts.
AttemptHeldOnce ==
  \A v, w \in Worker :
    v # w /\ ~Free(v) /\ ~Free(w) /\ worker[v].job = worker[w].job
      => worker[v].attempt # worker[w].attempt

\* A pending job can still be claimed.
PendingHasAttempts == \A j \in Job : status[j] = "pending" => attempts[j] < MaxAttempts

\* A job nobody will ever claim, report or purge.
Abandoned(j) ==
  /\ status[j] = "running" /\ attempts[j] = MaxAttempts
  /\ \A w \in Worker : Free(w) \/ worker[w].job # j

\* Retries survive process deaths and refused store calls: a job that is due
\* ends, except when the last attempt is the one that is interrupted.
RetriesSurvive ==
  \A j \in Job :
    status[j] = "pending" ~> status[j] \in Finished \/ Abandoned(j)

\* Every job ends.
JobsEnd == \A j \in Job : status[j] = "pending" ~> status[j] \in Finished
============================================================================
