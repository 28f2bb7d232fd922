----------------------------- MODULE JobsProofs -----------------------------
(***************************************************************************)
(* Theorems about the job queue, for any jobs, any number of backend       *)
(* processes, any maxAttempts and any number of faults.                    *)
(***************************************************************************)
EXTENDS Jobs, FiniteSetTheorems, TLAPS

(***************************************************************************)
(* What a worker holds: an attempt that was counted, of a job that was     *)
(* enqueued; it completes what it has performed.                           *)
(***************************************************************************)
Held == [pc: {"handle", "complete", "fail"}, job: Job, attempt: 1..MaxAttempts]

Holding ==
  \A w \in Worker : ~Free(w) =>
    /\ worker[w].attempt <= attempts[worker[w].job]
    /\ status[worker[w].job] # "absent"
    /\ worker[w].pc = "complete" =>
         worker[w].attempt \in performed[worker[w].job]

Sound == TypeOK /\ Holding /\ AttemptHeldOnce

LEMMA HeldRecord ==
  ASSUME TypeOK, NEW w \in Worker, ~Free(w)
  PROVE  worker[w] \in Held
<1>1. worker[w] \in Tick
  BY DEF TypeOK
<1>2. worker[w] \notin [pc: {"free"}]
  BY DEF Free
<1>3. QED BY <1>1, <1>2 DEF Tick, Held

LEMMA HeldStep ==
  ASSUME TypeOK, NEW w \in Worker, ~Free(w),
         NEW pc \in {"handle", "complete", "fail"},
         worker' = [worker EXCEPT ![w].pc = pc]
  PROVE  /\ worker' \in [Worker -> Tick]
         /\ \A v \in Worker \ {w} : worker'[v] = worker[v]
         /\ worker'[w].pc = pc
         /\ worker'[w].job = worker[w].job
         /\ worker'[w].attempt = worker[w].attempt
<1>1. worker[w] \in Held
  BY HeldRecord
<1>2. worker \in [Worker -> Tick]
  BY DEF TypeOK
<1>3. worker' = [worker EXCEPT ![w] = [worker[w] EXCEPT !.pc = pc]]
  BY <1>2
<1> DEFINE n == [worker[w] EXCEPT !.pc = pc]
<1>4. /\ n \in Held /\ n.pc = pc /\ n.job = worker[w].job
      /\ n.attempt = worker[w].attempt
  BY <1>1 DEF Held
<1>5. n \in Tick
  BY <1>4 DEF Tick, Held
<1> HIDE DEF n
<1>6. worker' = [worker EXCEPT ![w] = n]
  BY <1>3 DEF n
<1>7. QED BY <1>2, <1>4, <1>5, <1>6

LEMMA FreeStep ==
  ASSUME TypeOK, NEW w \in Worker,
         worker' = [worker EXCEPT ![w] = [pc |-> "free"]]
  PROVE  /\ worker' \in [Worker -> Tick]
         /\ \A v \in Worker \ {w} : worker'[v] = worker[v]
         /\ Free(w)'
  BY DEF TypeOK, Tick, Free

LEMMA LineStep ==
  ASSUME TypeOK, NEW j \in Job, Leave(j)
  PROVE  line' \in Seq(Job)
<1>1. line \in Seq(Job)
  BY DEF TypeOK
<1>2. ASSUME NEW i \in DOMAIN line
      PROVE  Without(i) \in Seq(Job)
  <2>1. i \in 1..Len(line) /\ Len(line) \in Nat
    BY <1>1
  <2>2. SubSeq(line, 1, i - 1) \in Seq(Job)
    BY <1>1, <2>1
  <2>3. SubSeq(line, i + 1, Len(line)) \in Seq(Job)
    BY <1>1, <2>1
  <2>4. QED BY <2>2, <2>3 DEF Without
<1>3. QED BY <1>1, <1>2 DEF Leave

LEMMA ReportTyped ==
  ASSUME TypeOK, NEW w \in Worker, ~Free(w),
         NEW s \in {"completed", "failed", "pending"}, Report(w, s)
  PROVE  /\ status' \in [Job -> {"absent", "pending", "running", "purged"} \cup Finished]
         /\ lease' \in [Job -> {"none", "live", "lapsed"}]
         /\ line' \in Seq(Job)
         /\ \A j \in Job : status'[j] = status[j] \/ (j = worker[w].job /\ status'[j] = s /\ status[j] = "running")
         /\ \A j \in Job : lease'[j] \in {lease[j], "none"}
<1>1. worker[w].job \in Job
  BY HeldRecord DEF Held
<1> DEFINE k == worker[w].job
           S == {"absent", "pending", "running", "purged"} \cup Finished
           L == {"none", "live", "lapsed"}
<1>2. /\ status \in [Job -> S] /\ lease \in [Job -> L] /\ line \in Seq(Job)
      /\ s \in S /\ "none" \in L
  BY DEF TypeOK, Finished
<1>3. CASE status[k] = "running"
  <2>1. /\ status' = [status EXCEPT ![k] = s]
        /\ lease' = [lease EXCEPT ![k] = "none"]
        /\ Leave(k)
    BY <1>3 DEF Report
  <2>2. line' \in Seq(Job)
    BY <1>1, <2>1, LineStep
  <2> HIDE DEF S, L, k
  <2>3. status' \in [Job -> S] /\ lease' \in [Job -> L]
    BY <1>2, <2>1
  <2>4. \A j \in Job : /\ status'[j] = status[j] \/ (j = k /\ status'[j] = s /\ status[j] = "running")
                       /\ lease'[j] \in {lease[j], "none"}
    BY <1>2, <1>3, <2>1
  <2>5. QED BY <2>2, <2>3, <2>4 DEF S, L, k
<1>4. CASE status[k] # "running"
  <2>1. UNCHANGED <<status, lease, line>>
    BY <1>4 DEF Report
  <2>2. QED BY <1>2, <2>1
<1>5. QED BY <1>3, <1>4

LEMMA SoundInit == Init => Sound
  BY AttemptsAssumption
     DEF Init, Sound, TypeOK, Holding, AttemptHeldOnce, Tick, Free

LEMMA ClaimSound ==
  ASSUME Sound, NEW w \in Worker, Claim(w)
  PROVE  Sound'
<1> USE DEF Sound
<1>1. PICK i \in DOMAIN line :
        /\ Claimable(line[i])
        /\ status' = [status EXCEPT ![line[i]] = "running"]
        /\ lease' = [lease EXCEPT ![line[i]] = "live"]
        /\ attempts' = [attempts EXCEPT ![line[i]] = attempts[line[i]] + 1]
        /\ worker' = [worker EXCEPT ![w] =
             [pc |-> "handle", job |-> line[i], attempt |-> attempts[line[i]] + 1]]
  BY DEF Claim, NextAttempt
<1> DEFINE j == line[i]
           n == [pc |-> "handle", job |-> j, attempt |-> attempts[j] + 1]
<1>2. j \in Job
  BY DEF TypeOK
<1>3. attempts[j] \in 0..MaxAttempts /\ attempts[j] < MaxAttempts
  BY <1>1, <1>2 DEF TypeOK, Claimable
<1>4. attempts[j] + 1 \in 1..MaxAttempts
  BY <1>3, AttemptsAssumption
<1>5. n \in Tick
  BY <1>2, <1>4 DEF Tick
<1>6. TypeOK'
  <2>1. worker' \in [Worker -> Tick]
    BY <1>1, <1>5 DEF TypeOK
  <2>2. attempts' \in [Job -> 0..MaxAttempts]
    BY <1>1, <1>4 DEF TypeOK
  <2>3. /\ status' \in [Job -> {"absent", "pending", "running", "purged"} \cup Finished]
        /\ lease' \in [Job -> {"none", "live", "lapsed"}]
    BY <1>1, <1>2 DEF TypeOK
  <2>4. UNCHANGED <<line, faults, ghosts>>
    BY DEF Claim
  <2>5. QED BY <2>1, <2>2, <2>3, <2>4 DEF TypeOK, ghosts
<1>7. /\ worker'[w] = n /\ \A v \in Worker \ {w} : worker'[v] = worker[v]
      /\ attempts'[j] = attempts[j] + 1
      /\ \A k \in Job \ {j} : attempts'[k] = attempts[k]
      /\ status'[j] = "running" /\ \A k \in Job \ {j} : status'[k] = status[k]
      /\ performed' = performed
  BY <1>1, <1>2 DEF TypeOK, Claim, ghosts
<1>8. \A v \in Worker \ {w} : ~Free(v) =>
        /\ worker[v].job \in Job /\ worker[v].attempt \in Nat
        /\ worker[v].attempt <= attempts[worker[v].job]
        /\ attempts[worker[v].job] \in Nat
  BY HeldRecord DEF Held, Holding, TypeOK
<1>9. Holding'
  <2> SUFFICES ASSUME NEW v \in Worker, ~Free(v)'
               PROVE  /\ worker'[v].attempt <= attempts'[worker'[v].job]
                      /\ status'[worker'[v].job] # "absent"
                      /\ worker'[v].pc = "complete" =>
                           worker'[v].attempt \in performed'[worker'[v].job]
    BY DEF Holding
  <2>1. CASE v = w
    BY <1>3, <1>7, <2>1
  <2>2. CASE v # w
    BY <1>7, <1>8, <2>2 DEF Holding, Free
  <2>3. QED BY <2>1, <2>2
<1>10. AttemptHeldOnce'
  <2>1. \A v \in Worker \ {w} : ~Free(v) /\ worker[v].job = j =>
          worker[v].attempt # attempts[j] + 1
    BY <1>3, <1>8
  <2>2. QED BY <1>7, <2>1 DEF AttemptHeldOnce, Free
<1>11. QED BY <1>6, <1>9, <1>10

LEMMA HandlerSound ==
  ASSUME Sound, NEW w \in Worker, HandlerReturns(w) \/ HandlerThrows(w)
  PROVE  Sound'
<1> USE DEF Sound
<1>1. ~Free(w)
  BY DEF HandlerReturns, HandlerThrows, Free
<1>2. worker[w].job \in Job /\ worker[w].attempt \in 1..MaxAttempts
  BY <1>1, HeldRecord DEF Held
<1>3. performed \in [Job -> SUBSET (1..MaxAttempts)]
  BY DEF TypeOK
<1>4. /\ worker' \in [Worker -> Tick]
      /\ \A v \in Worker \ {w} : worker'[v] = worker[v]
      /\ worker'[w].pc \in {"complete", "fail"}
      /\ worker'[w].job = worker[w].job /\ worker'[w].attempt = worker[w].attempt
      /\ performed' \in [Job -> SUBSET (1..MaxAttempts)]
      /\ \A j \in Job : performed[j] \subseteq performed'[j]
      /\ worker'[w].pc = "complete" => worker[w].attempt \in performed'[worker[w].job]
  <2>1. CASE HandlerReturns(w)
    <3> DEFINE j == worker[w].job
    <3>1. performed' = [performed EXCEPT ![j] = performed[j] \cup {worker[w].attempt}]
      BY <2>1 DEF HandlerReturns
    <3>2. /\ performed' \in [Job -> SUBSET (1..MaxAttempts)]
          /\ \A k \in Job : performed[k] \subseteq performed'[k]
          /\ worker[w].attempt \in performed'[j]
      BY <1>2, <1>3, <3>1
    <3>3. QED BY <1>1, <2>1, <3>2, HeldStep DEF HandlerReturns
  <2>2. CASE HandlerThrows(w)
    <3>1. performed' = performed
      BY <2>2 DEF HandlerThrows, ghosts
    <3>2. QED BY <1>1, <1>3, <2>2, <3>1, HeldStep DEF HandlerThrows
  <2>3. QED BY <2>1, <2>2
<1>5. UNCHANGED <<status, attempts, lease, line, faults, doubtful>>
  BY DEF HandlerReturns, HandlerThrows, records, ghosts
<1>6. TypeOK'
  BY <1>4, <1>5 DEF TypeOK
<1>7. \A v \in Worker : (Free(v)' <=> Free(v))
  BY <1>1, <1>4 DEF Free
<1>8. \A v \in Worker : ~Free(v) => worker[v].job \in Job
  BY HeldRecord DEF Held
<1>9. Holding'
  BY <1>4, <1>5, <1>7, <1>8 DEF Holding
<1>10. AttemptHeldOnce'
  BY <1>4, <1>7 DEF AttemptHeldOnce
<1>11. QED BY <1>6, <1>9, <1>10

\* A step after which w is free and no job goes back to "absent".
LEMMA FreedSound ==
  ASSUME Sound, NEW w \in Worker, TypeOK', Free(w)',
         \A v \in Worker \ {w} : worker'[v] = worker[v],
         UNCHANGED <<attempts, performed>>,
         \A j \in Job : status'[j] = "absent" => status[j] = "absent"
  PROVE  Sound'
<1>1. \A v \in Worker : ~Free(v)' => v # w /\ ~Free(v) /\ worker'[v] = worker[v]
  BY DEF Free
<1>2. \A v \in Worker : ~Free(v) => worker[v].job \in Job
  BY HeldRecord DEF Held, Sound
<1>3. Holding'
  BY <1>1, <1>2 DEF Sound, Holding
<1>4. AttemptHeldOnce'
  BY <1>1 DEF Sound, AttemptHeldOnce
<1>5. QED BY <1>3, <1>4 DEF Sound

LEMMA ReportSound ==
  ASSUME Sound, NEW w \in Worker, Complete(w) \/ FailJob(w)
  PROVE  Sound'
<1>1. ~Free(w) /\ TypeOK
  BY DEF Complete, FailJob, Free, Sound
<1>2. PICK s \in {"completed", "failed", "pending"} : Report(w, s)
  BY DEF Complete, FailJob
<1>3. worker' = [worker EXCEPT ![w] = [pc |-> "free"]]
      /\ UNCHANGED <<attempts, faults, performed, doubtful>>
  BY DEF Complete, FailJob, ghosts
<1>4. TypeOK'
  BY <1>1, <1>2, <1>3, FreeStep, ReportTyped DEF TypeOK
<1>5. \A j \in Job : status'[j] = "absent" => status[j] = "absent"
  BY <1>1, <1>2, ReportTyped
<1>6. QED BY <1>1, <1>3, <1>4, <1>5, FreeStep, FreedSound

LEMMA FaultSound ==
  ASSUME Sound, NEW w \in Worker, Refuse(w) \/ Crash(w)
  PROVE  Sound'
<1>0. ~Free(w) /\ TypeOK
  BY DEF Refuse, Crash, Free, Sound
<1>1. faults' \in Nat /\ UNCHANGED <<status, attempts, lease, line, performed>>
  BY <1>0 DEF Refuse, Crash, records, ghosts, TypeOK
<1>2. worker[w].job \in Job
  BY <1>0, HeldRecord DEF Held
<1>3. doubtful' \subseteq Job
  BY <1>0, <1>2 DEF Refuse, Crash, ghosts, TypeOK
<1>4. CASE worker' = [worker EXCEPT ![w] = [pc |-> "free"]]
  <2>1. TypeOK'
    BY <1>0, <1>1, <1>3, <1>4, FreeStep DEF TypeOK
  <2>2. QED BY <1>0, <1>1, <1>4, <2>1, FreeStep, FreedSound
<1>5. CASE worker' = [worker EXCEPT ![w].pc = "fail"]
  <2>1. /\ worker' \in [Worker -> Tick]
        /\ \A v \in Worker \ {w} : worker'[v] = worker[v]
        /\ worker'[w].pc = "fail"
        /\ worker'[w].job = worker[w].job /\ worker'[w].attempt = worker[w].attempt
    BY <1>0, <1>5, HeldStep
  <2>2. TypeOK'
    BY <1>0, <1>1, <1>3, <2>1 DEF TypeOK
  <2>3. \A v \in Worker : (Free(v)' <=> Free(v))
    BY <1>0, <2>1 DEF Free
  <2>4. Holding'
    BY <1>1, <2>1, <2>3 DEF Sound, Holding
  <2>5. AttemptHeldOnce'
    BY <2>1, <2>3 DEF Sound, AttemptHeldOnce
  <2>6. QED BY <2>2, <2>4, <2>5 DEF Sound
<1>6. QED BY <1>4, <1>5 DEF Refuse, Crash

LEMMA JobSound ==
  ASSUME Sound, NEW j \in Job, Enqueue(j) \/ Time(j) \/ Purge(j)
  PROVE  Sound'
<1>1. UNCHANGED <<attempts, worker, faults, performed>>
  BY DEF Enqueue, Time, BackoffElapses, LeaseLapses, Purge, ghosts
<1>2. TypeOK'
  <2>1. TypeOK
    BY DEF Sound
  <2>2. CASE Enqueue(j)
    <3>1. line' \in Seq(Job)
      BY <2>1, <2>2 DEF Enqueue, TypeOK
    <3>2. QED BY <1>1, <2>1, <2>2, <3>1 DEF Enqueue, ghosts, TypeOK
  <2>3. CASE BackoffElapses(j)
    <3>1. line' \in Seq(Job)
      BY <2>1, <2>3 DEF BackoffElapses, TypeOK
    <3>2. QED BY <1>1, <2>1, <2>3, <3>1 DEF BackoffElapses, ghosts, TypeOK
  <2>4. CASE LeaseLapses(j)
    BY <1>1, <2>1, <2>4 DEF LeaseLapses, TypeOK
  <2>5. CASE Purge(j)
    BY <1>1, <2>1, <2>5 DEF Purge, ghosts, TypeOK
  <2>6. QED BY <2>2, <2>3, <2>4, <2>5 DEF Time
<1>3. \A k \in Job : status'[k] = "absent" => status[k] = "absent"
  BY DEF Enqueue, Time, BackoffElapses, LeaseLapses, Purge, Sound, TypeOK
<1>4. \A v \in Worker : ~Free(v) => worker[v].job \in Job
  BY HeldRecord DEF Held, Sound
<1>5. Holding'
  BY <1>1, <1>3, <1>4 DEF Sound, Holding, Free
<1>6. AttemptHeldOnce'
  BY <1>1 DEF Sound, AttemptHeldOnce, Free
<1>7. QED BY <1>2, <1>5, <1>6 DEF Sound

LEMMA SoundStep == Sound /\ [Next]_vars => Sound'
<1> SUFFICES ASSUME Sound, [Next]_vars
             PROVE  Sound'
  OBVIOUS
<1>1. CASE UNCHANGED vars
  BY <1>1 DEF vars, records, ghosts, Sound, TypeOK, Holding, AttemptHeldOnce, Free
<1>2. CASE Next
  BY <1>2, ClaimSound, HandlerSound, ReportSound, FaultSound, JobSound
     DEF Next, Work
<1>3. QED BY <1>1, <1>2

\* The variables keep their types, attempts stay within maxAttempts, and no
\* attempt is ever held by two workers.
THEOREM SoundInvariant == Spec => []Sound
  BY SoundInit, SoundStep, PTL DEF Spec

\* The record of a job and what its workers hold keep their types: attempts
\* never exceed maxAttempts, whatever lapses, dies or answers late.
THEOREM QueueTyped == Spec => []TypeOK
<1>1. Sound => TypeOK
  BY DEF Sound
<1>2. QED BY <1>1, SoundInvariant, PTL

\* No attempt is held twice, with any number of processes, lapses and deaths.
THEOREM HeldOnce == Spec => []AttemptHeldOnce
<1>1. Sound => AttemptHeldOnce
  BY DEF Sound
<1>2. QED BY <1>1, SoundInvariant, PTL

(***************************************************************************)
(* Exclusive claims.  Until the lease of a job lapses or its completion is *)
(* refused, a worker that holds it is alone, the record says running, and  *)
(* the job has been performed only if that worker is about to complete it. *)
(***************************************************************************)
Holds(w, j) == ~Free(w) /\ worker[w].job = j

Careful ==
  /\ \A j \in Job : lease[j] = "lapsed" => j \in doubtful
  /\ \A j \in Job \ doubtful, w \in Worker : Holds(w, j) =>
       status[j] = "running" /\ \A v \in Worker \ {w} : ~Holds(v, j)
  /\ \A j \in Job \ doubtful : performed[j] # {} =>
       /\ status[j] \notin {"absent", "pending"}
       /\ \A w \in Worker : Holds(w, j) => worker[w].pc = "complete"
       /\ \E a \in Nat : performed[j] = {a}

LEMMA CarefulInit == Init => Careful
  BY DEF Init, Careful, Holds, Free

LEMMA ClaimCareful ==
  ASSUME Sound, Careful, NEW w \in Worker, Claim(w)
  PROVE  Careful'
<1>1. PICK i \in DOMAIN line :
        /\ Claimable(line[i])
        /\ status' = [status EXCEPT ![line[i]] = "running"]
        /\ lease' = [lease EXCEPT ![line[i]] = "live"]
        /\ worker' = [worker EXCEPT ![w] =
             [pc |-> "handle", job |-> line[i], attempt |-> NextAttempt(line[i])]]
  BY DEF Claim
<1> DEFINE j == line[i]
<1>2. j \in Job
  BY DEF Sound, TypeOK
<1>3. j \notin doubtful => status[j] = "pending"
  BY <1>1, <1>2 DEF Claimable, Careful
<1>4. j \notin doubtful => performed[j] = {} /\ \A v \in Worker : ~Holds(v, j)
  BY <1>2, <1>3 DEF Careful
<1>5. UNCHANGED <<performed, doubtful>>
  BY DEF Claim, ghosts
<1>6. /\ worker'[w].job = j /\ worker'[w].pc = "handle"
      /\ \A v \in Worker \ {w} : worker'[v] = worker[v]
      /\ status'[j] = "running" /\ \A k \in Job \ {j} : status'[k] = status[k]
      /\ lease'[j] = "live" /\ \A k \in Job \ {j} : lease'[k] = lease[k]
  BY <1>1, <1>2 DEF Sound, TypeOK
<1>7. \A v \in Worker, k \in Job : Holds(v, k)' =>
        \/ v = w /\ k = j
        \/ v # w /\ Holds(v, k)
  BY <1>6 DEF Holds, Free
<1> HIDE DEF j
<1>8. \A k \in Job : lease'[k] = "lapsed" => k \in doubtful'
  BY <1>5, <1>6 DEF Careful
<1>9. ASSUME NEW k \in Job \ doubtful, NEW v \in Worker, Holds(v, k)'
      PROVE  status'[k] = "running" /\ \A u \in Worker \ {v} : ~Holds(u, k)'
  BY <1>4, <1>6, <1>7, <1>9 DEF Careful
<1>10. ASSUME NEW k \in Job \ doubtful, performed[k] # {}
       PROVE  /\ status'[k] \notin {"absent", "pending"}
              /\ \A v \in Worker : Holds(v, k)' => worker'[v].pc = "complete"
  BY <1>4, <1>6, <1>7, <1>10 DEF Careful
<1>11. QED BY <1>5, <1>8, <1>9, <1>10 DEF Careful

\* A step of w that claims nothing and settles nothing of a job that is not
\* doubtful, besides performing or releasing the job it holds.
LEMMA CarefulFrame ==
  ASSUME Careful, doubtful \subseteq doubtful',
         \A j \in Job : lease'[j] = "lapsed" => lease[j] = "lapsed" \/ j \in doubtful',
         \A v \in Worker, j \in Job \ doubtful' : Holds(v, j)' =>
           /\ Holds(v, j)
           /\ status'[j] = "running"
           /\ performed'[j] # {} => worker'[v].pc = "complete",
         \A j \in Job \ doubtful' :
           performed'[j] # {} =>
             /\ status'[j] \notin {"absent", "pending"}
             /\ \E a \in Nat : performed'[j] = {a}
  PROVE  Careful'
  BY DEF Careful

LEMMA HandlerCareful ==
  ASSUME Sound, Careful, NEW w \in Worker, HandlerReturns(w) \/ HandlerThrows(w)
  PROVE  Careful'
<1>1. ~Free(w) /\ TypeOK
  BY DEF HandlerReturns, HandlerThrows, Free, Sound
<1> DEFINE k == worker[w].job
<1>2. k \in Job /\ worker[w].attempt \in Nat /\ Holds(w, k)
  BY <1>1, HeldRecord DEF Held, Holds
<1>3. k \notin doubtful => performed[k] = {} /\ status[k] = "running"
  BY <1>2 DEF Careful, HandlerReturns, HandlerThrows
<1>4. UNCHANGED <<status, lease, doubtful>>
  BY DEF HandlerReturns, HandlerThrows, records, ghosts
<1>5. /\ \A v \in Worker \ {w} : worker'[v] = worker[v]
      /\ worker'[w].job = k /\ worker'[w].pc # "free"
      /\ HandlerReturns(w) => worker'[w].pc = "complete"
  <2>1. CASE HandlerReturns(w)
    BY <1>1, <2>1, HeldStep DEF HandlerReturns
  <2>2. CASE HandlerThrows(w)
    BY <1>1, <2>2, HeldStep DEF HandlerThrows, HandlerReturns
  <2>3. QED BY <2>1, <2>2
<1>6. \A v \in Worker, j \in Job : Holds(v, j)' <=> Holds(v, j)
  BY <1>1, <1>5 DEF Holds, Free
<1>7. /\ \A j \in Job \ {k} : performed'[j] = performed[j]
      /\ \/ performed'[k] = performed[k]
         \/ /\ performed'[k] = performed[k] \cup {worker[w].attempt}
            /\ worker'[w].pc = "complete"
  <2>1. CASE HandlerReturns(w)
    BY <1>1, <1>2, <1>5, <2>1 DEF HandlerReturns, TypeOK
  <2>2. CASE HandlerThrows(w)
    BY <2>2 DEF HandlerThrows, ghosts
  <2>3. QED BY <2>1, <2>2
<1> HIDE DEF k
<1>8. ASSUME NEW v \in Worker, NEW j \in Job \ doubtful, Holds(v, j)'
      PROVE  /\ status'[j] = "running"
             /\ performed'[j] # {} => worker'[v].pc = "complete"
  <2>1. Holds(v, j) /\ status[j] = "running"
    BY <1>6, <1>8 DEF Careful
  <2>2. CASE v = w
    <3>1. j = k
      BY <2>1, <2>2 DEF Holds, k
    <3>2. QED BY <1>3, <1>4, <1>7, <2>1, <2>2, <3>1
  <2>3. CASE v # w
    <3>1. j # k
      BY <1>2, <2>1, <2>3 DEF Careful
    <3>2. performed'[j] # {} => worker[v].pc = "complete"
      BY <1>7, <2>1, <3>1 DEF Careful
    <3>3. QED BY <1>4, <1>5, <2>1, <2>3, <3>2
  <2>4. QED BY <2>2, <2>3
<1>9. ASSUME NEW j \in Job \ doubtful, performed'[j] # {}
      PROVE  /\ status'[j] \notin {"absent", "pending"}
             /\ \E a \in Nat : performed'[j] = {a}
  <2>1. CASE j = k
    BY <1>2, <1>3, <1>4, <1>7, <1>9, <2>1
  <2>2. CASE j # k
    BY <1>4, <1>7, <1>9, <2>2 DEF Careful
  <2>3. QED BY <2>1, <2>2
<1>10. QED BY <1>4, <1>6, <1>8, <1>9, CarefulFrame

LEMMA ReportCareful ==
  ASSUME Sound, Careful, NEW w \in Worker, Complete(w) \/ FailJob(w)
  PROVE  Careful'
<1>1. ~Free(w) /\ TypeOK
  BY DEF Complete, FailJob, Free, Sound
<1> DEFINE k == worker[w].job
<1>2. k \in Job /\ Holds(w, k)
  BY <1>1, HeldRecord DEF Held, Holds
<1>3. PICK s \in {"completed", "failed", "pending"} :
        Report(w, s) /\ (s = "completed" \/ worker[w].pc = "fail")
  BY DEF Complete, FailJob
<1>4. /\ \A j \in Job : status'[j] = status[j] \/ (j = k /\ status'[j] = s /\ status[j] = "running")
      /\ \A j \in Job : lease'[j] \in {lease[j], "none"}
  BY <1>1, <1>3, ReportTyped
<1>5. /\ worker' = [worker EXCEPT ![w] = [pc |-> "free"]]
      /\ UNCHANGED <<performed, doubtful>>
  BY DEF Complete, FailJob, ghosts
<1>6. Free(w)' /\ \A v \in Worker \ {w} : worker'[v] = worker[v]
  BY <1>1, <1>5, FreeStep
<1>7. ASSUME NEW v \in Worker, NEW j \in Job \ doubtful, Holds(v, j)'
      PROVE  /\ Holds(v, j)
             /\ status'[j] = "running"
             /\ performed'[j] # {} => worker'[v].pc = "complete"
  <2>1. v # w /\ Holds(v, j) /\ worker'[v] = worker[v]
    BY <1>6, <1>7 DEF Holds, Free
  <2>2. j # k /\ status[j] = "running"
    BY <1>2, <2>1 DEF Careful
  <2>3. QED BY <1>4, <1>5, <2>1, <2>2 DEF Careful
<1>8. ASSUME NEW j \in Job \ doubtful, performed'[j] # {}
      PROVE  /\ status'[j] \notin {"absent", "pending"}
             /\ \E a \in Nat : performed'[j] = {a}
  <2>1. /\ status[j] \notin {"absent", "pending"}
        /\ \E a \in Nat : performed[j] = {a}
        /\ Holds(w, j) => worker[w].pc = "complete"
    BY <1>5, <1>8 DEF Careful
  <2>2. j = k => s = "completed"
    BY <1>2, <1>3, <2>1
  <2>3. QED BY <1>4, <1>5, <2>1, <2>2
<1>9. QED BY <1>4, <1>5, <1>7, <1>8, CarefulFrame

LEMMA FaultCareful ==
  ASSUME Sound, Careful, NEW w \in Worker, Refuse(w) \/ Crash(w)
  PROVE  Careful'
<1>1. ~Free(w) /\ TypeOK
  BY DEF Refuse, Crash, Free, Sound
<1>2. UNCHANGED <<status, lease, performed>> /\ doubtful \subseteq doubtful'
  BY DEF Refuse, Crash, records, ghosts
<1>3. ASSUME NEW v \in Worker, NEW j \in Job \ doubtful', Holds(v, j)'
      PROVE  Holds(v, j) /\ worker'[v].pc = worker[v].pc
  <2>1. CASE worker' = [worker EXCEPT ![w] = [pc |-> "free"]]
    BY <1>1, <1>3, <2>1, FreeStep DEF Holds, Free
  <2>2. CASE Refuse(w) /\ worker[w].pc = "complete"
    <3>1. /\ \A u \in Worker \ {w} : worker'[u] = worker[u]
          /\ worker'[w].job = worker[w].job
      BY <1>1, <2>2, HeldStep DEF Refuse
    <3>2. worker[w].job \in doubtful'
      BY <2>2 DEF Refuse
    <3>3. QED BY <1>3, <3>1, <3>2 DEF Holds, Free
  <2>3. QED BY <2>1, <2>2 DEF Refuse, Crash
<1>4. QED
  <2>1. ASSUME NEW v \in Worker, NEW j \in Job \ doubtful', Holds(v, j)'
        PROVE  /\ Holds(v, j)
               /\ status'[j] = "running"
               /\ performed'[j] # {} => worker'[v].pc = "complete"
    BY <1>2, <1>3, <2>1 DEF Careful
  <2>2. \A j \in Job \ doubtful' : performed'[j] # {} =>
          /\ status'[j] \notin {"absent", "pending"}
          /\ \E a \in Nat : performed'[j] = {a}
    BY <1>2 DEF Careful
  <2>3. QED BY <1>2, <2>1, <2>2, CarefulFrame

LEMMA JobCareful ==
  ASSUME Sound, Careful, NEW j \in Job, Enqueue(j) \/ Time(j) \/ Purge(j)
  PROVE  Careful'
<1>1. UNCHANGED <<worker, performed>> /\ doubtful \subseteq doubtful'
  BY DEF Enqueue, Time, BackoffElapses, LeaseLapses, Purge, ghosts
<1>2. \A k \in Job : lease'[k] = "lapsed" => lease[k] = "lapsed" \/ k \in doubtful'
  BY DEF Enqueue, Time, BackoffElapses, LeaseLapses, Purge, Sound, TypeOK
<1>3. \A k \in Job : \/ status'[k] = status[k]
                     \/ status[k] = "absent"
                     \/ status[k] \in Finished /\ status'[k] = "purged"
  BY DEF Enqueue, Time, BackoffElapses, LeaseLapses, Purge, Sound, TypeOK
<1>4. ASSUME NEW v \in Worker, NEW k \in Job \ doubtful', Holds(v, k)'
      PROVE  /\ Holds(v, k)
             /\ status'[k] = "running"
             /\ performed'[k] # {} => worker'[v].pc = "complete"
  <2>1. Holds(v, k)
    BY <1>1, <1>4 DEF Holds, Free
  <2>2. QED BY <1>1, <1>3, <2>1 DEF Careful, Finished
<1>5. \A k \in Job \ doubtful' : performed'[k] # {} =>
        /\ status'[k] \notin {"absent", "pending"}
        /\ \E a \in Nat : performed'[k] = {a}
  BY <1>1, <1>3 DEF Careful, Finished
<1>6. QED BY <1>1, <1>2, <1>4, <1>5, CarefulFrame

THEOREM CarefulInvariant == Spec => []Careful
<1>1. Sound /\ Careful /\ [Next]_vars => Careful'
  <2> SUFFICES ASSUME Sound, Careful, [Next]_vars
               PROVE  Careful'
    OBVIOUS
  <2>1. CASE UNCHANGED vars
    BY <2>1 DEF vars, records, ghosts, Careful, Holds, Free
  <2>2. CASE Next
    BY <2>2, ClaimCareful, HandlerCareful, ReportCareful, FaultCareful, JobCareful
       DEF Next, Work
  <2>3. QED BY <2>1, <2>2
<1>2. QED BY <1>1, CarefulInit, SoundInvariant, PTL DEF Spec

\* A job is held by two workers only after its lease lapsed or the store
\* refused its completion, with any number of processes.
THEOREM Exclusive == Spec => []ClaimExclusive
<1>1. Sound /\ Careful => ClaimExclusive
  <2> SUFFICES ASSUME Sound, Careful, NEW v \in Worker, NEW w \in Worker,
                      v # w, ~Free(v), ~Free(w), worker[v].job = worker[w].job
               PROVE  worker[v].job \in doubtful
    BY DEF ClaimExclusive
  <2>1. worker[v].job \in Job
    BY HeldRecord DEF Held, Sound
  <2>2. Holds(v, worker[v].job) /\ Holds(w, worker[v].job)
    BY DEF Holds
  <2>3. QED BY <2>1, <2>2 DEF Careful
<1>2. QED BY <1>1, SoundInvariant, CarefulInvariant, PTL

\* The effect of such a job happens at most once.
THEOREM Once == Spec => []EffectOnce
<1>1. Sound /\ Careful => EffectOnce
  <2> SUFFICES ASSUME Sound, Careful, NEW j \in Job \ doubtful
               PROVE  Cardinality(performed[j]) <= 1
    BY DEF EffectOnce
  <2>1. CASE performed[j] = {}
    BY <2>1, FS_EmptySet
  <2>2. CASE performed[j] # {}
    <3>1. PICK a \in Nat : performed[j] = {a}
      BY <2>2 DEF Careful
    <3>2. QED BY <3>1, FS_Singleton
  <2>3. QED BY <2>1, <2>2
<1>2. QED BY <1>1, SoundInvariant, CarefulInvariant, PTL

(***************************************************************************)
(* The queue implements the ledger.                                        *)
(***************************************************************************)
LEMMA Stutters ==
  ASSUME UNCHANGED performed,
         \A j \in Job : Outcome'[j] = Outcome[j]
  PROVE  UNCHANGED <<Outcome, Done>>
  BY DEF Outcome, Done

LEMMA LedgerInit == Init => Ledger!Init
  BY DEF Init, Ledger!Init, Outcome, Done

\* One job changes its outcome, and nothing else happens.
LEMMA OutcomeStep ==
  ASSUME TypeOK, UNCHANGED performed, NEW j \in Job, NEW s,
         status' = [status EXCEPT ![j] = s]
  PROVE  /\ Done' = Done
         /\ Outcome' = [Outcome EXCEPT ![j] =
                          IF s \in {"pending", "running"} THEN "open" ELSE s]
  BY DEF TypeOK, Outcome, Done

LEMMA LedgerReport ==
  ASSUME Sound, NEW w \in Worker, Complete(w) \/ FailJob(w)
  PROVE  Ledger!Next \/ UNCHANGED <<Outcome, Done>>
<1>1. ~Free(w) /\ TypeOK /\ UNCHANGED performed
  BY DEF Complete, FailJob, Free, Sound, ghosts
<1> DEFINE j == worker[w].job
<1>2. j \in Job
  BY <1>1, HeldRecord DEF Held
<1>3. CASE status[j] # "running"
  BY <1>1, <1>3 DEF Complete, FailJob, Report, Outcome, Done
<1>4. CASE status[j] = "running" /\ Complete(w)
  <2>1. status' = [status EXCEPT ![j] = "completed"]
    BY <1>4 DEF Complete, Report
  <2>2. Done' = Done /\ Outcome' = [Outcome EXCEPT ![j] = "completed"]
    BY <1>1, <1>2, <2>1, OutcomeStep
  <2>3. Outcome[j] = "open" /\ Done[j]
    BY <1>1, <1>2, <1>4 DEF Outcome, Done, Sound, Holding, Complete
  <2>4. Ledger!Succeed(j)
    BY <2>2, <2>3 DEF Ledger!Succeed
  <2>5. QED BY <1>2, <2>4 DEF Ledger!Next
<1>5. CASE status[j] = "running" /\ FailJob(w)
  <2>1. PICK s \in {"failed", "pending"} : status' = [status EXCEPT ![j] = s]
    BY <1>5 DEF FailJob, Report
  <2>2. Outcome[j] = "open"
    BY <1>2, <1>5 DEF Outcome
  <2>3. CASE s = "failed"
    <3>1. Done' = Done /\ Outcome' = [Outcome EXCEPT ![j] = "failed"]
      BY <1>1, <1>2, <2>1, <2>3, OutcomeStep
    <3>2. Ledger!GiveUp(j)
      BY <2>2, <3>1 DEF Ledger!GiveUp
    <3>3. QED BY <1>2, <3>2 DEF Ledger!Next
  <2>4. CASE s = "pending"
    BY <1>1, <1>2, <1>5, <2>1, <2>4 DEF Outcome, Done, TypeOK
  <2>5. QED BY <2>3, <2>4
<1>6. QED BY <1>3, <1>4, <1>5

LEMMA LedgerStep ==
  ASSUME Sound, [Next]_vars
  PROVE  Ledger!Next \/ UNCHANGED <<Outcome, Done>>
<1>0. TypeOK
  BY DEF Sound
<1>1. CASE UNCHANGED vars
  BY <1>1 DEF vars, records, ghosts, Outcome, Done
<1>2. ASSUME NEW j \in Job, Enqueue(j)
      PROVE  Ledger!Next
  <2>1. status' = [status EXCEPT ![j] = "pending"] /\ performed' = performed
    BY <1>2 DEF Enqueue, ghosts
  <2>2. Done' = Done /\ Outcome' = [Outcome EXCEPT ![j] = "open"]
    BY <1>0, <2>1, OutcomeStep
  <2>3. Outcome[j] = "absent"
    BY <1>2 DEF Enqueue, Outcome
  <2>4. Ledger!Accept(j)
    BY <2>2, <2>3 DEF Ledger!Accept
  <2>5. QED BY <2>4 DEF Ledger!Next
<1>3. ASSUME NEW j \in Job, Purge(j)
      PROVE  Ledger!Next
  <2>1. status' = [status EXCEPT ![j] = "purged"] /\ performed' = performed
    BY <1>3 DEF Purge, ghosts
  <2>2. Done' = Done /\ Outcome' = [Outcome EXCEPT ![j] = "purged"]
    BY <1>0, <2>1, OutcomeStep
  <2>3. Outcome[j] \in {"completed", "failed"}
    BY <1>3 DEF Purge, Outcome, Finished
  <2>4. Ledger!Purge(j)
    BY <2>2, <2>3 DEF Ledger!Purge
  <2>5. QED BY <2>4 DEF Ledger!Next
<1>4. ASSUME NEW j \in Job, Time(j)
      PROVE  UNCHANGED <<Outcome, Done>>
  BY <1>4 DEF Time, BackoffElapses, LeaseLapses, ghosts, Outcome, Done
<1>5. ASSUME NEW w \in Worker, HandlerReturns(w)
      PROVE  Ledger!Next
  <2> DEFINE j == worker[w].job
  <2>1. ~Free(w) /\ j \in Job
    BY <1>0, <1>5, HeldRecord DEF HandlerReturns, Free, Held
  <2>2. performed' = [performed EXCEPT ![j] = @ \cup {worker[w].attempt}]
        /\ status' = status
    BY <1>5 DEF HandlerReturns, records
  <2>3. Outcome' = Outcome
    BY <2>2 DEF Outcome
  <2>4. Done' = [Done EXCEPT ![j] = TRUE]
    <3>1. \A k \in Job : performed'[k] # {} <=> IF k = j THEN TRUE ELSE performed[k] # {}
      BY <1>0, <2>1, <2>2 DEF TypeOK
    <3>2. QED BY <3>1 DEF Done
  <2>5. Outcome[j] # "absent"
    BY <2>1 DEF Sound, Holding, Outcome
  <2>6. Ledger!Perform(j)
    BY <2>3, <2>4, <2>5 DEF Ledger!Perform
  <2>7. QED BY <2>1, <2>6 DEF Ledger!Next
<1>6. ASSUME NEW w \in Worker, HandlerThrows(w) \/ Refuse(w) \/ Crash(w)
      PROVE  UNCHANGED <<Outcome, Done>>
  BY <1>6 DEF HandlerThrows, Refuse, Crash, records, ghosts, Outcome, Done
<1>7. ASSUME NEW w \in Worker, Claim(w)
      PROVE  UNCHANGED <<Outcome, Done>>
  <2>1. PICK i \in DOMAIN line :
          Claimable(line[i]) /\ status' = [status EXCEPT ![line[i]] = "running"]
    BY <1>7 DEF Claim
  <2>2. line[i] \in Job /\ status[line[i]] \in {"pending", "running"}
    BY <1>0, <2>1 DEF TypeOK, Claimable
  <2>3. performed' = performed
    BY <1>7 DEF Claim, ghosts
  <2>4. \A k \in Job : Outcome'[k] = Outcome[k]
    BY <1>0, <2>1, <2>2 DEF Outcome, TypeOK
  <2>5. QED BY <2>3, <2>4, Stutters
<1>8. QED
  BY <1>1, <1>2, <1>3, <1>4, <1>5, <1>6, <1>7, LedgerReport DEF Next, Work

\* The queue, with stale workers, deaths and refused calls, implements the
\* ledger: completed only after performed, and an end once reported stands.
THEOREM Implements == Spec => LedgerSpec
<1>1. Sound /\ [Next]_vars => [Ledger!Next]_<<Outcome, Done>>
  BY LedgerStep
<1>2. QED
  BY <1>1, LedgerInit, SoundInvariant, PTL DEF Spec, LedgerSpec, Ledger!Spec

(***************************************************************************)
(* A single backend process.  What a worker holds is then always the last  *)
(* attempt that was counted, so that Terminal, which looks at the attempt  *)
(* the worker claimed, never puts an exhausted job back.                   *)
(***************************************************************************)
Latest ==
  /\ \A w \in Worker : ~Free(w) => worker[w].attempt = attempts[worker[w].job]
  /\ \A j \in Job : status[j] = "absent" => attempts[j] = 0
  /\ PendingHasAttempts

LEMMA LatestStep ==
  ASSUME \A v, w \in Worker : v = w, Sound, Latest, [Next]_vars
  PROVE  Latest'
<1>0. /\ TypeOK
      /\ \A w \in Worker : ~Free(w) => worker[w].job \in Job
  BY HeldRecord DEF Sound, Held
<1>1. CASE UNCHANGED vars
  BY <1>1 DEF vars, records, Latest, PendingHasAttempts, Free
<1>2. ASSUME NEW j \in Job, Enqueue(j)
      PROVE  Latest'
  <2>1. attempts[j] = 0
    BY <1>2 DEF Enqueue, Latest
  <2>2. QED BY <1>0, <1>2, <2>1, AttemptsAssumption
            DEF Enqueue, Latest, PendingHasAttempts, Free, TypeOK
<1>3. ASSUME NEW j \in Job, Time(j) \/ Purge(j)
      PROVE  Latest'
  BY <1>0, <1>3 DEF Time, BackoffElapses, LeaseLapses, Purge, Latest,
                    PendingHasAttempts, Free, TypeOK
<1>4. ASSUME NEW w \in Worker, Claim(w)
      PROVE  Latest'
  <2>1. PICK i \in DOMAIN line :
          /\ status' = [status EXCEPT ![line[i]] = "running"]
          /\ attempts' = [attempts EXCEPT ![line[i]] = attempts[line[i]] + 1]
          /\ worker' = [worker EXCEPT ![w] =
               [pc |-> "handle", job |-> line[i], attempt |-> attempts[line[i]] + 1]]
    BY <1>4 DEF Claim, NextAttempt
  <2>2. line[i] \in Job
    BY <1>0 DEF TypeOK
  <2>3. worker'[w].attempt = attempts'[worker'[w].job]
    BY <1>0, <2>1, <2>2 DEF TypeOK
  <2>4. \A j \in Job : status'[j] = "pending" =>
          status[j] = "pending" /\ attempts'[j] = attempts[j]
    BY <1>0, <2>1, <2>2 DEF TypeOK
  <2>5. \A j \in Job : status'[j] = "absent" =>
          status[j] = "absent" /\ attempts'[j] = attempts[j]
    BY <1>0, <2>1, <2>2 DEF TypeOK
  <2>6. \A v \in Worker : v = w
    OBVIOUS
  <2>7. PendingHasAttempts'
    BY <2>4 DEF Latest, PendingHasAttempts
  <2>8. \A j \in Job : status'[j] = "absent" => attempts'[j] = 0
    BY <2>5 DEF Latest
  <2>9. QED BY <2>3, <2>6, <2>7, <2>8 DEF Latest
<1>5. ASSUME NEW w \in Worker, HandlerReturns(w) \/ HandlerThrows(w)
      PROVE  Latest'
  <2>1. ~Free(w)
    BY <1>5 DEF HandlerReturns, HandlerThrows, Free
  <2>2. /\ worker'[w].job = worker[w].job
        /\ worker'[w].attempt = worker[w].attempt
    BY <1>0, <1>5, <2>1, HeldStep DEF HandlerReturns, HandlerThrows
  <2>3. UNCHANGED records
    BY <1>5 DEF HandlerReturns, HandlerThrows
  <2>4. QED BY <2>1, <2>2, <2>3 DEF records, Latest, PendingHasAttempts, Free
<1>6. ASSUME NEW w \in Worker, Complete(w) \/ FailJob(w)
      PROVE  Latest'
  <2>1. ~Free(w) /\ attempts' = attempts
    BY <1>6 DEF Complete, FailJob, Free
  <2>2. Free(w)'
    BY <1>0, <1>6, FreeStep DEF Complete, FailJob
  <2> DEFINE j == worker[w].job
  <2>3. j \in Job /\ worker[w].attempt = attempts[j]
    BY <1>0, <2>1 DEF Latest
  <2>4. \A k \in Job \ {j} : status'[k] = status[k]
    BY <1>0, <1>6 DEF Complete, FailJob, Report, TypeOK
  <2>5. status'[j] = "pending" => status[j] = "pending" \/ attempts[j] < MaxAttempts
    <3>1. CASE Complete(w)
      BY <1>0, <2>3, <3>1 DEF Complete, Report, TypeOK
    <3>2. CASE FailJob(w)
      BY <1>0, <2>3, <3>2, AttemptsAssumption DEF FailJob, Report, Terminal, TypeOK
    <3>3. QED BY <1>6, <3>1, <3>2
  <2>6. status'[j] = "absent" => status[j] = "absent"
    <3>1. CASE Complete(w)
      BY <1>0, <2>3, <3>1 DEF Complete, Report, TypeOK
    <3>2. CASE FailJob(w)
      BY <1>0, <2>3, <3>2 DEF FailJob, Report, TypeOK
    <3>3. QED BY <1>6, <3>1, <3>2
  <2>7. \A v \in Worker : v = w
    OBVIOUS
  <2>8. PendingHasAttempts'
    BY <2>1, <2>3, <2>4, <2>5 DEF Latest, PendingHasAttempts
  <2>9. \A k \in Job : status'[k] = "absent" => attempts'[k] = 0
    BY <2>1, <2>3, <2>4, <2>6 DEF Latest
  <2>10. QED BY <2>2, <2>7, <2>8, <2>9 DEF Latest, Free
<1>7. ASSUME NEW w \in Worker, Refuse(w) \/ Crash(w)
      PROVE  Latest'
  <2>1. ~Free(w) /\ UNCHANGED records
    BY <1>7 DEF Refuse, Crash, Free
  <2>2. \/ Free(w)'
        \/ /\ worker'[w].job = worker[w].job
           /\ worker'[w].attempt = worker[w].attempt
    BY <1>0, <1>7, <2>1, FreeStep, HeldStep DEF Refuse, Crash
  <2>3. QED BY <2>1, <2>2 DEF records, Latest, PendingHasAttempts
<1>8. QED
  BY <1>1, <1>2, <1>3, <1>4, <1>5, <1>6, <1>7 DEF Next, Work

\* With one backend process, a pending job can always be claimed: no job is put
\* back after its last attempt.  With two, a worker that lost its lease may put
\* back a job whose last attempt the other holds.
THEOREM PendingSafe ==
  ASSUME \A v, w \in Worker : v = w
  PROVE  Spec => []PendingHasAttempts
<1>1. Init => Latest
  BY DEF Init, Latest, PendingHasAttempts, Free
<1>2. Sound /\ Latest /\ [Next]_vars => Latest'
  BY LatestStep
<1>3. Latest => PendingHasAttempts
  BY DEF Latest
<1>4. QED BY <1>1, <1>2, <1>3, SoundInvariant, PTL DEF Spec
=============================================================================
