--------------------------- MODULE PublishProofs ---------------------------
(***************************************************************************)
(* Proofs that a workspace at rest is published (SyncedAtRest) and that    *)
(* publications that wait have attempts left, for any number of saves,     *)
(* publications, pushes by others, imports and faults, with one process.   *)
(*                                                                         *)
(* The invariant: documents that no push has carried are owed by a call    *)
(* of schedule(), by a job that will run, or by a publication that has yet *)
(* to read them or has read just these (Owed); and as long as two          *)
(* publications were not in the clone at once, the clone holds what the    *)
(* one in it has written (Undisturbed).                                    *)
(***************************************************************************)
EXTENDS Publish, JobsProofs

Stage == {"idle", "source", "fetch", "clear", "write", "status", "push", "done", "error"}
Inside(x) == pub[x].pc \in {"fetch", "clear", "write", "status", "push"}

\* A version on the remote was pushed.
PublishTyped ==
  /\ Sound /\ PublishTypes
  /\ IsFiniteSet(pushed) /\ (remote # None => remote \in pushed)

\* Two publications are in the clone at once only if that is excused; otherwise
\* it holds what the one has written.
Undisturbed ==
  ~excused =>
    /\ ~(Inside("auto") /\ Inside("manual"))
    /\ \A x \in Who : /\ pub[x].pc = "status" => clone.files = pub[x].seen
                      /\ pub[x].pc = "push" => clone.head = pub[x].seen

\* The publication of the job has yet to read the documents, or read them as they
\* are, or failed.
Carrying ==
  \/ pub["auto"].pc \in {"source", "fetch", "clear", "error"}
  \/ pub["auto"].pc \in {"write", "status", "push"} /\ pub["auto"].seen = doc

\* A job that will be tried again, is under way with these documents, or is dead.
Open(j) ==
  \/ status[j] \in {"pending", "failed"}
  \/ /\ status[j] = "running"
     /\ \A w \in Worker : ~Free(w) /\ worker[w].job = j =>
          worker[w].pc = "fail" \/ (worker[w].pc = "handle" /\ Carrying)

Owed ==
  doc \notin pushed /\ ~excused => \E j \in Job : sched[j] \in {"source", "enqueue"} \/ Open(j)

SyncInv == PublishTyped /\ Undisturbed /\ Owed

-----------------------------------------------------------------------------
(* What the steps have in common. *)

\* There is always a version nobody has used.
LEMMA FreshNat ==
  ASSUME PublishTyped
  PROVE  Fresh \in Nat
<1>1. IsFiniteSet(Newest)
  <2>1. IsFiniteSet({doc}) /\ IsFiniteSet({index}) /\ IsFiniteSet(pushed)
    BY FS_Singleton DEF PublishTyped
  <2>2. IsFiniteSet({doc} \cup {index})
    BY <2>1, FS_Union
  <2>3. {doc, index} = {doc} \cup {index}
    OBVIOUS
  <2>4. QED
    BY <2>1, <2>2, <2>3, FS_Union DEF Newest
<1>2. Cardinality(Newest) \in Nat
  BY <1>1, FS_CardinalityType
<1>3. IsFiniteSet(0..Cardinality(Newest)) /\ Cardinality(0..Cardinality(Newest)) = Cardinality(Newest) + 1
  BY <1>2, FS_Interval
<1>4. ~(0..Cardinality(Newest) \subseteq Newest)
  BY <1>1, <1>2, <1>3, FS_Subset
<1>5. \E v \in 0..Cardinality(Newest) : v \notin Newest
  BY <1>4
<1>6. Fresh \in 0..Cardinality(Newest)
  BY <1>5 DEF Fresh
<1>7. QED
  BY <1>2, <1>6

LEMMA Typing ==
  ASSUME PublishTyped
  PROVE  /\ doc \in Nat /\ remote \in Nat \cup {None} /\ index \in Nat \cup {None}
         /\ source \in [two: BOOLEAN, remote: BOOLEAN]
         /\ sched \in [Job -> {"unused", "source", "enqueue", "done"}]
         /\ clone \in [head: Nat \cup {None}, base: Nat \cup {None}, files: Nat \cup {None}]
         /\ pub \in [Who -> [pc: Stage, seen: Nat \cup {None}]]
         /\ foreign \in Nat /\ pushed \subseteq Nat /\ excused \in BOOLEAN
BY DEF PublishTyped, PublishTypes, Version, Stage

\* A publication takes a step.
LEMMA StepPub ==
  ASSUME PublishTyped, NEW x \in Who, NEW pc \in Stage, Step(x, pc)
  PROVE  /\ pub' \in [Who -> [pc: Stage, seen: Nat \cup {None}]]
         /\ pub'[x].pc = pc /\ pub'[x].seen = pub[x].seen
         /\ \A y \in Who : y # x => pub'[y] = pub[y]
<1>1. pub \in [Who -> [pc: Stage, seen: Nat \cup {None}]]
  BY Typing
<1>2. QED
  BY <1>1 DEF Step

LEMMA RestPub ==
  ASSUME PublishTyped, NEW x \in Who, pub' = [pub EXCEPT ![x] = Rest]
  PROVE  /\ pub' \in [Who -> [pc: Stage, seen: Nat \cup {None}]] /\ pub'[x].pc = "idle"
         /\ \A y \in Who : y # x => pub'[y] = pub[y]
<1>1. Rest \in [pc: Stage, seen: Nat \cup {None}] /\ Rest.pc = "idle"
  BY DEF Rest, Stage
<1>2. QED
  BY <1>1, Typing

LEMMA UndisturbedFrame ==
  ASSUME Undisturbed, excused => excused', clone' = clone,
         \A x \in Who : pub'[x] = pub[x] \/ pub'[x].pc \notin {"fetch", "clear", "write", "status", "push"}
  PROVE  Undisturbed'
<1>1. "auto" \in Who /\ "manual" \in Who
  BY DEF Who
<1>2. QED
  BY <1>1 DEF Undisturbed, Inside

\* What is owed stays so, whatever else happens to publications that carry it.
LEMMA OwedFrame ==
  ASSUME Owed, doc' = doc, pushed \subseteq pushed', excused => excused',
         \A j \in Job : sched[j] \in {"source", "enqueue"} => sched'[j] \in {"source", "enqueue"},
         UNCHANGED <<status, worker>>,
         doc \notin pushed' /\ ~excused' => (Carrying => Carrying')
  PROVE  Owed'
<1>1. SUFFICES ASSUME doc \notin pushed', ~excused'
               PROVE  \E j \in Job : sched'[j] \in {"source", "enqueue"} \/ Open(j)'
  BY DEF Owed
<1>2. PICK j \in Job : sched[j] \in {"source", "enqueue"} \/ Open(j)
  BY <1>1 DEF Owed
<1>3. Open(j) => Open(j)'
  BY <1>1 DEF Open, Free
<1>4. QED
  BY <1>2, <1>3

LEMMA InitSync == PublishInit => SyncInv
<1> SUFFICES ASSUME PublishInit PROVE SyncInv
  OBVIOUS
<1>1. Sound
  BY SoundInit DEF PublishInit
<1>2. /\ doc = 0 /\ remote \in {None, 0} /\ source = [two |-> TRUE, remote |-> TRUE]
      /\ sched = [j \in Job |-> "unused"] /\ clone = [head |-> None, base |-> None, files |-> None]
      /\ pub = [x \in Who |-> Rest] /\ index = None /\ foreign = 0
      /\ pushed = {0} /\ excused = FALSE
  BY DEF PublishInit
<1>3. PublishTypes
  <2>1. Rest \in [pc: Stage, seen: Nat \cup {None}]
    BY DEF Rest, Stage
  <2>2. pub \in [Who -> [pc: Stage, seen: Nat \cup {None}]]
    BY <1>2, <2>1
  <2>3. /\ source \in [two: BOOLEAN, remote: BOOLEAN]
        /\ sched \in [Job -> {"unused", "source", "enqueue", "done"}]
    BY <1>2
  <2>4. clone \in [head: Nat \cup {None}, base: Nat \cup {None}, files: Nat \cup {None}]
    BY <1>2
  <2>5. /\ doc \in Nat /\ remote \in Nat \cup {None} /\ index \in Nat \cup {None}
        /\ foreign \in Nat /\ pushed \subseteq Nat
    BY <1>2
  <2>6. excused \in BOOLEAN
    BY <1>2, Zenon
  <2>7. QED
    BY <2>2, <2>3, <2>4, <2>5, <2>6 DEF PublishTypes, Version, Stage
<1>4. IsFiniteSet(pushed)
  BY <1>2, FS_Singleton
<1>5. Undisturbed
  BY <1>2 DEF Undisturbed, Inside, Rest, Who
<1>6. QED
  BY <1>1, <1>2, <1>3, <1>4, <1>5 DEF SyncInv, PublishTyped, Owed

\* The queue under the publications takes steps of its own, or none, or another
\* fault is counted.
LEMMA QueueMoves ==
  ASSUME PublishNext
  PROVE  [Next]_vars \/ (UNCHANGED <<records, worker, ghosts>> /\ faults' = faults + 1)
<1>1. CASE Queue
  BY <1>1 DEF Queue, Next, Work
<1>2. ASSUME NEW j \in Job, Save(j) \/ QueueIfEnabled(j) \/ QueuePublication(j) \/ LoseSchedule(j)
      PROVE  [Next]_vars \/ (UNCHANGED <<records, worker, ghosts>> /\ faults' = faults + 1)
  BY <1>2 DEF Save, QueueIfEnabled, QueuePublication, LoseSchedule, Next
<1>3. ASSUME NEW w \in Worker, ClaimPublication(w) \/ EndPublication(w) \/ Die(w)
      PROVE  [Next]_vars
  BY <1>3 DEF ClaimPublication, EndPublication, Die, Next, Work
<1>4. ASSUME NEW x \in Who, Publishing(x)
      PROVE  [Next]_vars \/ (UNCHANGED <<records, worker, ghosts>> /\ faults' = faults + 1)
  <2>1. CASE ReadSource(x) \/ Fetch(x) \/ ReadDocs(x) \/ WriteFiles(x) \/ Commit(x) \/ Push(x)
    BY <2>1 DEF ReadSource, Fetch, ReadDocs, WriteFiles, Commit, Push
  <2>2. CASE GoOn(x) \/ PushRefused(x)
    BY <2>2 DEF GoOn, PushRefused, vars
  <2>3. QED
    BY <1>4, <2>1, <2>2 DEF Publishing
<1>5. CASE SourceRequest \/ AnswerPublication \/ ForeignPush \/ FinishIndex
  BY <1>5 DEF SourceRequest, PublishNow, StartIndex, SetSource, AnswerPublication, ForeignPush, FinishIndex
<1>6. QED
  BY <1>1, <1>2, <1>3, <1>4, <1>5 DEF PublishNext

LEMMA QueueSound ==
  ASSUME Sound, PublishNext
  PROVE  Sound' /\ (Latest => Latest')
<1>1. CASE [Next]_vars
  BY <1>1, SoundStep, LatestStep, ProcessAssumption
<1>2. CASE UNCHANGED <<records, worker, ghosts>> /\ faults' = faults + 1
  <2>1. TypeOK'
    BY <1>2 DEF Sound, TypeOK, records, ghosts
  <2>2. Holding' /\ AttemptHeldOnce'
    BY <1>2 DEF Sound, Holding, AttemptHeldOnce, Free, records, ghosts
  <2>3. Latest => Latest'
    BY <1>2 DEF Latest, PendingHasAttempts, Free, records
  <2>4. QED
    BY <2>1, <2>2, <2>3 DEF Sound
<1>3. QED
  BY <1>1, <1>2, QueueMoves

-----------------------------------------------------------------------------
(* The steps.  Each lemma leaves the queue to QueueSound. *)

\* Everything but the queue of PublishTyped.
Published ==
  /\ PublishTypes /\ IsFiniteSet(pushed) /\ (remote # None => remote \in pushed)

LEMMA SchedSync ==
  ASSUME SyncInv, NEW j \in Job,
         Save(j) \/ QueueIfEnabled(j) \/ QueuePublication(j) \/ LoseSchedule(j)
  PROVE  Published' /\ Undisturbed' /\ Owed'
<1>1. UNCHANGED <<source, clone, remote, pub, index, foreign, pushed>> /\ (excused => excused')
  <2>1. UNCHANGED <<source, clone, remote, pub, index, foreign, pushed>>
    BY DEF Save, QueueIfEnabled, QueuePublication, LoseSchedule
  <2>2. CASE QueueIfEnabled(j)
    BY <2>2 DEF QueueIfEnabled
  <2>3. CASE Save(j) \/ QueuePublication(j)
    BY <2>3 DEF Save, QueuePublication
  <2>4. CASE LoseSchedule(j)
    BY <2>4 DEF LoseSchedule
  <2>5. QED
    BY <2>1, <2>2, <2>3, <2>4
<1>2. PublishTyped /\ Owed /\ Undisturbed
  BY DEF SyncInv
<1>3. Undisturbed'
  BY <1>1, <1>2, UndisturbedFrame
<1>4. excused' \in BOOLEAN /\ doc' \in Nat /\ sched' \in [Job -> {"unused", "source", "enqueue", "done"}]
  BY <1>2, Typing, FreshNat DEF Save, QueueIfEnabled, QueuePublication, LoseSchedule
<1>5. Published'
  BY <1>1, <1>2, <1>4 DEF PublishTyped, Published, PublishTypes, Version
<1>6. sched \in [Job -> {"unused", "source", "enqueue", "done"}] /\ status \in [Job -> {"absent", "pending", "running", "purged"} \cup Finished]
  BY <1>2, Typing DEF PublishTyped, Sound, TypeOK
<1>7. Owed'
  <2>1. CASE Save(j)
    <3>1. sched'[j] = "source"
      BY <1>6, <2>1 DEF Save
    <3>2. QED
      BY <3>1 DEF Owed
  <2>2. CASE LoseSchedule(j)
    BY <2>2 DEF LoseSchedule, Owed
  <2>3. CASE QueueIfEnabled(j)
    <3>1. CASE source.two
      <4>1. sched'[j] = "enqueue"
        BY <1>6, <2>3, <3>1 DEF QueueIfEnabled
      <4>2. QED
        BY <4>1 DEF Owed
    <3>2. CASE ~source.two
      BY <2>3, <3>2 DEF QueueIfEnabled, Owed
    <3>3. QED
      BY <3>1, <3>2
  <2>4. CASE QueuePublication(j)
    <3>1. status'[j] = "pending"
      BY <1>6, <2>4 DEF QueuePublication, Enqueue
    <3>2. QED
      BY <3>1 DEF Owed, Open
  <2>5. QED
    BY <2>1, <2>2, <2>3, <2>4
<1>8. QED
  BY <1>3, <1>5, <1>7

\* A claim makes a pending job, or one whose lease lapsed, a running one, which
\* is about to read the documents.
LEMMA ClaimSync ==
  ASSUME SyncInv, NEW w \in Worker, ClaimPublication(w)
  PROVE  Published' /\ Undisturbed' /\ Owed'
<1>1. /\ Claim(w) /\ Step("auto", "source")
      /\ UNCHANGED <<doc, source, sched, clone, remote, index, foreign, pushed, excused>>
  BY DEF ClaimPublication
<1>2. PublishTyped /\ Owed /\ Undisturbed /\ "auto" \in Who /\ "source" \in Stage
  BY DEF SyncInv, Who, Stage
<1>3. /\ pub' \in [Who -> [pc: Stage, seen: Nat \cup {None}]] /\ pub'["auto"].pc = "source"
      /\ \A y \in Who : y # "auto" => pub'[y] = pub[y]
  BY <1>1, <1>2, StepPub
<1>4. Published'
  BY <1>1, <1>2, <1>3 DEF PublishTyped, Published, PublishTypes, Version, Stage
<1>5. Undisturbed'
  BY <1>1, <1>2, <1>3, UndisturbedFrame
<1>6. PICK i \in DOMAIN line :
        /\ Free(w)
        /\ status' = [status EXCEPT ![line[i]] = "running"]
        /\ worker' = [worker EXCEPT ![w] = [pc |-> "handle", job |-> line[i], attempt |-> NextAttempt(line[i])]]
  BY <1>1 DEF Claim
<1>7. /\ status \in [Job -> {"absent", "pending", "running", "purged"} \cup Finished]
      /\ worker \in [Worker -> Tick]
  BY <1>2 DEF PublishTyped, Sound, TypeOK
<1>8. Carrying'
  BY <1>3 DEF Carrying
<1>9. worker'[w].pc = "handle" /\ worker'[w].job = line[i] /\ \A v \in Worker : v = w
  BY <1>6, <1>7, ProcessAssumption
<1>10. Owed'
  <2>1. SUFFICES ASSUME doc \notin pushed, ~excused
                 PROVE  \E j \in Job : sched'[j] \in {"source", "enqueue"} \/ Open(j)'
    BY <1>1 DEF Owed
  <2>2. PICK j \in Job : sched[j] \in {"source", "enqueue"} \/ Open(j)
    BY <1>2, <2>1 DEF Owed
  <2>3. status'[j] = "running" \/ status'[j] = status[j]
    BY <1>6, <1>7
  <2>4. Open(j) => Open(j)'
    BY <1>8, <1>9, <2>3 DEF Open
  <2>5. QED
    BY <1>1, <2>2, <2>4
<1>11. QED
  BY <1>4, <1>5, <1>10

\* The handler returns after a publication that carries nothing more, and throws
\* after one that failed.
LEMMA EndSync ==
  ASSUME SyncInv, NEW w \in Worker, EndPublication(w)
  PROVE  Published' /\ Undisturbed' /\ Owed'
<1>1. /\ pub' = [pub EXCEPT !["auto"] = Rest] /\ worker[w].pc = "handle"
      /\ UNCHANGED <<doc, source, sched, clone, remote, index, foreign, pushed, excused, status>>
  BY DEF EndPublication, HandlerReturns, HandlerThrows, records
<1>2. PublishTyped /\ Owed /\ Undisturbed /\ "auto" \in Who /\ Sound /\ TypeOK
  BY DEF SyncInv, Who, PublishTyped, Sound
<1>3. /\ pub' \in [Who -> [pc: Stage, seen: Nat \cup {None}]] /\ pub'["auto"].pc = "idle"
      /\ \A y \in Who : y # "auto" => pub'[y] = pub[y]
  BY <1>1, <1>2, RestPub
<1>4. Published'
  BY <1>1, <1>2, <1>3 DEF PublishTyped, Published, PublishTypes, Version, Stage
<1>5. Undisturbed'
  BY <1>1, <1>2, <1>3, UndisturbedFrame
<1>6. ~Free(w)
  BY <1>1 DEF Free
<1>7. worker'[w].job = worker[w].job /\ \A v \in Worker : v = w
  BY <1>2, <1>6, HeldStep, ProcessAssumption DEF EndPublication, HandlerReturns, HandlerThrows
<1>8. Owed'
  <2>1. SUFFICES ASSUME doc \notin pushed, ~excused
                 PROVE  \E j \in Job : sched'[j] \in {"source", "enqueue"} \/ Open(j)'
    BY <1>1 DEF Owed
  <2>2. PICK j \in Job : sched[j] \in {"source", "enqueue"} \/ Open(j)
    BY <1>2, <2>1 DEF Owed
  <2>3. CASE pub["auto"].pc = "error" /\ HandlerThrows(w)
    <3>1. worker'[w].pc = "fail"
      BY <1>2, <1>6, <2>3, HeldStep DEF HandlerThrows
    <3>2. Open(j) => Open(j)'
      BY <1>1, <1>7, <3>1 DEF Open
    <3>3. QED
      BY <1>1, <2>2, <3>2
  <2>4. CASE pub["auto"].pc = "done"
    <3>1. ~Carrying
      BY <2>4 DEF Carrying
    <3>2. Open(j) => status[j] \in {"pending", "failed"} \/ worker[w].job # j
      BY <1>1, <1>6, <3>1 DEF Open
    <3>3. Open(j) => Open(j)'
      BY <1>1, <1>7, <3>2 DEF Open
    <3>4. QED
      BY <1>1, <2>2, <3>3
  <2>5. QED
    BY <2>3, <2>4 DEF EndPublication
<1>9. QED
  BY <1>4, <1>5, <1>8

LEMMA DieSync ==
  ASSUME SyncInv, NEW w \in Worker, Die(w)
  PROVE  Published' /\ Undisturbed' /\ Owed'
<1>1. /\ pub' = [x \in Who |-> Rest] /\ index' = None
      /\ sched' = [j \in Job |-> IF sched[j] = "unused" THEN "unused" ELSE "done"]
      /\ UNCHANGED <<doc, source, clone, remote, foreign, pushed, status>>
      /\ worker' = [worker EXCEPT ![w] = [pc |-> "free"]]
      /\ excused' = (excused \/ index # None \/ \E j \in Job : sched[j] \in {"source", "enqueue"})
  BY DEF Die, Crash, records
<1>2. PublishTyped /\ Owed /\ Undisturbed /\ TypeOK
  BY DEF SyncInv, PublishTyped, Sound
<1>3. /\ pub' \in [Who -> [pc: Stage, seen: Nat \cup {None}]] /\ \A y \in Who : pub'[y].pc = "idle"
  BY <1>1 DEF Rest, Stage
<1>4. excused' \in BOOLEAN /\ sched' \in [Job -> {"unused", "source", "enqueue", "done"}]
  BY <1>1
<1>5. Published'
  BY <1>1, <1>2, <1>3, <1>4 DEF PublishTyped, Published, PublishTypes, Version, Stage
<1>6. Undisturbed'
  BY <1>1, <1>2, <1>3, UndisturbedFrame
<1>7. Free(w)' /\ \A v \in Worker : v = w
  BY <1>1, <1>2, FreeStep, ProcessAssumption
<1>8. Owed'
  <2>1. SUFFICES ASSUME doc \notin pushed, ~excused, \A j \in Job : sched[j] \notin {"source", "enqueue"}
                 PROVE  \E j \in Job : Open(j)'
    BY <1>1 DEF Owed
  <2>2. PICK j \in Job : Open(j)
    BY <1>2, <2>1 DEF Owed
  <2>3. Open(j)'
    BY <1>1, <1>7, <2>2 DEF Open
  <2>4. QED
    BY <2>3
<1>9. QED
  BY <1>5, <1>6, <1>8

\* A publication that has just begun, or is answered.
LEMMA ManualSync ==
  ASSUME SyncInv, PublishNow \/ AnswerPublication
  PROVE  Published' /\ Undisturbed' /\ Owed'
<1>1. UNCHANGED <<vars, doc, source, sched, clone, remote, index, pushed, excused>>
  BY DEF PublishNow, AnswerPublication
<1>2. UNCHANGED <<status, worker>>
  BY <1>1 DEF vars, records
<1>3. PublishTyped /\ Owed /\ Undisturbed /\ "manual" \in Who /\ "source" \in Stage /\ foreign \in Nat
  BY Typing DEF SyncInv, Who, Stage
<1>4. foreign' \in Nat
  BY <1>3 DEF PublishNow, AnswerPublication, Foreign
<1>5. /\ pub' \in [Who -> [pc: Stage, seen: Nat \cup {None}]] /\ pub'["manual"].pc \in {"source", "idle"}
      /\ \A y \in Who : y # "manual" => pub'[y] = pub[y]
  BY <1>3, StepPub, RestPub DEF PublishNow, AnswerPublication
<1>6. Published'
  BY <1>1, <1>3, <1>4, <1>5 DEF PublishTyped, Published, PublishTypes, Version, Stage
<1>7. Undisturbed'
  BY <1>1, <1>3, <1>5, UndisturbedFrame
<1>8. Carrying' <=> Carrying
  BY <1>1, <1>5 DEF Carrying, Who
<1>9. Owed'
  BY <1>1, <1>2, <1>3, <1>8, OwedFrame
<1>10. QED
  BY <1>6, <1>7, <1>9

\* Pushes by others, imports and the settings.
LEMMA OtherSync ==
  ASSUME SyncInv, ForeignPush \/ StartIndex \/ FinishIndex \/ SetSource
  PROVE  Published' /\ Undisturbed' /\ Owed'
<1>1. UNCHANGED <<vars, sched, clone, pub>> /\ (excused => excused')
  <2>1. UNCHANGED <<vars, sched, clone, pub>>
    BY DEF ForeignPush, StartIndex, FinishIndex, SetSource
  <2>2. CASE FinishIndex
    BY <2>2 DEF FinishIndex
  <2>3. CASE ForeignPush \/ StartIndex \/ SetSource
    BY <2>3 DEF ForeignPush, StartIndex, SetSource
  <2>4. QED
    BY <2>1, <2>2, <2>3
<1>2. UNCHANGED <<status, worker>>
  BY <1>1 DEF vars, records
<1>3. PublishTyped /\ Owed /\ Undisturbed
  BY DEF SyncInv
<1>4. Undisturbed'
  BY <1>1, <1>3, UndisturbedFrame
<1>5. /\ doc \in Nat /\ remote \in Nat \cup {None} /\ index \in Nat \cup {None} /\ foreign \in Nat
      /\ source \in [two: BOOLEAN, remote: BOOLEAN] /\ pushed \subseteq Nat /\ excused \in BOOLEAN
      /\ IsFiniteSet(pushed) /\ (remote # None => remote \in pushed) /\ Fresh \in Nat
  BY <1>3, Typing, FreshNat DEF PublishTyped
<1>6. Carrying => Carrying' \/ doc' # doc
  BY <1>1 DEF Carrying
<1>7. CASE ForeignPush
  <2>1. /\ remote' = Fresh /\ pushed' = pushed \cup {Fresh} /\ foreign' = foreign + 1
        /\ UNCHANGED <<doc, source, index, excused>>
    BY <1>7 DEF ForeignPush, Foreign
  <2>2. IsFiniteSet(pushed') /\ pushed' \subseteq Nat
    BY <1>5, <2>1, FS_AddElement
  <2>3. Published'
    BY <1>1, <1>3, <1>5, <2>1, <2>2 DEF PublishTyped, Published, PublishTypes, Version
  <2>4. Owed'
    BY <1>1, <1>2, <1>3, <1>6, <2>1, OwedFrame
  <2>5. QED
    BY <1>4, <2>3, <2>4
<1>8. CASE FinishIndex
  <2>1. /\ index # None /\ doc' = index /\ index' = None /\ excused' = (excused \/ index # remote)
        /\ UNCHANGED <<source, remote, foreign, pushed>>
    BY <1>8 DEF FinishIndex
  <2>2. Published'
    BY <1>1, <1>3, <1>5, <2>1 DEF PublishTyped, Published, PublishTypes, Version
  <2>3. Owed'
    BY <1>5, <2>1 DEF Owed
  <2>4. QED
    BY <1>4, <2>2, <2>3
<1>9. CASE StartIndex \/ SetSource
  <2>1. /\ index' \in {index, remote} /\ foreign' = foreign + 1
        /\ UNCHANGED <<doc, remote, pushed, excused>>
    BY <1>9 DEF StartIndex, SetSource, Foreign
  <2>2. source' \in [two: BOOLEAN, remote: BOOLEAN]
    BY <1>5, <1>9 DEF StartIndex, SetSource
  <2>3. Published'
    BY <1>1, <1>3, <1>5, <2>1, <2>2 DEF PublishTyped, Published, PublishTypes, Version
  <2>4. Owed'
    BY <1>1, <1>2, <1>3, <1>6, <2>1, OwedFrame
  <2>5. QED
    BY <1>4, <2>3, <2>4
<1>10. QED
  BY <1>7, <1>8, <1>9

\* A job is reported: one that was performed carries nothing, any other is tried again.
LEMMA QueueSync ==
  ASSUME SyncInv, Queue
  PROVE  Published' /\ Undisturbed' /\ Owed'
<1>1. UNCHANGED gitVars /\ PublishTyped /\ Owed /\ Undisturbed /\ TypeOK
  BY DEF Queue, SyncInv, PublishTyped, Sound
<1>2. UNCHANGED <<doc, source, sched, clone, remote, pub, index, foreign, pushed, excused>>
  BY <1>1 DEF gitVars
<1>3. Published'
  BY <1>1, <1>2 DEF PublishTyped, Published, PublishTypes
<1>4. Undisturbed'
  BY <1>1, <1>2, UndisturbedFrame
<1>5. Carrying' <=> Carrying
  BY <1>2 DEF Carrying
<1>6. CASE \E j \in Job : Time(j)
  <2>1. UNCHANGED <<status, worker>>
    BY <1>6 DEF Time, BackoffElapses, LeaseLapses
  <2>2. Owed'
    BY <1>1, <1>2, <1>5, <2>1, OwedFrame
  <2>3. QED
    BY <1>3, <1>4, <2>2
<1>7. ASSUME NEW w \in Worker, Complete(w) \/ FailJob(w) \/ Refuse(w)
      PROVE  Owed'
  <2>0. \A v \in Worker : v = w
    BY ProcessAssumption
  <2>1. SUFFICES ASSUME doc \notin pushed, ~excused, NEW j \in Job, Open(j)
                 PROVE  \E k \in Job : sched[k] \in {"source", "enqueue"} \/ Open(k)'
    BY <1>1, <1>2 DEF Owed
  <2>2. worker[w].pc \in {"complete", "fail"} /\ ~Free(w)
    BY <1>7 DEF Complete, FailJob, Refuse, Free
  <2>3. worker[w].job \in Job
    BY <1>1, <2>2, HeldRecord DEF Held
  <2>4. CASE Complete(w)
    <3>1. worker[w].pc = "complete" /\ Report(w, "completed") /\ worker' = [worker EXCEPT ![w] = [pc |-> "free"]]
      BY <2>4 DEF Complete
    <3>2. worker[w].job # j \/ status[j] # "running"
      BY <2>1, <2>2, <3>1 DEF Open
    <3>3. status'[j] = status[j]
      BY <1>1, <2>2, <3>1, <3>2, ReportTyped
    <3>4. Free(w)'
      BY <1>1, <3>1, FreeStep
    <3>5. Open(j)'
      BY <2>0, <2>1, <3>3, <3>4 DEF Open
    <3>6. QED
      BY <3>5
  <2>5. CASE FailJob(w)
    <3>1. PICK s \in {"failed", "pending"} : Report(w, s) /\ worker' = [worker EXCEPT ![w] = [pc |-> "free"]]
      BY <2>5 DEF FailJob
    <3>2. status'[j] = status[j] \/ status'[j] = s
      BY <1>1, <2>2, <3>1, ReportTyped
    <3>3. Free(w)'
      BY <1>1, <3>1, FreeStep
    <3>4. Open(j)'
      BY <2>0, <2>1, <3>2, <3>3 DEF Open
    <3>5. QED
      BY <3>4
  <2>6. CASE Refuse(w)
    <3>1. status' = status
      BY <2>6 DEF Refuse, records
    <3>2. CASE worker' = [worker EXCEPT ![w].pc = "fail"]
      <4>1. worker'[w].pc = "fail"
        BY <1>1, <2>2, <3>2, HeldStep
      <4>2. worker'[w].job = worker[w].job
        BY <1>1, <2>2, <3>2, HeldStep
      <4>3. Open(j)'
        BY <2>0, <2>1, <3>1, <4>1 DEF Open
      <4>4. QED
        BY <4>3
    <3>3. CASE worker' = [worker EXCEPT ![w] = [pc |-> "free"]]
      <4>1. Free(w)'
        BY <1>1, <3>3, FreeStep
      <4>2. Open(j)'
        BY <2>0, <2>1, <3>1, <4>1 DEF Open
      <4>3. QED
        BY <4>2
    <3>4. QED
      BY <2>6, <3>2, <3>3 DEF Refuse
  <2>7. QED
    BY <1>7, <2>4, <2>5, <2>6
<1>8. QED
  BY <1>3, <1>4, <1>6, <1>7 DEF Queue

\* A step of one publication: what it leaves alone, and what it does to itself.
LEMMA PublishingFrame ==
  ASSUME SyncInv, NEW x \in Who, Publishing(x)
  PROVE  /\ UNCHANGED <<status, worker, doc, source, sched, index, foreign>>
         /\ pub' \in [Who -> [pc: Stage, seen: Nat \cup {None}]]
         /\ \A y \in Who : y # x => pub'[y] = pub[y]
         /\ excused' \in BOOLEAN /\ (excused => excused')
<1>1. PublishTyped
  BY DEF SyncInv
<1>2. UNCHANGED <<status, worker, doc, source, sched, index, foreign>>
  <2>1. CASE ReadSource(x) \/ Fetch(x) \/ ReadDocs(x) \/ WriteFiles(x) \/ Commit(x) \/ Push(x)
    BY <2>1 DEF ReadSource, Fetch, ReadDocs, WriteFiles, Commit, Push, vars, records
  <2>2. CASE GoOn(x) \/ PushRefused(x)
    BY <2>2 DEF GoOn, PushRefused, records
  <2>3. QED
    BY <2>1, <2>2 DEF Publishing
<1>3. /\ pub' \in [Who -> [pc: Stage, seen: Nat \cup {None}]]
      /\ \A y \in Who : y # x => pub'[y] = pub[y]
  <2>1. CASE ReadDocs(x)
    <3>1. pub' = [pub EXCEPT ![x] = [pc |-> "write", seen |-> doc]]
      BY <2>1 DEF ReadDocs
    <3>2. [pc |-> "write", seen |-> doc] \in [pc: Stage, seen: Nat \cup {None}]
      BY <1>1, Typing DEF Stage
    <3>3. QED
      BY <1>1, <3>1, <3>2, Typing
  <2>2. CASE \E pc \in Stage : Step(x, pc)
    BY <1>1, <2>2, StepPub
  <2>3. ReadDocs(x) \/ \E pc \in Stage : Step(x, pc)
    <3>1. "fetch" \in Stage /\ "done" \in Stage /\ "error" \in Stage /\ "clear" \in Stage /\ "status" \in Stage /\ "push" \in Stage
      BY DEF Stage
    <3>2. QED
      BY <3>1 DEF Publishing, ReadSource, Fetch, GoOn, WriteFiles, Commit, Push, PushRefused
  <2>4. QED
    BY <2>1, <2>2, <2>3
<1>4. excused' \in BOOLEAN /\ (excused => excused')
  <2>1. CASE ReadSource(x)
    BY <2>1 DEF ReadSource
  <2>2. CASE Commit(x)
    BY <2>2 DEF Commit
  <2>3. CASE Fetch(x) \/ GoOn(x) \/ ReadDocs(x) \/ WriteFiles(x) \/ Push(x) \/ PushRefused(x)
    <3>1. excused' = excused
      BY <2>3 DEF Fetch, GoOn, ReadDocs, WriteFiles, Push, PushRefused
    <3>2. QED
      BY <1>1, <3>1, Typing
  <2>4. QED
    BY <2>1, <2>2, <2>3 DEF Publishing
<1>5. QED
  BY <1>2, <1>3, <1>4

\* Before the documents are read.
LEMMA FetchSync ==
  ASSUME SyncInv, NEW x \in Who, ReadSource(x) \/ Fetch(x) \/ GoOn(x)
  PROVE  Published' /\ Undisturbed' /\ Owed'
<1>0. Publishing(x)
  BY DEF Publishing
<1>1. PublishTyped /\ Owed /\ Undisturbed
  BY DEF SyncInv
<1>2. /\ UNCHANGED <<status, worker, doc, source, sched, index, foreign>>
      /\ pub' \in [Who -> [pc: Stage, seen: Nat \cup {None}]]
      /\ \A y \in Who : y # x => pub'[y] = pub[y]
      /\ excused' \in BOOLEAN /\ (excused => excused')
  BY <1>0, PublishingFrame
<1>3. UNCHANGED <<remote, pushed>>
  BY DEF ReadSource, Fetch, GoOn
<1>4. /\ clone \in [head: Nat \cup {None}, base: Nat \cup {None}, files: Nat \cup {None}]
      /\ remote \in Nat \cup {None}
  BY <1>1, Typing
<1>5. clone' \in [head: Nat \cup {None}, base: Nat \cup {None}, files: Nat \cup {None}]
  BY <1>4 DEF ReadSource, Fetch, GoOn
<1>6. Published'
  BY <1>1, <1>2, <1>3, <1>5 DEF PublishTyped, Published, PublishTypes, Version, Stage
<1>7. "fetch" \in Stage /\ "done" \in Stage /\ "error" \in Stage /\ "clear" \in Stage
  BY DEF Stage
<1>8. "auto" \in Who /\ "manual" \in Who /\ \A y \in Who : y = "auto" \/ y = "manual"
  BY DEF Who
<1>9. CASE ReadSource(x)
  <2>1. /\ pub[x].pc = "source" /\ clone' = clone /\ (pub'[x].pc = "fetch" \/ excused')
        /\ pub'[x].pc \in {"fetch", "done", "error"} /\ (Overlap(x) => excused')
    <3>1. pub[x].pc = "source" /\ clone' = clone
      BY <1>9 DEF ReadSource
    <3>2. PICK pc \in {"fetch", "done", "error"} : Step(x, pc) /\ (pc = "fetch" \/ excused') /\ (Overlap(x) => excused')
      BY <1>9 DEF ReadSource
    <3>3. pub'[x].pc = pc
      BY <1>1, <1>7, <3>2, StepPub
    <3>4. QED
      BY <3>1, <3>2, <3>3
  <2>2. ASSUME ~excused', NEW y \in Who, y # x
        PROVE  pub[y].pc \in {"idle", "done", "error"}
    BY <2>1, <2>2 DEF Overlap
  <2>3. Undisturbed'
    BY <1>2, <1>8, <2>1, <2>2 DEF Undisturbed, Inside
  <2>4. ~excused' => (Carrying => Carrying')
    BY <1>2, <1>8, <2>1 DEF Carrying
  <2>5. Owed'
    BY <1>1, <1>2, <1>3, <2>4, OwedFrame
  <2>6. QED
    BY <1>6, <2>3, <2>5
<1>10. CASE Fetch(x) \/ GoOn(x)
  <2>1. pub[x].pc = "fetch" /\ Step(x, "clear")
    BY <1>10 DEF Fetch, GoOn
  <2>2. pub'[x].pc = "clear"
    BY <1>1, <1>7, <2>1, StepPub
  <2>3. ~excused => \A y \in Who : y # x => ~Inside(y)
    BY <1>1, <1>8, <2>1 DEF Undisturbed, Inside
  <2>4. Undisturbed'
    BY <1>2, <1>8, <2>2, <2>3 DEF Undisturbed, Inside
  <2>5. Carrying => Carrying'
    BY <1>2, <1>8, <2>2 DEF Carrying
  <2>6. Owed'
    BY <1>1, <1>2, <1>3, <2>5, OwedFrame
  <2>7. QED
    BY <1>6, <2>4, <2>6
<1>11. QED
  BY <1>9, <1>10

\* From the reading of the documents to the commit.
LEMMA WriteSync ==
  ASSUME SyncInv, NEW x \in Who, ReadDocs(x) \/ WriteFiles(x) \/ Commit(x)
  PROVE  Published' /\ Undisturbed' /\ Owed'
<1>0. Publishing(x)
  BY DEF Publishing
<1>1. PublishTyped /\ Owed /\ Undisturbed
  BY DEF SyncInv
<1>2. /\ UNCHANGED <<status, worker, doc, source, sched, index, foreign>>
      /\ pub' \in [Who -> [pc: Stage, seen: Nat \cup {None}]]
      /\ \A y \in Who : y # x => pub'[y] = pub[y]
      /\ excused' \in BOOLEAN /\ (excused => excused')
  BY <1>0, PublishingFrame
<1>3. UNCHANGED <<remote, pushed>>
  BY DEF ReadDocs, WriteFiles, Commit
<1>4. /\ clone \in [head: Nat \cup {None}, base: Nat \cup {None}, files: Nat \cup {None}]
      /\ pub \in [Who -> [pc: Stage, seen: Nat \cup {None}]]
  BY <1>1, Typing
<1>5. clone' \in [head: Nat \cup {None}, base: Nat \cup {None}, files: Nat \cup {None}]
  BY <1>4 DEF ReadDocs, WriteFiles, Commit
<1>6. Published'
  BY <1>1, <1>2, <1>3, <1>5 DEF PublishTyped, Published, PublishTypes, Version, Stage
<1>7. "done" \in Stage /\ "status" \in Stage /\ "push" \in Stage
  BY DEF Stage
<1>8. "auto" \in Who /\ "manual" \in Who /\ \A y \in Who : y = "auto" \/ y = "manual"
  BY DEF Who
<1>9. ~excused => \A y \in Who : y # x => ~Inside(y)
  BY <1>1, <1>8 DEF Undisturbed, Inside, ReadDocs, WriteFiles, Commit
<1>10. CASE ReadDocs(x)
  <2>1. pub[x].pc = "clear" /\ pub' = [pub EXCEPT ![x] = [pc |-> "write", seen |-> doc]]
    BY <1>10 DEF ReadDocs
  <2>2. pub'[x].pc = "write" /\ pub'[x].seen = doc
    BY <1>4, <2>1
  <2>3. Undisturbed'
    BY <1>2, <1>8, <1>9, <2>2 DEF Undisturbed, Inside
  <2>4. Carrying => Carrying'
    BY <1>2, <1>8, <2>2 DEF Carrying
  <2>5. QED
    BY <1>1, <1>2, <1>3, <1>6, <2>3, <2>4, OwedFrame
<1>11. CASE WriteFiles(x)
  <2>1. pub[x].pc = "write" /\ clone' = [clone EXCEPT !.files = pub[x].seen] /\ Step(x, "status")
    BY <1>11 DEF WriteFiles
  <2>2. pub'[x].pc = "status" /\ pub'[x].seen = pub[x].seen
    BY <1>1, <1>7, <2>1, StepPub
  <2>3. clone'.files = pub'[x].seen
    BY <1>4, <2>1, <2>2
  <2>4. Undisturbed'
    BY <1>2, <1>8, <1>9, <2>2, <2>3 DEF Undisturbed, Inside
  <2>5. Carrying => Carrying'
    BY <1>2, <1>8, <2>1, <2>2 DEF Carrying
  <2>6. QED
    BY <1>1, <1>2, <1>3, <1>6, <2>4, <2>5, OwedFrame
<1>12. CASE Commit(x)
  <2>1. pub[x].pc = "status" /\ (Clean /\ clone.head \notin pushed => excused')
    BY <1>12 DEF Commit
  <2>2. ~excused => clone.files = pub[x].seen
    BY <1>1, <2>1 DEF Undisturbed
  <2>3. CASE Clean
    <3>1. Step(x, "done") /\ clone' = clone
      BY <1>12, <2>3 DEF Commit
    <3>2. pub'[x].pc = "done"
      BY <1>1, <1>7, <3>1, StepPub
    <3>3. Undisturbed'
      BY <1>2, <1>8, <1>9, <3>1, <3>2 DEF Undisturbed, Inside
    <3>4. ~excused' => pub[x].seen \in pushed
      BY <1>2, <2>1, <2>2, <2>3 DEF Clean
    <3>5. doc \notin pushed /\ ~excused' => (Carrying => Carrying')
      BY <1>2, <1>8, <2>1, <3>4 DEF Carrying
    <3>6. QED
      BY <1>1, <1>2, <1>3, <1>6, <3>3, <3>5, OwedFrame
  <2>4. CASE ~Clean
    <3>1. Step(x, "push") /\ clone' = [clone EXCEPT !.head = clone.files]
      BY <1>12, <2>4 DEF Commit
    <3>2. pub'[x].pc = "push" /\ pub'[x].seen = pub[x].seen
      BY <1>1, <1>7, <3>1, StepPub
    <3>3. clone'.head = clone.files
      BY <1>4, <3>1
    <3>4. Undisturbed'
      BY <1>2, <1>8, <1>9, <2>2, <3>2, <3>3 DEF Undisturbed, Inside
    <3>5. Carrying => Carrying'
      BY <1>2, <1>8, <2>1, <3>2 DEF Carrying
    <3>6. QED
      BY <1>1, <1>2, <1>3, <1>6, <3>4, <3>5, OwedFrame
  <2>5. QED
    BY <2>3, <2>4
<1>13. QED
  BY <1>10, <1>11, <1>12

LEMMA PushSync ==
  ASSUME SyncInv, NEW x \in Who, Push(x) \/ PushRefused(x)
  PROVE  Published' /\ Undisturbed' /\ Owed'
<1>0. Publishing(x)
  BY DEF Publishing
<1>1. PublishTyped /\ Owed /\ Undisturbed
  BY DEF SyncInv
<1>2. /\ UNCHANGED <<status, worker, doc, source, sched, index, foreign>>
      /\ pub' \in [Who -> [pc: Stage, seen: Nat \cup {None}]]
      /\ \A y \in Who : y # x => pub'[y] = pub[y]
      /\ excused' \in BOOLEAN /\ (excused => excused')
  BY <1>0, PublishingFrame
<1>3. /\ clone \in [head: Nat \cup {None}, base: Nat \cup {None}, files: Nat \cup {None}]
      /\ pub \in [Who -> [pc: Stage, seen: Nat \cup {None}]] /\ doc \in Nat
      /\ pushed \subseteq Nat /\ IsFiniteSet(pushed) /\ (remote # None => remote \in pushed)
      /\ remote \in Nat \cup {None}
  BY <1>1, Typing DEF PublishTyped
<1>4. "done" \in Stage /\ "error" \in Stage
  BY DEF Stage
<1>5. "auto" \in Who /\ "manual" \in Who /\ \A y \in Who : y = "auto" \/ y = "manual"
  BY DEF Who
<1>6. pub[x].pc = "push" /\ (~excused => clone.head = pub[x].seen)
  BY <1>1 DEF Undisturbed, Push, PushRefused
<1>7. ~excused => \A y \in Who : y # x => ~Inside(y)
  BY <1>1, <1>5, <1>6 DEF Undisturbed, Inside
<1>8. CASE Push(x)
  <2>1. /\ remote' = clone.head /\ pushed' = pushed \cup ({clone.head} \ {None})
        /\ clone' = [clone EXCEPT !.base = clone.head] /\ Step(x, "done") /\ excused' = excused
    BY <1>8 DEF Push
  <2>2. pub'[x].pc = "done"
    BY <1>1, <1>4, <2>1, StepPub
  <2>3. clone' \in [head: Nat \cup {None}, base: Nat \cup {None}, files: Nat \cup {None}]
    BY <1>3, <2>1
  <2>4. IsFiniteSet(pushed') /\ pushed' \subseteq Nat
    <3>1. IsFiniteSet({clone.head})
      BY FS_Singleton
    <3>2. IsFiniteSet({clone.head} \ {None})
      BY <3>1, FS_Subset
    <3>3. QED
      BY <1>3, <2>1, <3>2, FS_Union
  <2>5. remote' \in Nat \cup {None} /\ (remote' # None => remote' \in pushed')
    BY <1>3, <2>1
  <2>6. Published'
    BY <1>1, <1>2, <2>3, <2>4, <2>5 DEF PublishTyped, Published, PublishTypes, Version, Stage
  <2>7. Undisturbed'
    BY <1>2, <1>5, <1>7, <2>1, <2>2 DEF Undisturbed, Inside
  <2>8. ~excused /\ pub[x].seen = doc => doc \in pushed'
    BY <1>3, <1>6, <2>1, VersionAssumption
  <2>9. doc \notin pushed' /\ ~excused' => (Carrying => Carrying')
    BY <1>2, <1>5, <1>6, <2>1, <2>8 DEF Carrying
  <2>10. Owed'
    BY <1>1, <1>2, <2>1, <2>9, OwedFrame
  <2>11. QED
    BY <2>6, <2>7, <2>10
<1>9. CASE PushRefused(x)
  <2>1. Step(x, "error") /\ UNCHANGED <<clone, remote, pushed, excused>>
    BY <1>9 DEF PushRefused
  <2>2. pub'[x].pc = "error"
    BY <1>1, <1>4, <2>1, StepPub
  <2>3. Published'
    BY <1>1, <1>2, <2>1 DEF PublishTyped, Published, PublishTypes, Version, Stage
  <2>4. Undisturbed'
    BY <1>1, <1>2, <2>1, <2>2, UndisturbedFrame
  <2>5. Carrying => Carrying'
    BY <1>2, <1>5, <2>2 DEF Carrying
  <2>6. QED
    BY <1>1, <1>2, <2>1, <2>3, <2>4, <2>5, OwedFrame
<1>10. QED
  BY <1>8, <1>9

LEMMA StepSync ==
  ASSUME SyncInv, [PublishNext]_allVars
  PROVE  SyncInv'
<1>1. CASE UNCHANGED allVars
  <2>1. UNCHANGED vars /\ UNCHANGED gitVars
    BY <1>1 DEF allVars
  <2>2. Sound'
    BY <2>1, SoundStep DEF SyncInv, PublishTyped
  <2>3. UNCHANGED <<status, worker>> /\ UNCHANGED <<doc, source, sched, clone, remote, pub, index, foreign, pushed, excused>>
    BY <2>1 DEF vars, records, gitVars
  <2>4. QED
    BY <2>2, <2>3 DEF SyncInv, PublishTyped, PublishTypes, Undisturbed, Inside, Owed, Open, Free, Carrying
<1>2. CASE PublishNext
  <2>1. Sound'
    BY <1>2, QueueSound DEF SyncInv, PublishTyped
  <2>2. Published' /\ Undisturbed' /\ Owed'
    <3>1. ASSUME NEW x \in Who, Publishing(x)
          PROVE  Published' /\ Undisturbed' /\ Owed'
      BY <3>1, FetchSync, WriteSync, PushSync DEF Publishing
    <3>2. ASSUME NEW w \in Worker, ClaimPublication(w) \/ EndPublication(w) \/ Die(w)
          PROVE  Published' /\ Undisturbed' /\ Owed'
      BY <3>2, ClaimSync, EndSync, DieSync
    <3>3. ASSUME NEW j \in Job, Save(j) \/ QueueIfEnabled(j) \/ QueuePublication(j) \/ LoseSchedule(j)
          PROVE  Published' /\ Undisturbed' /\ Owed'
      BY <3>3, SchedSync
    <3>4. CASE Queue \/ SourceRequest \/ AnswerPublication \/ ForeignPush \/ FinishIndex
      BY <3>4, QueueSync, ManualSync, OtherSync DEF SourceRequest
    <3>5. QED
      BY <1>2, <3>1, <3>2, <3>3, <3>4 DEF PublishNext
  <2>3. QED
    BY <2>1, <2>2 DEF SyncInv, PublishTyped, Published
<1>3. QED
  BY <1>1, <1>2

\* Once every job has completed, the documents of a two-way workspace are those of
\* some push, whatever was saved, retried, refused or pushed by others meanwhile.
THEOREM SyncSafe == PublishSpec => []SyncedAtRest
<1>1. SyncInv => SyncedAtRest
  BY DEF SyncInv, Owed, Open, SyncedAtRest, Idle
<1>2. QED
  BY <1>1, InitSync, StepSync, PTL DEF PublishSpec

\* A publication that waits for its turn, or for a retry, has attempts left.
THEOREM WaitingSafe == PublishSpec => []PendingHasAttempts
<1>1. PublishInit => Sound /\ Latest
  BY SoundInit DEF PublishInit, Init, Latest, PendingHasAttempts, Free
<1>2. Sound /\ Latest /\ [PublishNext]_allVars => (Sound /\ Latest)'
  <2>1. Sound /\ Latest /\ PublishNext => (Sound /\ Latest)'
    BY QueueSound
  <2>2. Sound /\ Latest /\ UNCHANGED allVars => (Sound /\ Latest)'
    BY SoundStep, LatestStep, ProcessAssumption DEF allVars
  <2>3. QED
    BY <2>1, <2>2
<1>3. Latest => PendingHasAttempts
  BY DEF Latest
<1>4. QED
  BY <1>1, <1>2, <1>3, PTL DEF PublishSpec

=============================================================================
