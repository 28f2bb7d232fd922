------------------------------ MODULE Publish ------------------------------
(***************************************************************************)
(* Publication to Git over the job queue: auto-publish.service.ts,         *)
(* git-publish.service.ts, publish-documents.service.ts, the webhook and   *)
(* the import that answers it, and the settings of the source.             *)
(*                                                                         *)
(* The documents of the workspace are one version number, new with every   *)
(* save.  pub["auto"] is the handler of the claimed job, pub["manual"] a   *)
(* request of an owner; both work in one clone, that of the one process.   *)
(* Module Jobs is the queue: a handler returns or throws as its            *)
(* publication ends.                                                       *)
(***************************************************************************)
EXTENDS Jobs

CONSTANTS
  MaxForeign,  \* bound on pushes by others, on manual publications and imports
  None

ASSUME ProcessAssumption == \A v, w \in Worker : v = w
ASSUME VersionAssumption == None \notin Nat

VARIABLES
  doc,      \* version of the documents
  source,   \* workspace.source: two-way sync, and whether a push remote is set
  sched,    \* sched[j]: the schedule() call that is to enqueue j
  clone,    \* the working clone: tree of HEAD, the tip it descends from, files
  remote,   \* version at the tip of the remote branch, or None without branch
  pub,      \* the publications in flight
  index,    \* the import in flight, with the version it read
  foreign,  \* counter behind MaxForeign
  (* History variables. *)
  pushed,   \* versions the remote branch has had
  excused   \* a publication was skipped, lost, disturbed or wrongly called off

gitVars == <<doc, source, sched, clone, remote, pub, index, foreign, pushed, excused>>
allVars == <<vars, gitVars>>

Version == Nat
Who     == {"auto", "manual"}
Rest    == [pc |-> "idle", seen |-> None]

PublishTypes ==
  /\ doc \in Version /\ remote \in Version \cup {None}
  /\ source \in [two: BOOLEAN, remote: BOOLEAN]
  /\ sched \in [Job -> {"unused", "source", "enqueue", "done"}]
  /\ clone \in [head: Version \cup {None}, base: Version \cup {None}, files: Version \cup {None}]
  /\ pub \in [Who -> [pc: {"idle", "source", "fetch", "clear", "write", "status", "push", "done", "error"},
                      seen: Version \cup {None}]]
  /\ index \in Version \cup {None} /\ foreign \in Nat
  /\ pushed \subseteq Version /\ excused \in BOOLEAN

PublishInit ==
  /\ Init
  /\ doc = 0 /\ remote \in {None, 0}
  /\ source = [two |-> TRUE, remote |-> TRUE]
  /\ sched = [j \in Job |-> "unused"]
  /\ clone = [head |-> None, base |-> None, files |-> None]
  /\ pub = [x \in Who |-> Rest] /\ index = None /\ foreign = 0
  /\ pushed = {0} /\ excused = FALSE

Step(x, pc) == pub' = [pub EXCEPT ![x].pc = pc]
Newest == IF index = None THEN pushed \cup {doc} ELSE pushed \cup {doc, index}
Fresh  == CHOOSE v \in 0..Cardinality(Newest) : v \notin Newest
Foreign == foreign < MaxForeign /\ foreign' = foreign + 1

-----------------------------------------------------------------------------
(* Saves and what they schedule. *)

\* Faulty variant: one idempotency key for a workspace, so that a job that is
\* already known stands for every later save.
SaveKeyed(j) ==
  /\ sched[j] = "unused"
  /\ doc' = Fresh
  /\ sched' = [sched EXCEPT ![j] = IF \E k \in Job : sched[k] # "unused" THEN "done" ELSE "source"]
  /\ UNCHANGED <<vars, source, clone, remote, pub, index, foreign, pushed, excused>>

\* A save, delete or move of the controller, which then calls schedule(); a key
\* with a random part makes every call a job of its own.
Save(j) ==
  /\ sched[j] = "unused"
  /\ doc' = Fresh
  /\ sched' = [sched EXCEPT ![j] = "source"]
  /\ UNCHANGED <<vars, source, clone, remote, pub, index, foreign, pushed, excused>>

\* queueIfEnabled
QueueIfEnabled(j) ==
  /\ sched[j] = "source"
  /\ sched' = [sched EXCEPT ![j] = IF source.two THEN "enqueue" ELSE "done"]
  /\ excused' = (excused \/ ~source.two)
  /\ UNCHANGED <<vars, doc, source, clone, remote, pub, index, foreign, pushed>>

QueuePublication(j) ==
  /\ sched[j] = "enqueue" /\ Enqueue(j)
  /\ sched' = [sched EXCEPT ![j] = "done"]
  /\ UNCHANGED <<doc, source, clone, remote, pub, index, foreign, pushed, excused>>

\* A rejected call of schedule() is logged and forgotten.
LoseSchedule(j) ==
  /\ sched[j] \in {"source", "enqueue"} /\ faults < MaxFaults /\ faults' = faults + 1
  /\ sched' = [sched EXCEPT ![j] = "done"] /\ excused' = TRUE
  /\ UNCHANGED <<records, worker, ghosts, doc, source, clone, remote, pub, index, foreign, pushed>>

-----------------------------------------------------------------------------
(* One publication: GitPublishService.publish. *)

Overlap(x) == \E y \in Who \ {x} : pub[y].pc \notin {"idle", "done", "error"}

\* The worker claims a job and its handler starts.
ClaimPublication(w) ==
  /\ Claim(w) /\ Step("auto", "source")
  /\ UNCHANGED <<doc, source, sched, clone, remote, index, foreign, pushed, excused>>

\* PublishDocumentsService.execute: refused without a remote.
PublishNow ==
  /\ pub["manual"].pc = "idle" /\ Foreign /\ Step("manual", "source")
  /\ UNCHANGED <<vars, doc, source, sched, clone, remote, index, pushed, excused>>

\* getSource and getPushRemote.
ReadSource(x) ==
  /\ pub[x].pc = "source"
  /\ LET on == source.remote /\ (x = "auto" => source.two) IN
       /\ Step(x, IF on THEN "fetch" ELSE IF x = "auto" THEN "done" ELSE "error")
       /\ excused' = (excused \/ ~on \/ Overlap(x))
  /\ UNCHANGED <<vars, doc, source, sched, clone, remote, index, foreign, pushed>>

Clean == clone.files = clone.head

\* fetch and checkout -B onto the remote tip.
Fetch(x) ==
  /\ pub[x].pc = "fetch" /\ remote # None /\ (Clean \/ clone.head = remote)
  /\ clone' = [clone EXCEPT !.head = remote, !.base = remote, !.files = IF Clean THEN remote ELSE @]
  /\ Step(x, "clear")
  /\ UNCHANGED <<vars, doc, source, sched, remote, index, foreign, pushed, excused>>

\* Without a remote branch, with files in the way, or when the remote cannot be
\* reached, the clone goes on from where it is.
GoOn(x) ==
  /\ pub[x].pc = "fetch"
  /\ IF remote = None \/ (~Clean /\ clone.head # remote) THEN UNCHANGED faults
     ELSE faults < MaxFaults /\ faults' = faults + 1
  /\ Step(x, "clear")
  /\ UNCHANGED <<records, worker, ghosts, doc, source, sched, clone, remote, index, foreign, pushed, excused>>

\* clearTree, then the documents are read.
ReadDocs(x) ==
  /\ pub[x].pc = "clear"
  /\ clone' = [clone EXCEPT !.files = None]
  /\ pub' = [pub EXCEPT ![x] = [pc |-> "write", seen |-> doc]]
  /\ UNCHANGED <<vars, doc, source, sched, remote, index, foreign, pushed, excused>>

WriteFiles(x) ==
  /\ pub[x].pc = "write" /\ clone' = [clone EXCEPT !.files = pub[x].seen] /\ Step(x, "status")
  /\ UNCHANGED <<vars, doc, source, sched, remote, index, foreign, pushed, excused>>

\* add, status and commit; an unchanged tree ends the publication, also when
\* HEAD is a commit that an earlier attempt could not push.
Commit(x) ==
  /\ pub[x].pc = "status"
  /\ IF Clean THEN Step(x, "done") /\ UNCHANGED clone
     ELSE Step(x, "push") /\ clone' = [clone EXCEPT !.head = clone.files]
  /\ excused' = (excused \/ (Clean /\ clone.head \notin pushed))
  /\ UNCHANGED <<vars, doc, source, sched, remote, index, foreign, pushed>>

Push(x) ==
  /\ pub[x].pc = "push" /\ remote = clone.base
  /\ remote' = clone.head /\ pushed' = pushed \cup ({clone.head} \ {None})
  /\ clone' = [clone EXCEPT !.base = clone.head]
  /\ Step(x, "done")
  /\ UNCHANGED <<vars, doc, source, sched, index, foreign, excused>>

\* Faulty variant: a refused push is taken for a publication.
SwallowPush(x) ==
  /\ pub[x].pc = "push"
  /\ IF remote # clone.base THEN UNCHANGED faults ELSE faults < MaxFaults /\ faults' = faults + 1
  /\ Step(x, "done")
  /\ UNCHANGED <<records, worker, ghosts, doc, source, sched, clone, remote, index, foreign, pushed, excused>>

\* The remote has moved on, or refuses: the commit stays in the clone.
PushRefused(x) ==
  /\ pub[x].pc = "push"
  /\ IF remote # clone.base THEN UNCHANGED faults ELSE faults < MaxFaults /\ faults' = faults + 1
  /\ Step(x, "error")
  /\ UNCHANGED <<records, worker, ghosts, doc, source, sched, clone, remote, index, foreign, pushed, excused>>

EndPublication(w) ==
  /\ \/ pub["auto"].pc = "done" /\ HandlerReturns(w)
     \/ pub["auto"].pc = "error" /\ HandlerThrows(w)
  /\ pub' = [pub EXCEPT !["auto"] = Rest]
  /\ UNCHANGED <<doc, source, sched, clone, remote, index, foreign, pushed, excused>>

AnswerPublication ==
  /\ pub["manual"].pc \in {"done", "error"} /\ pub' = [pub EXCEPT !["manual"] = Rest]
  /\ UNCHANGED <<vars, doc, source, sched, clone, remote, index, foreign, pushed, excused>>

-----------------------------------------------------------------------------
(* The other direction, the settings, and the end of the process. *)

\* Somebody else pushes to the branch.
ForeignPush ==
  /\ Foreign /\ remote' = Fresh /\ pushed' = pushed \cup {Fresh}
  /\ UNCHANGED <<vars, doc, source, sched, clone, pub, index, excused>>

\* The webhook of a push, or an import by hand: indexSource reads the tree...
StartIndex ==
  /\ index = None /\ remote # None /\ Foreign /\ index' = remote
  /\ UNCHANGED <<vars, doc, source, sched, clone, remote, pub, pushed, excused>>

\* ... and upserts what it read, which schedules no publication.
FinishIndex ==
  /\ index # None
  /\ doc' = index /\ index' = None
  /\ excused' = (excused \/ index # remote)
  /\ UNCHANGED <<vars, source, sched, clone, remote, pub, foreign, pushed>>

\* setSource changes one field and leaves the others.
SetSource ==
  /\ Foreign
  /\ \/ source' = [source EXCEPT !.two = ~@]
     \/ source' = [source EXCEPT !.remote = ~@]
  /\ UNCHANGED <<vars, doc, sched, clone, remote, pub, index, pushed, excused>>

\* The process dies with all it has in flight.
Die(w) ==
  /\ Crash(w)
  /\ pub' = [x \in Who |-> Rest] /\ index' = None
  /\ sched' = [j \in Job |-> IF sched[j] = "unused" THEN "unused" ELSE "done"]
  /\ excused' = (excused \/ index # None \/ \E j \in Job : sched[j] \in {"source", "enqueue"})
  /\ UNCHANGED <<doc, source, clone, remote, foreign, pushed>>

-----------------------------------------------------------------------------
\* The queue's own steps; the purge, a week later, is left to module Jobs.
Queue ==
  /\ \/ \E j \in Job : Time(j)
     \/ \E w \in Worker : Complete(w) \/ FailJob(w) \/ Refuse(w)
  /\ UNCHANGED gitVars

Publishing(x) ==
  ReadSource(x) \/ Fetch(x) \/ GoOn(x) \/ ReadDocs(x) \/ WriteFiles(x)
  \/ Commit(x) \/ Push(x) \/ PushRefused(x)

\* The endpoints of the source.
SourceRequest == PublishNow \/ StartIndex \/ SetSource

PublishNext ==
  \/ Queue
  \/ \E j \in Job : Save(j) \/ QueueIfEnabled(j) \/ QueuePublication(j) \/ LoseSchedule(j)
  \/ \E w \in Worker : ClaimPublication(w) \/ EndPublication(w) \/ Die(w)
  \/ \E x \in Who : Publishing(x)
  \/ SourceRequest \/ AnswerPublication \/ ForeignPush \/ FinishIndex

PublishSpec == PublishInit /\ [][PublishNext]_allVars

\* Steps of the process: its ticks, its publications, its answers.
Working ==
  \/ \E j \in Job : QueueIfEnabled(j) \/ QueuePublication(j)
  \/ \E w \in Worker : ClaimPublication(w) \/ EndPublication(w) \/ ((Complete(w) \/ FailJob(w)) /\ UNCHANGED gitVars)
  \/ \E x \in Who : Publishing(x)
  \/ AnswerPublication \/ FinishIndex

Passing == \E j \in Job : Time(j) /\ UNCHANGED gitVars

\* What the process can do it goes on doing, and time passes.
FairPublishSpec == PublishSpec /\ WF_allVars(Working) /\ WF_allVars(Passing)

-----------------------------------------------------------------------------
(* Properties. *)

Idle == /\ \A j \in Job : /\ sched[j] \in {"unused", "done"}
                         /\ \/ status[j] = "absent"
                            \/ status[j] = "completed" /\ performed[j] # {}
        /\ \A x \in Who : pub[x] = Rest
        /\ index = None

\* Once every job has completed, the documents of a two-way workspace are those
\* of some push: no save slipped between the reading of the documents and its
\* own job, whatever was retried, refused or pushed by others meanwhile.
SyncedAtRest == Idle /\ ~excused => doc \in pushed

\* Documents that no push has carried yet get into one, unless the publication
\* is excused or a job has used up its attempts.
EditsReachRemote ==
  doc \notin pushed ~> doc \in pushed \/ excused \/ \E j \in Job : attempts[j] = MaxAttempts
=============================================================================
