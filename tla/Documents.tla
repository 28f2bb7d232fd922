----------------------------- MODULE Documents -----------------------------
(***************************************************************************)
(* The document pipeline of backend/src/documents: what a save, a move, a  *)
(* delete, an import, a tag change and a link repair do to the Markdown    *)
(* file on disk, to its mirror in MongoDB and to everything that is keyed  *)
(* by the document's path (backlinks, revisions, comments, watches,        *)
(* notifications).                                                         *)
(*                                                                         *)
(* There are no transactions: the backend is one Node process, and every   *)
(* await between two store accesses lets another request run.  Each action *)
(* below is the code between two awaits of one request; req[r] is what     *)
(* that request keeps in its local variables.  A Mongo updateMany /        *)
(* deleteMany is one step.                                                 *)
(*                                                                         *)
(* A content stands for a Markdown text by the two things the properties   *)
(* tell apart: an opaque text and the set of documents it links to (the    *)
(* canonical paths the parser extracts).                                   *)
(***************************************************************************)
EXTENDS Naturals, FiniteSets

CONSTANTS
  Path,         \* document paths, relative to the workspace
  Base,         \* Base[p] is the file name of p without its directory
  Text,         \* opaque texts
  Drafts,       \* the contents users send
  Seed,         \* Seed[p]: content of p in the workspace a run starts from
  User,         \* users who can watch a document
  Mutes,        \* <<user, kind>>: notifications the user has switched off
  Actor,        \* who sends requests: a user, or None for an API key
  Thread,       \* identities of comments
  Req,          \* requests the process can have in flight at once
  Ops,          \* the kinds of request a run explores
  MaxImport,    \* bound on the files of one archive
  MaxRequests,  \* bound on the requests ever started
  MaxFaults,    \* bound on rejected awaits and process deaths
  None

Content == [text: Text, links: SUBSET Path]

ASSUME DraftsAssumption == Drafts \subseteq Content
ASSUME SeedAssumption   == Seed \in [Path -> Content \cup {None}]
ASSUME ActorAssumption  == Actor \subseteq User \cup {None}
ASSUME NoneAssumption   == None \notin Path /\ None \notin Content
ASSUME BoundAssumption  == {MaxImport, MaxRequests, MaxFaults} \subseteq Nat

VARIABLES
  disk,       \* disk[p]: content of the .md file, None when there is none
  index,      \* index[p]: contentRaw and links.outgoing of the Mongo record
  incoming,   \* incoming[p]: links.incoming of that record, {} without one
  revisions,  \* the history: [path, content, at], at ordering createdAt
  clock,      \* the next createdAt
  comments,   \* <<thread, path>>
  watches,    \* <<user, path>>
  inbox,      \* in-app notifications [user, path, kind]
  req,        \* local variables of the requests in flight
  started, faults,  \* counters behind the bounds
  (* History variables: the code keeps none of these. *)
  settled,    \* settled[p]: content of the last upsert of p that resolved
  erased,     \* contents of the revisions a delete removed
  suspect,    \* paths whose two copies were last written by interleaved or
              \* interrupted requests
  tangled     \* two requests have overlapped, or one has failed

stores     == <<disk, index, incoming>>
satellites == <<revisions, clock, comments, watches, inbox>>
ghosts     == <<settled, erased, suspect, tangled>>
bounds     == <<started, faults>>
vars       == <<stores, satellites, req, ghosts, bounds>>

Indexed == {p \in Path : index[p] # None}

(***************************************************************************)
(* Local state of a request.                                               *)
(*   upsert     write, index, addLinks, pullLinks, readLinkers, setLinks,  *)
(*              readLatest, snapshot, notifyChanged                        *)
(*   removal    removeFile, removeDoc, unlink; for a delete also           *)
(*              notifyDeleted, dropHistory, dropComments, dropWatches      *)
(*   move       clash, readInbound, ..., moveHistory, moveComments,        *)
(*              readWatchers, moveWatch, notifyMoved                       *)
(*   repair     readPaths                                                  *)
(***************************************************************************)
PC == {"idle", "write", "index", "addLinks", "pullLinks", "readLinkers",
       "setLinks", "readLatest", "snapshot", "notifyChanged",
       "notifyDeleted", "removeFile", "removeDoc", "unlink", "dropHistory",
       "dropComments", "dropWatches", "clash", "readInbound",
       "moveHistory", "moveComments", "readWatchers", "moveWatch",
       "notifyMoved", "readPaths"}

Request ==
  [op    : {"none", "save", "delete", "move", "import", "tag", "fix", "fixAll"},
   pc    : PC,
   by    : User \cup {None},
   path  : Path \cup {None},             \* the document being upserted
   draft : Content \cup {None},          \* and its new content
   ret   : {"next", "moveHistory"},      \* where the upsert returns to
   from  : Path \cup {None},             \* the document being removed
   to    : Path \cup {None},             \* the target of a move
   todo  : SUBSET [path: Path, draft: Content],  \* upserts still to do
   back  : SUBSET Path,                  \* linkers read by reconcileBacklinks
   last  : Content \cup {None},          \* the latest revision read
   users : SUBSET User]                  \* watchers still to migrate

Idle == [op |-> "none", pc |-> "idle", by |-> None, path |-> None,
         draft |-> None, ret |-> "next", from |-> None, to |-> None,
         todo |-> {}, back |-> {}, last |-> None, users |-> {}]

Revision == [path: Path, content: Content, at: Nat]
Notice   == [user: User, path: Path,
             kind: {"changed", "deleted", "moved", "comment", "mention"}]

TypeOK ==
  /\ disk \in [Path -> Content \cup {None}]
  /\ index \in [Path -> Content \cup {None}]
  /\ incoming \in [Path -> SUBSET Path]
  /\ revisions \subseteq Revision
  /\ clock \in Nat
  /\ comments \subseteq Thread \X Path
  /\ watches \subseteq User \X Path
  /\ inbox \subseteq Notice
  /\ req \in [Req -> Request]
  /\ started \in Nat
  /\ faults \in Nat
  /\ settled \in [Path -> Content \cup {None}]
  /\ erased \subseteq Content
  /\ suspect \subseteq Path
  /\ tangled \in BOOLEAN

\* A workspace at rest in which every document was saved once.
Init ==
  LET seeded == {p \in Path : Seed[p] # None}
  IN  /\ disk = Seed
      /\ index = Seed
      /\ incoming = [p \in Path |->
           {q \in seeded : p \in seeded /\ p \in Seed[q].links}]
      /\ revisions = {[path |-> p, content |-> Seed[p], at |-> 0] : p \in seeded}
      /\ clock = 1
      /\ comments = {}
      /\ watches = {}
      /\ inbox = {}
      /\ req = [r \in Req |-> Idle]
      /\ started = 0
      /\ faults = 0
      /\ settled = Seed
      /\ erased = {}
      /\ suspect = {}
      /\ tangled = FALSE

At(r, pc)   == req[r].pc = pc
Goto(r, pc) == req' = [req EXCEPT ![r].pc = pc]
Busy(r)     == req[r].pc # "idle"
Quiet       == \A r \in Req : ~Busy(r)

-----------------------------------------------------------------------------
(* What the handlers compute from what they read. *)

\* Faulty variant: the old link survives beside the new one.
RedirectKeepsOld(c, old, new) ==
  IF old \in c.links THEN [c EXCEPT !.links = @ \cup {new}] ELSE c

\* The text of q with its links to `old` rewritten to `new`.
Redirect(c, old, new) ==
  IF old \in c.links THEN [c EXCEPT !.links = (@ \ {old}) \cup {new}] ELSE c

\* The documents suggestTarget may propose for the link l: same file name.
Namesakes(l, paths) == {p \in paths : Base[p] = Base[l]}

Suggest(l, paths) == CHOOSE p \in Namesakes(l, paths) : TRUE

\* fixAllBrokenLinks on one document, against the paths indexed now.
Repaired(q) ==
  LET others == Indexed \ {q}
  IN  [index[q] EXCEPT !.links =
         {IF l \in Indexed \/ Namesakes(l, others) = {}
            THEN l ELSE Suggest(l, others) : l \in @}]

Linkers(p) == {q \in Indexed : p \in index[q].links}

History(p) == {v \in revisions : v.path = p}

Newest(p) == {v \in History(p) : \A w \in History(p) : w.at <= v.at}

\* Faulty variant: hands out the whole revision instead of its content.
LatestRecord(p) == IF History(p) = {} THEN {None} ELSE Newest(p)

\* The content of the newest revision of p, None without history (a set: two
\* revisions may carry the same createdAt).
Latest(p) ==
  IF History(p) = {} THEN {None} ELSE {v.content : v \in Newest(p)}

\* In-app notifications for the watchers of p, except the author of the event
\* and who muted its kind.
Notices(p, kind, by) ==
  {[user |-> u, path |-> p, kind |-> kind] :
     u \in {x \in User : <<x, p>> \in watches /\ x # by /\ <<x, kind>> \notin Mutes}}

Rehomed(S, old, new) ==
  {IF x.path = old THEN [x EXCEPT !.path = new] ELSE x : x \in S}

-----------------------------------------------------------------------------
(* Starting and resuming requests. *)

Begin(r, s) ==
  /\ At(r, "idle")
  /\ s.op \in Ops
  /\ started < MaxRequests
  /\ started' = started + 1
  /\ req' = [req EXCEPT ![r] = s]
  /\ tangled' = (tangled \/ ~Quiet)
  /\ UNCHANGED <<stores, satellites, faults, erased, suspect>>

Upserting(s, d) ==
  [s EXCEPT !.pc = "write", !.path = d.path, !.draft = d.draft,
            !.todo = @ \ {d}, !.back = {}, !.last = None]

\* The loop over the documents still to write; a move then migrates watches.
NextUpsert(s) ==
  IF s.todo # {} THEN {Upserting(s, d) : d \in s.todo}
  ELSE IF s.op = "move"
    THEN {[s EXCEPT !.pc = "readWatchers", !.path = None, !.draft = None,
                    !.back = {}, !.last = None]}
    ELSE {Idle}

\* upsert resolves: its caller goes on.
Resolve(r) ==
  LET s == req[r]
  IN  /\ settled' = [p \in Path |->
            IF p = s.path THEN s.draft
            ELSE IF s.ret = "moveHistory" /\ p = s.from THEN None
            ELSE settled[p]]
      /\ \E n \in IF s.ret = "moveHistory"
                    THEN {[s EXCEPT !.pc = "moveHistory", !.ret = "next",
                                    !.back = {}, !.last = None]}
                    ELSE NextUpsert(s) :
           req' = [req EXCEPT ![r] = n]

Finish(r) == req' = [req EXCEPT ![r] = Idle]

StartSave(r) ==
  /\ \E p \in Path, c \in Drafts, u \in Actor :
       Begin(r, [Idle EXCEPT !.op = "save", !.pc = "write", !.by = u,
                             !.path = p, !.draft = c])
  /\ UNCHANGED settled

\* A ZIP archive or a repository: its files are upserted one after the other.
StartImport(r) ==
  /\ \E files \in SUBSET [path: Path, draft: Drafts], u \in Actor :
       /\ Cardinality(files) \in 1..MaxImport
       /\ \E s \in NextUpsert([Idle EXCEPT !.op = "import", !.by = u,
                                           !.todo = files]) : Begin(r, s)
  /\ UNCHANGED settled

\* The tag operations of bulkOperation: read, change the front matter, save.
StartTag(r) ==
  /\ \E p \in Indexed, t \in Text, u \in Actor :
       /\ t # index[p].text
       /\ Begin(r, [Idle EXCEPT !.op = "tag", !.pc = "write", !.by = u, !.path = p,
                                !.draft = [index[p] EXCEPT !.text = t]])
  /\ UNCHANGED settled

\* fixBrokenLink(p, l): reads the document first, the paths later.
StartFix(r) ==
  /\ \E p \in Indexed, u \in Actor : \E l \in index[p].links :
       Begin(r, [Idle EXCEPT !.op = "fix", !.pc = "readPaths", !.by = u,
                             !.path = p, !.draft = index[p], !.to = l])
  /\ UNCHANGED settled

StartFixAll(r) ==
  /\ LET repairs == {[path |-> q, draft |-> Repaired(q)] :
                       q \in {x \in Indexed : Repaired(x) # index[x]}}
     IN  /\ repairs # {}
         /\ \E u \in Actor : \E s \in NextUpsert([Idle EXCEPT !.op = "fixAll",
                                    !.by = u, !.todo = repairs]) : Begin(r, s)
  /\ UNCHANGED settled

StartDelete(r) ==
  \E p \in Indexed, u \in Actor :
    /\ Begin(r, [Idle EXCEPT !.op = "delete", !.pc = "notifyDeleted",
                             !.by = u, !.from = p])
    /\ settled' = [settled EXCEPT ![p] = None]

\* Pass B keeps the targets of the outgoing links: draft is the source's content.
StartMove(r) ==
  /\ \E p \in Indexed, u \in Actor : \E q \in Path \ {p} :
       Begin(r, [Idle EXCEPT !.op = "move", !.pc = "clash", !.by = u,
                             !.from = p, !.to = q, !.draft = index[p]])
  /\ UNCHANGED settled

-----------------------------------------------------------------------------
(* upsert: the file, the record, the backlinks, the history. *)

\* Request q has written or removed the file of p and not yet its record.
HalfDone(q, p) ==
  \/ At(q, "index") /\ req[q].path = p
  \/ At(q, "removeDoc") /\ req[q].from = p

\* Request r writes or removes the file of p: from here on the two copies of
\* p can be trusted again, unless another request is between its own two.
Claim(r, p) ==
  suspect' = IF \E q \in Req \ {r} : HalfDone(q, p)
               THEN suspect \cup {p} ELSE suspect \ {p}

WriteFile(r) ==
  /\ At(r, "write")
  /\ disk' = [disk EXCEPT ![req[r].path] = req[r].draft]
  /\ Claim(r, req[r].path)
  /\ Goto(r, "index")
  /\ UNCHANGED <<index, incoming, satellites, settled, erased, tangled, bounds>>

\* findOneAndUpdate sets contentRaw and links.outgoing and keeps links.incoming.
IndexDocument(r) ==
  /\ At(r, "index")
  /\ index' = [index EXCEPT ![req[r].path] = req[r].draft]
  /\ Goto(r, "addLinks")
  /\ UNCHANGED <<disk, incoming, satellites, ghosts, bounds>>

AddLinks(r) ==
  /\ At(r, "addLinks")
  /\ incoming' = [q \in Path |->
        IF q \in Indexed \cap req[r].draft.links
          THEN incoming[q] \cup {req[r].path} ELSE incoming[q]]
  /\ Goto(r, "pullLinks")
  /\ UNCHANGED <<disk, index, satellites, ghosts, bounds>>

\* Faulty variant: links that are no longer there keep their backlink.
PullNothing(r) ==
  /\ At(r, "pullLinks")
  /\ Goto(r, "readLinkers")
  /\ UNCHANGED <<stores, satellites, ghosts, bounds>>

PullLinks(r) ==
  /\ At(r, "pullLinks")
  /\ incoming' = [q \in Path |->
        IF q \in req[r].draft.links \cup {req[r].path}
          THEN incoming[q] ELSE incoming[q] \ {req[r].path}]
  /\ Goto(r, "readLinkers")
  /\ UNCHANGED <<disk, index, satellites, ghosts, bounds>>

ReadLinkers(r) ==
  /\ At(r, "readLinkers")
  /\ req' = [req EXCEPT ![r].pc = "setLinks", ![r].back = Linkers(req[r].path)]
  /\ UNCHANGED <<stores, satellites, ghosts, bounds>>

\* updateOne: no effect when the record is gone.
SetLinks(r) ==
  /\ At(r, "setLinks")
  /\ incoming' = [q \in Path |->
        IF q = req[r].path /\ q \in Indexed THEN req[r].back ELSE incoming[q]]
  /\ Goto(r, "readLatest")
  /\ UNCHANGED <<disk, index, satellites, ghosts, bounds>>

ReadLatest(r) ==
  /\ At(r, "readLatest")
  /\ \E c \in Latest(req[r].path) :
       req' = [req EXCEPT ![r].pc = "snapshot", ![r].last = c]
  /\ UNCHANGED <<stores, satellites, ghosts, bounds>>

\* Faulty variant: only the first save of a document makes a revision.
FirstSave(s) == s.last = None

\* The content differs from the latest revision read.
Changed(s) == s.last # s.draft

\* A changed content becomes a revision; watchers hear of it only when there
\* was an earlier one.
Snapshot(r) ==
  LET s == req[r]
  IN  /\ At(r, "snapshot")
      /\ \/ /\ ~Changed(s)
            /\ UNCHANGED <<revisions, clock>>
         \/ /\ Changed(s)
            /\ revisions' = revisions \cup
                 {[path |-> s.path, content |-> s.draft, at |-> clock]}
            /\ clock' = clock + 1
      /\ \/ (s.last = None \/ ~Changed(s)) /\ Resolve(r)
         \/ /\ s.last # None /\ Changed(s)
            /\ Goto(r, "notifyChanged")
            /\ UNCHANGED settled
      /\ UNCHANGED <<stores, comments, watches, inbox, erased, suspect,
                     tangled, bounds>>

NotifyChanged(r) ==
  /\ At(r, "notifyChanged")
  /\ inbox' = inbox \cup Notices(req[r].path, "changed", req[r].by)
  /\ Resolve(r)
  /\ UNCHANGED <<stores, revisions, clock, comments, watches, erased, suspect,
                 tangled, bounds>>

\* fixBrokenLink reads the paths, then rewrites the content it read before.
ReadPaths(r) ==
  LET s      == req[r]
      others == Indexed \ {s.path}
  IN  /\ At(r, "readPaths")
      /\ \/ Namesakes(s.to, others) = {} /\ Finish(r)
         \/ /\ Namesakes(s.to, others) # {}
            /\ req' = [req EXCEPT ![r].pc = "write",
                 ![r].draft = Redirect(s.draft, s.to, Suggest(s.to, others))]
      /\ UNCHANGED <<stores, satellites, ghosts, bounds>>

-----------------------------------------------------------------------------
(* deleteDocument and moveDocument. *)

\* Faulty variant: nobody is told.
SkipNotifyDeleted(r) ==
  /\ At(r, "notifyDeleted")
  /\ Goto(r, "removeFile")
  /\ UNCHANGED <<stores, satellites, ghosts, bounds>>

NotifyDeleted(r) ==
  /\ At(r, "notifyDeleted")
  /\ inbox' = inbox \cup Notices(req[r].from, "deleted", req[r].by)
  /\ Goto(r, "removeFile")
  /\ UNCHANGED <<stores, revisions, clock, comments, watches, ghosts, bounds>>

\* A move to an existing document is refused.
Clash(r) ==
  /\ At(r, "clash")
  /\ IF req[r].to \in Indexed THEN Finish(r) ELSE Goto(r, "readInbound")
  /\ UNCHANGED <<stores, satellites, ghosts, bounds>>

\* The linkers and their contents are read before the record goes away; Pass A
\* rewrites and saves what was read here.
ReadInbound(r) ==
  LET s == req[r]
  IN  /\ At(r, "readInbound")
      /\ req' = [req EXCEPT ![r].pc = "removeFile", ![r].todo =
           {[path |-> q, draft |-> Redirect(index[q], s.from, s.to)] :
              q \in Linkers(s.from) \ {s.from}}]
      /\ UNCHANGED <<stores, satellites, ghosts, bounds>>

\* Faulty variant: the file stays behind.
KeepFile(r) ==
  /\ At(r, "removeFile")
  /\ Claim(r, req[r].from)
  /\ Goto(r, "removeDoc")
  /\ UNCHANGED <<stores, satellites, settled, erased, tangled, bounds>>

RemoveFile(r) ==
  /\ At(r, "removeFile")
  /\ disk' = [disk EXCEPT ![req[r].from] = None]
  /\ Claim(r, req[r].from)
  /\ Goto(r, "removeDoc")
  /\ UNCHANGED <<index, incoming, satellites, settled, erased, tangled, bounds>>

RemoveDoc(r) ==
  /\ At(r, "removeDoc")
  /\ index' = [index EXCEPT ![req[r].from] = None]
  /\ incoming' = [incoming EXCEPT ![req[r].from] = {}]
  /\ Goto(r, IF req[r].op = "delete" THEN "dropHistory" ELSE "unlink")
  /\ UNCHANGED <<disk, satellites, ghosts, bounds>>

DropHistory(r) ==
  /\ At(r, "dropHistory")
  /\ revisions' = revisions \ History(req[r].from)
  /\ erased' = erased \cup {v.content : v \in History(req[r].from)}
  /\ Goto(r, "dropComments")
  /\ UNCHANGED <<stores, clock, comments, watches, inbox, settled, suspect,
                 tangled, bounds>>

DropComments(r) ==
  /\ At(r, "dropComments")
  /\ comments' = {c \in comments : c[2] # req[r].from}
  /\ Goto(r, "dropWatches")
  /\ UNCHANGED <<stores, revisions, clock, watches, inbox, ghosts, bounds>>

DropWatches(r) ==
  /\ At(r, "dropWatches")
  /\ watches' = {w \in watches : w[2] # req[r].from}
  /\ Goto(r, "unlink")
  /\ UNCHANGED <<stores, revisions, clock, comments, inbox, ghosts, bounds>>

\* The last step of a delete; a move goes on to save the document at `to`.
Unlink(r) ==
  LET s == req[r]
  IN  /\ At(r, "unlink")
      /\ incoming' = [q \in Path |-> incoming[q] \ {s.from}]
      /\ \/ s.op = "delete" /\ Finish(r)
         \/ /\ s.op = "move"
            /\ req' = [req EXCEPT ![r].pc = "write", ![r].path = s.to,
                                  ![r].ret = "moveHistory"]
      /\ UNCHANGED <<disk, index, satellites, ghosts, bounds>>

\* Faulty variant: the history of the old path is dropped.
DropOldHistory(r) ==
  /\ At(r, "moveHistory")
  /\ revisions' = revisions \ History(req[r].from)
  /\ Goto(r, "moveComments")
  /\ UNCHANGED <<stores, clock, comments, watches, inbox, ghosts, bounds>>

MoveHistory(r) ==
  /\ At(r, "moveHistory")
  /\ revisions' = Rehomed(revisions, req[r].from, req[r].to)
  /\ Goto(r, "moveComments")
  /\ UNCHANGED <<stores, clock, comments, watches, inbox, ghosts, bounds>>

\* Faulty variant: the comments stay at the old path.
LeaveComments(r) ==
  /\ At(r, "moveComments")
  /\ \E n \in NextUpsert(req[r]) : req' = [req EXCEPT ![r] = n]
  /\ UNCHANGED <<stores, satellites, ghosts, bounds>>

MoveComments(r) ==
  LET s == req[r]
  IN  /\ At(r, "moveComments")
      /\ comments' = {IF c[2] = s.from THEN <<c[1], s.to>> ELSE c : c \in comments}
      /\ \E n \in NextUpsert(s) : req' = [req EXCEPT ![r] = n]
      /\ UNCHANGED <<stores, revisions, clock, watches, inbox, ghosts, bounds>>

ReadWatchers(r) ==
  LET s    == req[r]
      mine == {u \in User : <<u, s.from>> \in watches}
  IN  /\ At(r, "readWatchers")
      /\ \/ mine = {} /\ Finish(r)
         \/ /\ mine # {}
            /\ req' = [req EXCEPT ![r].pc = "moveWatch", ![r].users = mine]
      /\ UNCHANGED <<stores, satellites, ghosts, bounds>>

\* updateOne; when the user already watches `to` the unique index refuses it
\* and the old watch is deleted instead.  The catch takes every other error for
\* that refusal.
MoveWatch(r) ==
  LET s == req[r]
  IN  /\ At(r, "moveWatch")
      /\ \E u \in s.users :
           /\ \/ /\ watches' = IF <<u, s.from>> \in watches
                                 THEN (watches \ {<<u, s.from>>}) \cup {<<u, s.to>>}
                                 ELSE watches
                 /\ UNCHANGED <<faults, tangled>>
              \/ /\ faults < MaxFaults
                 /\ faults' = faults + 1
                 /\ tangled' = TRUE
                 /\ watches' = watches \ {<<u, s.from>>}
           /\ req' = [req EXCEPT ![r].users = @ \ {u},
                ![r].pc = IF s.users = {u} THEN "notifyMoved" ELSE "moveWatch"]
      /\ UNCHANGED <<stores, revisions, clock, comments, inbox, settled, erased,
                     suspect, started>>

NotifyMoved(r) ==
  /\ At(r, "notifyMoved")
  /\ inbox' = inbox \cup Notices(req[r].to, "moved", req[r].by)
  /\ Finish(r)
  /\ UNCHANGED <<stores, revisions, clock, comments, watches, ghosts, bounds>>

-----------------------------------------------------------------------------
(* Users beside the pipeline, and what goes wrong. *)

\* Readers comment on and watch documents that exist (the reader page offers
\* both on an open document); the backend checks neither.  The users m the
\* comment mentions hear of it as a mention, muted or not, and not twice.
AddComment(t, p, u, m) ==
  /\ p \in Indexed
  /\ \A c \in comments : c[1] # t
  /\ comments' = comments \cup {<<t, p>>}
  /\ inbox' = inbox
       \cup {n \in Notices(p, "comment", u) : n.user \notin m}
       \cup [user: m \ {u}, path: {p}, kind: {"mention"}]
  /\ UNCHANGED <<stores, revisions, clock, watches, req, ghosts, bounds>>

Watch(u, p) ==
  /\ p \in Indexed
  /\ watches' = watches \cup {<<u, p>>}
  /\ tangled' = (tangled \/ ~Quiet)
  /\ UNCHANGED <<stores, revisions, clock, comments, inbox, req, settled,
                 erased, suspect, bounds>>

Unwatch(u, p) ==
  /\ <<u, p>> \in watches
  /\ watches' = watches \ {<<u, p>>}
  /\ UNCHANGED <<stores, revisions, clock, comments, inbox, req, ghosts, bounds>>

\* An await of r rejects (a store is unreachable, a disk is full): an import
\* skips the file, every other request ends with an error.
Fail(r) ==
  /\ Busy(r)
  /\ faults < MaxFaults
  /\ faults' = faults + 1
  /\ \E n \in IF req[r].op = "import" THEN NextUpsert(req[r]) ELSE {Idle} :
       req' = [req EXCEPT ![r] = n]
  /\ suspect' = suspect \cup {p \in Path : HalfDone(r, p)}
  /\ tangled' = TRUE
  /\ UNCHANGED <<stores, satellites, started, settled, erased>>

\* The process dies: everything in memory is gone, both stores stay.
Crash ==
  /\ ~Quiet
  /\ faults < MaxFaults
  /\ faults' = faults + 1
  /\ req' = [r \in Req |-> Idle]
  /\ suspect' = suspect \cup {p \in Path : \E r \in Req : HalfDone(r, p)}
  /\ tangled' = TRUE
  /\ UNCHANGED <<stores, satellites, started, settled, erased>>

Upsert(r) ==
  \/ WriteFile(r) \/ IndexDocument(r)
  \/ AddLinks(r) \/ PullLinks(r) \/ ReadLinkers(r) \/ SetLinks(r)
  \/ ReadLatest(r) \/ Snapshot(r) \/ NotifyChanged(r)

Removal(r) ==
  \/ NotifyDeleted(r) \/ RemoveFile(r) \/ RemoveDoc(r) \/ Unlink(r)
  \/ DropHistory(r) \/ DropComments(r) \/ DropWatches(r)

Relocation(r) ==
  \/ Clash(r) \/ ReadInbound(r) \/ MoveHistory(r) \/ MoveComments(r)
  \/ ReadWatchers(r) \/ MoveWatch(r) \/ NotifyMoved(r)

Start(r) ==
  \/ StartSave(r) \/ StartImport(r) \/ StartTag(r) \/ StartFix(r)
  \/ StartFixAll(r) \/ StartDelete(r) \/ StartMove(r)

Next ==
  \/ \E r \in Req : \/ Start(r) \/ Upsert(r) \/ ReadPaths(r)
                    \/ Removal(r) \/ Relocation(r) \/ Fail(r)
  \/ \E t \in Thread, p \in Path, u \in Actor, m \in SUBSET User :
       AddComment(t, p, u, m)
  \/ \E u \in User, p \in Path : Watch(u, p) \/ Unwatch(u, p)
  \/ Crash

Spec == Init /\ [][Next]_vars

-----------------------------------------------------------------------------
(* Properties. *)

\* Wherever file and record were last written by requests that neither
\* overlapped in the middle nor died there, they agree as soon as nobody is
\* between the two writes; a later undisturbed save or removal repairs a path
\* that is suspect.
MirrorAgrees ==
  \A p \in Path \ suspect :
    (\A r \in Req : ~HalfDone(r, p)) => disk[p] = index[p]

\* What upsert once stored and resolved stays in the history of some document,
\* whatever is interleaved, moved or interrupted, unless a delete erased it.
SettledInHistory ==
  \A p \in Path : settled[p] # None =>
    settled[p] \in erased \cup {v.content : v \in revisions}

\* reconcileBacklinks keeps links.incoming of every document equal to the set
\* of documents that link to it, as long as requests come one at a time.
BacklinksExact ==
  Quiet /\ ~tangled => \A p \in Indexed : incoming[p] = Linkers(p)

\* The newest revision of a document is its current content.
HistoryHead ==
  Quiet /\ ~tangled => \A p \in Indexed : Latest(p) = {index[p]}

\* Revisions, comments and watches follow a moved document and go with a
\* deleted one: none is left at a path without document.
FollowersHaveDocument ==
  Quiet /\ ~tangled =>
    /\ \A v \in revisions : v.path \in Indexed
    /\ \A c \in comments : c[2] \in Indexed
    /\ \A w \in watches : w[2] \in Indexed

\* DocumentConsistencyService.check.
MissingOnDisk   == {p \in Indexed : disk[p] = None}
MissingInIndex  == {p \in Path \ Indexed : disk[p] # None}
ContentMismatch == {p \in Indexed : disk[p] # None /\ disk[p] # index[p]}
ConsistencyOk   == MissingOnDisk = {} /\ MissingInIndex = {} /\ ContentMismatch = {}

\* Every document that is stored and not deleted is in its index record and on
\* disk, and the two agree, whenever no request is in flight (MongoDB is the
\* queryable mirror of the files).
MirrorInSync == Quiet => disk = index

\* At rest, a document that was stored and not deleted since is in the index,
\* or the consistency check reports something.
LossVisible ==
  Quiet /\ ConsistencyOk => \A p \in Path : settled[p] # None => p \in Indexed

\* The documents that link to p after the step.
LinkersNext(p) == {q \in Path : index'[q] # None /\ p \in index'[q].links}

\* When a move that ran alone ends, nothing links to the old path any more,
\* except the moved document itself if it linked to itself.
MoveRetargets ==
  [][\A r \in Req :
       /\ req[r].pc \in {"readWatchers", "notifyMoved"}
       /\ req'[r] = Idle
       /\ ~tangled'
       => LinkersNext(req[r].from) \subseteq {req[r].to}]_vars

\* When a move that ran alone ends, every link to the old path is rewritten.
MoveRetargetsEvery ==
  [][\A r \in Req :
       /\ req[r].pc \in {"readWatchers", "notifyMoved"}
       /\ req'[r] = Idle
       /\ ~tangled'
       => LinkersNext(req[r].from) = {}]_vars

\* A watch that ends in this step belonged to the author of the deletion, to
\* somebody told of it (or deaf to it), or has moved to the new path.
EndedFairly(w) ==
  \E r \in Req :
    \/ req[r].op = "delete" /\ req[r].by = w[1]
    \/ [user |-> w[1], path |-> w[2], kind |-> "deleted"] \in inbox
    \/ <<w[1], "deleted">> \in Mutes
    \/ req[r].op = "move" /\ <<w[1], req[r].to>> \in watches'

\* As long as requests come one at a time and none fails, the server ends a
\* watch only fairly.
WatchEndsTold ==
  [][~tangled' /\ req' # req => \A w \in watches \ watches' : EndedFairly(w)]_vars
============================================================================
