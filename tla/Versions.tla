------------------------------ MODULE Versions ------------------------------
(***************************************************************************)
(* Published versions of the document set (doc-versions.service.ts): a     *)
(* header per version and a frozen file per document, written and removed  *)
(* in separate awaits.                                                     *)
(***************************************************************************)
EXTENDS Naturals, FiniteSets

CONSTANTS
  Path, Label,
  Release,    \* identities of version headers
  Request,
  MaxRequests, MaxFaults,  \* bounds on the requests and on rejected awaits
  None

VARIABLES
  docs,      \* paths with a document; contents are frozen with them
  hidden,    \* paths the access rules hide from the reader
  header,    \* header[v]: label and docCount, or None
  files,     \* files[v]: the frozen files
  req,
  snap,      \* snap[v]: the documents its publication read (history)
  crossed,   \* versions whose removal began before their files were written (history)
  broken,    \* versions one of whose requests was interrupted (history)
  started, faults

vars == <<docs, hidden, header, files, req, snap, crossed, broken, started, faults>>

Idle == [op |-> "idle", label |-> None, version |-> None, read |-> {}]

VersionRequest ==
  [op: {"idle", "look", "read", "create", "insert", "files", "header"},
   label: Label \cup {None}, version: Release \cup {None}, read: SUBSET Path]

TypeOK ==
  /\ docs \subseteq Path /\ hidden \subseteq Path
  /\ header \in [Release -> {None} \cup [label: Label, docCount: 1..Cardinality(Path)]]
  /\ files \in [Release -> SUBSET Path] /\ snap \in [Release -> SUBSET Path]
  /\ req \in [Request -> VersionRequest]
  /\ crossed \subseteq Release /\ broken \subseteq Release
  /\ {started, faults} \subseteq Nat

Init ==
  /\ docs \in SUBSET Path /\ hidden \in SUBSET Path
  /\ header = [v \in Release |-> None]
  /\ files = [v \in Release |-> {}] /\ snap = [v \in Release |-> {}]
  /\ req = [r \in Request |-> Idle]
  /\ crossed = {} /\ broken = {} /\ started = 0 /\ faults = 0

Go(r, op) == req' = [req EXCEPT ![r].op = op]
End(r)    == req' = [req EXCEPT ![r] = Idle]
Start(r)  == req[r] = Idle /\ started < MaxRequests /\ started' = started + 1

Known(label) == \E v \in Release : header[v] # None /\ header[v].label = label

\* A document is saved or deleted.
Edit(p) ==
  /\ started < MaxRequests /\ started' = started + 1
  /\ docs' = IF p \in docs THEN docs \ {p} ELSE docs \cup {p}
  /\ UNCHANGED <<hidden, header, files, req, snap, crossed, broken, faults>>

-----------------------------------------------------------------------------
(* publish *)

StartPublish(r, label) ==
  /\ Start(r)
  /\ req' = [req EXCEPT ![r] = [Idle EXCEPT !.op = "look", !.label = label]]
  /\ UNCHANGED <<docs, hidden, header, files, snap, crossed, broken, faults>>

LookForLabel(r) ==
  /\ req[r].op = "look"
  /\ IF Known(req[r].label) THEN End(r) ELSE Go(r, "read")
  /\ UNCHANGED <<docs, hidden, header, files, snap, crossed, broken, started, faults>>

ReadDocuments(r) ==
  /\ req[r].op = "read"
  /\ req' = [req EXCEPT ![r] = IF docs = {} THEN Idle ELSE [@ EXCEPT !.op = "create", !.read = docs]]
  /\ UNCHANGED <<docs, hidden, header, files, snap, crossed, broken, started, faults>>

\* Refused by the unique index when another request was faster.
CreateHeader(r) ==
  /\ req[r].op = "create"
  /\ IF Known(req[r].label) THEN End(r) /\ UNCHANGED <<header, snap>>
     ELSE \E v \in Release :
            /\ header[v] = None /\ snap[v] = {}
            /\ header' = [header EXCEPT ![v] = [label |-> req[r].label, docCount |-> Cardinality(req[r].read)]]
            /\ snap' = [snap EXCEPT ![v] = req[r].read]
            /\ req' = [req EXCEPT ![r].op = "insert", ![r].version = v]
  /\ UNCHANGED <<docs, hidden, files, crossed, broken, started, faults>>

InsertFiles(r) ==
  /\ req[r].op = "insert"
  /\ files' = [files EXCEPT ![req[r].version] = req[r].read]
  /\ End(r)
  /\ UNCHANGED <<docs, hidden, header, snap, crossed, broken, started, faults>>

-----------------------------------------------------------------------------
(* remove *)

Publishing(v) == \E r \in Request : req[r].op = "insert" /\ req[r].version = v
Removing(v)   == \E r \in Request : req[r].op \in {"files", "header"} /\ req[r].version = v

StartRemove(r, v) ==
  /\ Start(r) /\ header[v] # None
  /\ req' = [req EXCEPT ![r] = [Idle EXCEPT !.op = "files", !.version = v]]
  /\ crossed' = IF Publishing(v) THEN crossed \cup {v} ELSE crossed
  /\ UNCHANGED <<docs, hidden, header, files, snap, broken, faults>>

\* Faulty variant: the header goes first.
DropHeaderFirst(r) ==
  /\ req[r].op = "files"
  /\ header' = [header EXCEPT ![req[r].version] = None]
  /\ Go(r, "header")
  /\ UNCHANGED <<docs, hidden, files, snap, crossed, broken, started, faults>>

DropFiles(r) ==
  /\ req[r].op = "files"
  /\ files' = [files EXCEPT ![req[r].version] = {}]
  /\ Go(r, "header")
  /\ UNCHANGED <<docs, hidden, header, snap, crossed, broken, started, faults>>

DropHeader(r) ==
  /\ req[r].op = "header"
  /\ header' = [header EXCEPT ![req[r].version] = None]
  /\ End(r)
  /\ UNCHANGED <<docs, hidden, files, snap, crossed, broken, started, faults>>

\* A rejected await ends the request; deleteMany and insertMany may have done a part.
Interrupt(r) ==
  /\ req[r] # Idle /\ faults < MaxFaults /\ faults' = faults + 1
  /\ LET v == req[r].version IN
       /\ broken' = broken \cup ({v} \ {None})
       /\ \/ UNCHANGED files
          \/ req[r].op = "insert" /\ \E part \in SUBSET req[r].read : files' = [files EXCEPT ![v] = part]
          \/ req[r].op = "files" /\ \E part \in SUBSET files[v] : files' = [files EXCEPT ![v] = part]
  /\ End(r)
  /\ UNCHANGED <<docs, hidden, header, snap, crossed, started>>

\* The calls of DocVersionsController that change something.
Requested(r) ==
  \/ \E label \in Label : StartPublish(r, label)
  \/ \E v \in Release : StartRemove(r, v)

Next ==
  \/ \E p \in Path : Edit(p)
  \/ \E r \in Request :
       \/ Requested(r)
       \/ LookForLabel(r) \/ ReadDocuments(r) \/ CreateHeader(r) \/ InsertFiles(r)
       \/ DropFiles(r) \/ DropHeader(r) \/ Interrupt(r)

Spec == Init /\ [][Next]_vars

-----------------------------------------------------------------------------
(* Properties. *)

\* listDocs: resolveVersion, then the files the caller may see.
ListDocs(v) == IF header[v] = None THEN None ELSE files[v] \ hidden

\* getDoc: the access rules, the version, the file.
GetDoc(v, p) == p \notin hidden /\ header[v] # None /\ p \in files[v]

\* A version that is listed holds every document its publication read, however
\* the documents change; and what no header names any more has no files left,
\* even when removals fail half way, unless a removal overtook the publication.
VersionsWhole ==
  \A v \in Release :
    /\ header[v] # None /\ ~Publishing(v) /\ ~Removing(v) /\ v \notin broken
         => /\ ListDocs(v) = snap[v] \ hidden /\ header[v].docCount = Cardinality(files[v])
            /\ \A p \in snap[v] : GetDoc(v, p) <=> p \in ListDocs(v)
    /\ header[v] = None /\ ~Publishing(v) /\ v \notin crossed => files[v] = {}
=============================================================================
