------------------------------- MODULE Listing -------------------------------
(***************************************************************************)
(* The pages over all documents: the list with its selection, bulk         *)
(* operations and imports (frontend/app/documents/page.tsx), and the tree  *)
(* in which files and folders are moved (documents/structure/page.tsx).    *)
(*                                                                         *)
(* An operation is a loop over files, in the page for an import and a      *)
(* folder, in bulkOperation of the server otherwise; others may change the *)
(* documents between two turns.                                            *)
(***************************************************************************)
EXTENDS Naturals, FiniteSets, SequencesExt

CONSTANTS
  Folder, Base,
  MaxDocs,    \* bound on the documents ever made
  MaxSteps,   \* bound on operations and on changes by others
  MaxFaults,  \* bound on calls that fail, before or after their effect
  None

VARIABLES
  page,      \* "list" or "tree"
  at,        \* at[p]: the document stored at p, a number, or None
  shown,     \* the paths on the page
  selected,
  job,       \* the operation under way
  (* History variables. *)
  made,      \* documents made
  removed,   \* documents deleted
  stale,     \* others changed the documents after the page read them
  halted,    \* an operation ended without loading the list again
  lost,      \* an answer was lost
  steps, faults

history == <<made, removed, stale, halted, lost>>
vars == <<page, at, shown, selected, job, history, steps, faults>>

File == Folder \X Base
Docs == 1..MaxDocs
Idle == [op |-> "none", todo |-> <<>>, to |-> None, ok |-> 0, failed |-> 0, asked |-> 0]
Job  == [op: {"none", "delete", "move", "rename", "import", "create", "load"},
         todo: Seq(File), to: Folder \cup {None}, ok: Nat, failed: Nat, asked: Nat]

TypeOK ==
  /\ page \in {"list", "tree"}
  /\ at \in [File -> Docs \cup {None}]
  /\ shown \subseteq File /\ selected \subseteq File
  /\ job \in Job
  /\ made \in 0..MaxDocs /\ removed \subseteq Docs /\ {stale, halted, lost} \subseteq BOOLEAN
  /\ {steps, faults} \subseteq Nat

Stored == {p \in File : at[p] # None}

Init ==
  /\ page \in {"list", "tree"}
  /\ made \in (0..2) \cap (0..MaxDocs)
  /\ at \in {f \in [File -> (1..made) \cup {None}] : \A d \in 1..made : Cardinality({p \in File : f[p] = d}) = 1}
  /\ shown = Stored /\ selected = {} /\ job = Idle
  /\ removed = {} /\ stale = FALSE /\ halted = FALSE /\ lost = FALSE
  /\ steps = 0 /\ faults = 0

Step == steps < MaxSteps /\ steps' = steps + 1

-----------------------------------------------------------------------------
(* The selection; toggleAll takes the rows a filter leaves. *)

Flip(set, rows) == IF rows \subseteq set THEN set \ rows ELSE set \cup rows

Select ==
  /\ page = "list" /\ job.op = "none" /\ Step
  /\ \E rows \in (SUBSET shown) \ {{}} : selected' = Flip(selected, rows)
  /\ UNCHANGED <<page, at, shown, job, history, faults>>

-----------------------------------------------------------------------------
(* Operations begin. *)

Begin(op, todo, to) ==
  /\ job.op = "none" /\ Step
  /\ job' = [Idle EXCEPT !.op = op, !.todo = todo, !.to = to, !.asked = Len(todo)]
  /\ UNCHANGED <<page, at, shown, selected, history, faults>>

\* runBulk, for the rows selected, those a filter hides or another load took away included.
StartBulk ==
  /\ page = "list" /\ selected # {}
  /\ \E todo \in SetToSeqs(selected), to \in Folder : Begin("delete", todo, None) \/ Begin("move", todo, to)

\* importFolder: one call for each file, whose paths may agree.
StartImport == page = "list" /\ \E p, q \in File : Begin("import", <<p, q>>, None)

\* createDoc, and createFromTemplate of the tree.
StartCreate == \E p \in File : Begin("create", <<p>>, None)

\* performMove drops a file on a folder, renameFolder moves the files one by one.
StartMove ==
  /\ page = "tree"
  /\ \E p \in shown : \E to \in Folder \ {p[1]} : Begin("rename", <<p>>, to)

StartRename ==
  /\ page = "tree"
  /\ \E f \in Folder : \E to \in Folder \ {f} :
       LET items == {p \in shown : p[1] = f} IN
       items # {} /\ \E todo \in SetToSeqs(items) : Begin("rename", todo, to)

-----------------------------------------------------------------------------
(* One turn of the loop. *)

\* Faulty variant: a file at the new path is replaced.
MovedOver(p, to) ==
  CASE to = p -> {at}
    [] to # p /\ at[p] = None -> {}
    [] OTHER -> {[at EXCEPT ![to] = at[p], ![p] = None]}

\* moveDocument refuses a path that is taken; its own path is no move.
Moved(p, to) ==
  CASE to = p -> {at}
    [] to # p /\ (at[p] = None \/ at[to] # None) -> {}
    [] OTHER -> {[at EXCEPT ![to] = at[p], ![p] = None]}

Deleted(p) == IF at[p] = None THEN {} ELSE {[at EXCEPT ![p] = None]}

\* A save at a path that is taken is a save of the document there.
Saved(p) == IF at[p] # None THEN {at}
            ELSE IF made = MaxDocs THEN {} ELSE {[at EXCEPT ![p] = made + 1]}

After(p) == CASE job.op = "delete" -> Deleted(p)
              [] job.op \in {"move", "rename"} -> Moved(p, <<job.to, p[2]>>)
              [] job.op \in {"import", "create"} -> Saved(p)

Fresh(next) == IF \E p \in File : next[p] = made + 1 THEN made + 1 ELSE made

Turn ==
  /\ job.todo # <<>>
  /\ \E next \in After(Head(job.todo)) :
       /\ at' = next /\ made' = Fresh(next)
       /\ removed' = IF job.op = "delete" THEN removed \cup {at[Head(job.todo)]} ELSE removed
  /\ job' = [job EXCEPT !.todo = Tail(@), !.ok = @ + 1]
  /\ UNCHANGED <<page, shown, selected, stale, halted, lost, steps, faults>>

\* Bulk operations and imports go on after a file that fails; a folder stops
\* half way, and the list is not loaded again.
Skip == IF job.op \in {"delete", "move", "import"}
        THEN job' = [job EXCEPT !.todo = Tail(@), !.failed = @ + 1] /\ UNCHANGED halted
        ELSE job' = Idle /\ halted' = (halted \/ job.ok > 0)

RefuseTurn ==
  /\ job.todo # <<>> /\ Skip
  /\ IF After(Head(job.todo)) = {} THEN UNCHANGED faults ELSE faults < MaxFaults /\ faults' = faults + 1
  /\ UNCHANGED <<page, at, shown, selected, made, removed, stale, lost, steps>>

\* A call of the page took effect, and its answer is lost.
LoseAnswer ==
  /\ job.todo # <<>> /\ job.op \in {"rename", "import", "create"}
  /\ faults < MaxFaults /\ faults' = faults + 1
  /\ \E next \in After(Head(job.todo)) : at' = next /\ made' = Fresh(next)
  /\ Skip /\ lost' = TRUE
  /\ UNCHANGED <<page, shown, selected, removed, stale, steps>>

\* The toast with the counts; the selection is emptied after a bulk operation.
Finish ==
  /\ job.op \notin {"none", "load"} /\ job.todo = <<>>
  /\ selected' = IF job.op \in {"delete", "move"} THEN {} ELSE selected
  /\ job' = [job EXCEPT !.op = "load"]
  /\ UNCHANGED <<page, at, shown, history, steps, faults>>

Load ==
  /\ job.op = "load" /\ job' = Idle
  /\ shown' = Stored /\ stale' = FALSE /\ halted' = FALSE /\ lost' = FALSE
  /\ UNCHANGED <<page, at, selected, made, removed, steps, faults>>

\* The list keeps what it showed, the tree shows nothing.
FailLoad ==
  /\ job.op = "load" /\ faults < MaxFaults /\ faults' = faults + 1
  /\ job' = Idle /\ lost' = TRUE
  /\ shown' = IF page = "tree" THEN {} ELSE shown
  /\ UNCHANGED <<page, at, selected, made, removed, stale, halted, steps>>

\* Somebody else saves, deletes or moves a document.
Foreign ==
  /\ Step /\ stale' = TRUE
  /\ \E p \in File :
       \/ /\ at[p] = None /\ at' \in Saved(p) /\ made' = made + 1 /\ UNCHANGED removed
       \/ at' \in Deleted(p) /\ removed' = removed \cup {at[p]} /\ UNCHANGED made
       \/ \E q \in File \ {p} : at' \in Moved(p, q) /\ UNCHANGED <<made, removed>>
  /\ UNCHANGED <<page, shown, selected, job, halted, lost, faults>>

Next ==
  \/ Select \/ StartBulk \/ StartImport \/ StartCreate \/ StartMove \/ StartRename
  \/ Turn \/ RefuseTurn \/ LoseAnswer \/ Finish \/ Load \/ FailLoad \/ Foreign

Spec == Init /\ [][Next]_vars

-----------------------------------------------------------------------------
(* Properties. *)

\* A document disappears only when it is deleted: moves of files and folders,
\* half done or run into others' changes, lose none and double none.
NothingLost == \A d \in 1..made : Cardinality({p \in File : at[p] = d}) = IF d \in removed THEN 0 ELSE 1

\* Every file asked for is counted in the message at the end.
CountsTold == job.op = "load" => job.ok + job.failed = job.asked

\* After an operation the page shows what is stored, unless a folder stopped
\* half way, an answer was lost or others changed something.
ListCurrent == job.op = "none" /\ ~stale /\ ~halted /\ ~lost => shown = Stored

ListingSound == NothingLost /\ CountsTold /\ ListCurrent
=============================================================================
