------------------------------- MODULE DocPage -------------------------------
(***************************************************************************)
(* The pages about one document: the editor, the reader and the history    *)
(* (frontend/app/documents/edit, view and history).  Each follows the path *)
(* in the address without being mounted again; the calls made for the      *)
(* address before are not cancelled, and their answers arrive in any order.*)
(*                                                                         *)
(* A text is known by the document it was loaded or written for.           *)
(***************************************************************************)
EXTENDS Integers, FiniteSets

CONSTANTS
  Path,
  Revision,   \* revisions of a document, in the history
  MaxSteps,   \* bound on what the user does
  MaxFaults,  \* bound on calls that fail
  None

VARIABLES
  kind,      \* "editor", "reader" or "history"
  path,      \* path in the address; None for a new document
  version,   \* the reader shows a published version
  calls,     \* loads in flight: what was asked, and a number that tells them apart
  doc,       \* the document shown: the text in the editor, the diff of a revision
  filePath,  \* editor: the path a save goes to
  saving,    \* editor: the save in flight
  timer,     \* reader: the telemetry of the document shown
  selected,  \* history: the revision selected
  stored,    \* stored[p]: the document whose text is stored at p
  (* History variables. *)
  renamed,   \* the user changed the field of the path
  mixed,     \* the text in the editor may belong to another address
  odd,       \* paths saved to while renamed or mixed
  shows, dwells,  \* documents shown, and reads reported with their time
  blinks,         \* reads reported without
  restored,  \* pairs of revisions: whose text, under whose label
  steps, faults

history == <<renamed, mixed, odd, shows, dwells, blinks, restored>>
vars == <<kind, path, version, calls, doc, filePath, saving, timer, selected, stored, history, steps, faults>>

What == Path \cup Revision
Load == [what: What, n: Nat]

TypeOK ==
  /\ kind \in {"editor", "reader", "history"} /\ path \in Path \cup {None} /\ version \in BOOLEAN
  /\ calls \subseteq Load /\ doc \in What \cup {None} /\ filePath \in Path \cup {None}
  /\ saving \in [path: Path, text: Path \cup {None}, fresh: BOOLEAN] \cup {None}
  /\ timer \in {"off", "on", "sent"} /\ selected \in Revision \cup {None}
  /\ stored \in [Path -> Path \cup {None}]
  /\ {renamed, mixed} \subseteq BOOLEAN /\ odd \subseteq Path
  /\ {shows, dwells, blinks, steps, faults} \subseteq Nat
  /\ restored \subseteq Revision \X Revision

Init ==
  /\ stored \in {s \in [Path -> Path \cup {None}] : \A p \in Path : s[p] \in {p, None}}
  /\ \E k \in {"editor", "reader", "history"}, p \in Path \cup {None} :
       /\ kind = k /\ path = p /\ filePath = p
       /\ p = None => k = "editor"
       /\ calls = IF p = None \/ k = "history" THEN {} ELSE {[what |-> p, n |-> 0]}
  /\ version = FALSE /\ doc = None /\ saving = None
  /\ timer = "off" /\ selected = None
  /\ renamed = FALSE /\ mixed = FALSE /\ odd = {}
  /\ shows = 0 /\ dwells = 0 /\ blinks = 0 /\ restored = {}
  /\ steps = 0 /\ faults = 0

Step == steps < MaxSteps /\ steps' = steps + 1
Ask(what) == [what |-> what, n |-> steps + 1]

-----------------------------------------------------------------------------
(* The editor. *)

\* Faulty variant: the path of the next save does not follow the address.
OpenInEditorOnly(p) ==
  /\ kind = "editor" /\ p # path /\ Step
  /\ path' = p /\ renamed' = FALSE
  /\ calls' = IF p = None THEN calls ELSE calls \cup {Ask(p)}
  /\ mixed' = (p = None \/ calls # {})
  /\ UNCHANGED <<kind, version, doc, filePath, saving, timer, selected, stored, odd, shows, dwells, blinks, restored, faults>>

\* Another document is opened from the tree: the path to save to follows at
\* once, the text when it arrives.
OpenInEditor(p) ==
  /\ kind = "editor" /\ p # path /\ Step
  /\ path' = p /\ filePath' = p /\ renamed' = FALSE
  /\ calls' = IF p = None THEN calls ELSE calls \cup {Ask(p)}
  /\ mixed' = (p = None \/ calls # {})
  /\ UNCHANGED <<kind, version, doc, saving, timer, selected, stored, odd, shows, dwells, blinks, restored, faults>>

\* Typing is for the document in the address; a load under way replaces it.
TypeText ==
  /\ kind = "editor" /\ Step
  /\ doc' = IF filePath = None THEN doc ELSE filePath
  /\ mixed' = (mixed \/ calls # {} \/ filePath = None)
  /\ UNCHANGED <<kind, path, version, calls, filePath, saving, timer, selected, stored, renamed, odd, shows, dwells, blinks, restored, faults>>

TypePath(p) ==
  /\ kind = "editor" /\ Step /\ filePath # p
  /\ filePath' = p /\ renamed' = TRUE
  /\ UNCHANGED <<kind, path, version, calls, doc, saving, timer, selected, stored, mixed, odd, shows, dwells, blinks, restored, faults>>

\* Nothing holds a save back while the text is being loaded.
StartSave ==
  /\ kind = "editor" /\ saving = None /\ Step
  /\ filePath # None /\ doc # None
  /\ saving' = [path |-> filePath, text |-> doc, fresh |-> path = None]
  /\ odd' = IF renamed \/ mixed \/ calls # {} THEN odd \cup {filePath} ELSE odd
  /\ UNCHANGED <<kind, path, version, calls, doc, filePath, timer, selected, stored, renamed, mixed, shows, dwells, blinks, restored, faults>>

\* A document that was new is opened at the path it was saved to, wherever the
\* user has gone meanwhile.
EndSave ==
  /\ saving # None
  /\ stored' = [stored EXCEPT ![saving.path] = saving.text]
  /\ saving' = None
  /\ IF saving.fresh /\ path # saving.path
     THEN /\ path' = saving.path /\ filePath' = saving.path /\ renamed' = FALSE
          /\ calls' = calls \cup {Ask(saving.path)} /\ mixed' = (calls # {})
     ELSE UNCHANGED <<path, filePath, renamed, calls, mixed>>
  /\ UNCHANGED <<kind, version, doc, timer, selected, odd, shows, dwells, blinks, restored, steps, faults>>

FailSave ==
  /\ saving # None /\ faults < MaxFaults /\ faults' = faults + 1
  /\ saving' = None
  /\ UNCHANGED <<kind, path, version, calls, doc, filePath, timer, selected, stored, history, steps>>

-----------------------------------------------------------------------------
(* The reader. *)

Seconds == IF timer = "on" THEN 1 ELSE 0

\* Another document or version: what was read is reported.  The effect starts
\* once more with the document before, still shown while its successor loads,
\* and reports a read of no time at the new path.
OpenInReader(p, v) ==
  /\ kind = "reader" /\ <<p, v>> # <<path, version>> /\ Step
  /\ path' = p /\ version' = v
  /\ doc' = None /\ timer' = "off"
  /\ calls' = calls \cup {Ask(p)}
  /\ dwells' = dwells + Seconds
  /\ blinks' = blinks + (IF doc # None /\ ~v THEN 1 ELSE 0)
  /\ mixed' = (mixed \/ calls # {})
  /\ UNCHANGED <<kind, filePath, saving, selected, stored, renamed, odd, shows, restored, faults>>

\* The tab is hidden: the read is reported, once.
Hide ==
  /\ kind = "reader" /\ timer = "on" /\ Step
  /\ dwells' = dwells + Seconds /\ timer' = "sent"
  /\ UNCHANGED <<kind, path, version, calls, doc, filePath, saving, selected, stored, renamed, mixed, odd, shows, blinks, restored, faults>>

-----------------------------------------------------------------------------
(* The history. *)

Select(r) ==
  /\ kind = "history" /\ selected # r /\ Step
  /\ selected' = r /\ calls' = calls \cup {Ask(r)}
  /\ mixed' = (mixed \/ calls # {})
  /\ UNCHANGED <<kind, path, version, doc, filePath, saving, timer, stored, renamed, odd, shows, dwells, blinks, restored, faults>>

\* The text of the revision selected, under the label of the diff shown.
Restore ==
  /\ kind = "history" /\ None \notin {selected, doc} /\ Step
  /\ restored' = IF calls = {} /\ ~mixed THEN restored \cup {<<selected, doc>>} ELSE restored
  /\ stored' = [stored EXCEPT ![path] = path]
  /\ UNCHANGED <<kind, path, version, calls, doc, filePath, saving, timer, selected, renamed, mixed, odd, shows, dwells, blinks, faults>>

-----------------------------------------------------------------------------
(* Answers. *)

\* A revision is there for good; getDiff compares it with the one before.
GetDiff(r)   == r \in Revision
GetByPath(p) == p \in Path /\ stored[p] # None

Found(c) == GetDiff(c.what) \/ GetByPath(c.what)

\* The answer is shown, whatever the address is by then; a text that arrives
\* after a later one belongs to another address.
Arrive(c) ==
  /\ c \in calls /\ Found(c) /\ calls' = calls \ {c}
  /\ doc' = c.what
  /\ IF kind = "reader" /\ ~version
     THEN timer' = "on" /\ dwells' = dwells + Seconds /\ shows' = shows + 1
     ELSE UNCHANGED <<timer, dwells, shows>>
  /\ UNCHANGED <<kind, path, version, filePath, saving, selected, stored, renamed, mixed, odd, blinks, restored, steps, faults>>

\* Not there, not allowed, or the call failed: the editor keeps the text it
\* had, the reader and the history show none.
Reject(c) ==
  /\ c \in calls /\ calls' = calls \ {c}
  /\ IF Found(c) THEN faults < MaxFaults /\ faults' = faults + 1 ELSE UNCHANGED faults
  /\ IF kind = "history" THEN doc' = None ELSE UNCHANGED doc
  /\ mixed' = (mixed \/ kind = "editor")
  /\ UNCHANGED <<kind, path, version, filePath, saving, timer, selected, stored, renamed, odd, shows, dwells, blinks, restored, steps>>

Next ==
  \/ \E p \in Path \cup {None} : OpenInEditor(p)
  \/ \E p \in Path : TypePath(p) \/ \E v \in BOOLEAN : OpenInReader(p, v)
  \/ \E r \in Revision : Select(r)
  \/ TypeText \/ StartSave \/ EndSave \/ FailSave \/ Hide \/ Restore
  \/ \E c \in calls : Arrive(c) \/ Reject(c)

Spec == Init /\ [][Next]_vars

-----------------------------------------------------------------------------
(* Properties. *)

\* A document is never overwritten with the text of another one, unless the
\* author changed the path, or saved before the text of the address was there.
TextInPlace == \A p \in Path : stored[p] \in {p, None} \/ p \in odd

\* Every document shown to a reader is reported with its time exactly once, when
\* it is left, replaced by a late answer or hidden with its tab.
ReadsMatch == dwells = shows - Seconds

\* The text that is restored is the one the diff on the page shows, unless
\* another diff was on its way.
RestoreExact == \A x \in restored : x[1] = x[2]

PagesSound == TextInPlace /\ ReadsMatch /\ RestoreExact
=============================================================================
