------------------------------- MODULE Panels -------------------------------
(***************************************************************************)
(* Lists a page keeps beside the records of the server: the dialogs that   *)
(* manage templates, snippets and front-matter schemas, the team page,     *)
(* comments, media, public links, access rules, watches, favourites, the   *)
(* bell, preferences and the settings of the source.                       *)
(*                                                                         *)
(* The pages differ in how a list follows a change: a manager is closed to *)
(* other calls until its list was loaded again, a page loads again but     *)
(* takes calls meanwhile, an answer may carry the new list, and a switch   *)
(* is shown at once and taken back when it fails, or not.                  *)
(*                                                                         *)
(* A record is known by its name, which stands for all its fields; what is *)
(* built in, and never changes, is left out.                               *)
(***************************************************************************)
EXTENDS Naturals, FiniteSets

CONSTANTS
  Row, Name,
  Call,       \* calls of the page in flight at once
  MaxCalls,   \* bound on the calls
  MaxFaults,  \* bound on the calls that fail, before or after their effect
  None

VARIABLES
  page,
  rows,     \* rows[x]: the name of the record x, None when there is none
  shown,    \* the list of the page
  form,     \* the form of a manager; row None for a new record
  call,     \* the calls in flight
  (* History variables. *)
  refused,  \* the form as it was sent with a save that failed, until it is touched
  stale,    \* somebody else changed the records after the page read them
  lost,     \* an answer was lost, or a switch kept that was refused
  overlapped,
  started, faults

history == <<refused, stale, lost, overlapped>>
vars == <<page, rows, shown, form, call, history, started, faults>>

Managers == {"templates", "snippets", "schemas"}
Lists    == {"team", "comments", "media", "share", "access", "review", "watching", "bell"}
Switches == {"favorites", "preferences", "muted", "source"}

\* A public link, a watch, an unread notice and a switch are there or not.
Names   == IF page \in Switches \cup {"share", "watching", "bell"} THEN {CHOOSE n \in Name : TRUE} ELSE Name
List    == [Row -> Names \cup {None}]
Form    == [row: Row \cup {None}, name: Name \cup {None}]
Empty   == [row |-> None, name |-> None]
Nothing == [x \in Row |-> None]
Quiet   == [pc |-> "idle", op |-> "none", row |-> None, name |-> None, list |-> None]
PageCall == [pc: {"idle", "sent", "done", "failed", "load", "loaded"},
             op: {"none", "save", "remove", "clear"},
             row: Row \cup {None}, name: Name \cup {None},
             list: List \cup {None}]  \* a list on its way, or the one before a switch

TypeOK ==
  /\ page \in Managers \cup Lists \cup Switches
  /\ rows \in List /\ shown \in List /\ form \in Form
  /\ call \in [Call -> PageCall]
  /\ refused \in Form \cup {None} /\ {stale, lost, overlapped} \subseteq BOOLEAN
  /\ {started, faults} \subseteq Nat

\* The unique index of a catalogue on the name within a workspace.
Unique(list) == page \in Managers => \A x, y \in Row : x # y /\ list[x] # None => list[x] # list[y]

Init ==
  /\ page \in Managers \cup Lists \cup Switches
  /\ rows \in {list \in List : Unique(list)} /\ shown = rows
  /\ form = Empty /\ call = [c \in Call |-> Quiet]
  /\ refused = None /\ stale = FALSE /\ lost = FALSE /\ overlapped = FALSE
  /\ started = 0 /\ faults = 0

Busy == \E c \in Call : call[c].pc # "idle"

-----------------------------------------------------------------------------
(* The three managers: templates, snippets, front-matter schemas. *)

\* change: the fields stay open while a call is in flight.
Type(n) ==
  /\ form.name # n
  /\ form' = [form EXCEPT !.name = n] /\ refused' = None
  /\ UNCHANGED <<page, rows, shown, call, stale, lost, overlapped, started, faults>>

Edit(x) ==
  /\ ~Busy /\ shown[x] # None
  /\ form' = [row |-> x, name |-> shown[x]] /\ refused' = None
  /\ UNCHANGED <<page, rows, shown, call, stale, lost, overlapped, started, faults>>

\* resetForm, and close.
Reset ==
  /\ ~Busy
  /\ form' = Empty /\ refused' = None
  /\ UNCHANGED <<page, rows, shown, call, stale, lost, overlapped, started, faults>>

\* The load of the media library aborts the one before; its calls may overlap.
Send(c, s) ==
  /\ started < MaxCalls /\ started' = started + 1
  /\ call[c].pc = "idle" /\ (page \in Managers => ~Busy)
  /\ call' = [call EXCEPT ![c] = s]
  /\ overlapped' = (overlapped \/ (Busy /\ page # "media"))

Save(c) ==
  /\ form.name # None
  /\ Send(c, [Quiet EXCEPT !.pc = "sent", !.op = "save", !.row = form.row, !.name = form.name])
  /\ refused' = None
  /\ UNCHANGED <<page, rows, shown, form, stale, lost, faults>>

\* A list adds, changes and removes its rows at once.
Put(c, x, n) ==
  /\ Send(c, [Quiet EXCEPT !.pc = "sent", !.op = "save", !.row = x, !.name = n])
  /\ UNCHANGED <<page, rows, shown, form, refused, stale, lost, faults>>

Add(c)       == \E n \in Names : Put(c, None, n)
Change(c)    == \E x \in Row, n \in Name : shown[x] \notin {None, n} /\ Put(c, x, n)
PutAnywhere(c) == \E x \in Row, n \in Names : shown[x] # n /\ Put(c, x, n)

Remove(c) ==
  /\ \E x \in Row : shown[x] # None /\ Send(c, [Quiet EXCEPT !.pc = "sent", !.op = "remove", !.row = x])
  /\ refused' = None
  /\ UNCHANGED <<page, rows, shown, form, stale, lost, faults>>

Manage(c) == Reset \/ (\E n \in Name : Type(n)) \/ (\E x \in Row : Edit(x)) \/ Save(c) \/ Remove(c)

DocumentTemplateManager(c)  == page = "templates" /\ Manage(c)
DocumentSnippetManager(c)   == page = "snippets" /\ Manage(c)
FrontmatterSchemaManager(c) == page = "schemas" /\ Manage(c)

-----------------------------------------------------------------------------
(* The lists. *)

\* Invitations and keys are added and removed, members change their role or leave.
TeamPage(c) == page = "team" /\ (Add(c) \/ Change(c) \/ Remove(c))

\* A comment is added; a thread is resolved and opened again.
ReviewPage(c) == page = "comments" /\ (Add(c) \/ Change(c))

\* Upload, rename, move to another volume, delete; a volume is mounted.
MediaPage(c) == page = "media" /\ (Add(c) \/ Change(c) \/ Remove(c))

ShareDialog(c) == page = "share" /\ (Add(c) \/ Remove(c))

\* A rule is set for a path and a subject, whether there was one or not.
AccessPanel(c) == page = "access" /\ (PutAnywhere(c) \/ Remove(c))

\* setStatus: a verdict, or none again.
SetStatus(c) == page = "review" /\ (PutAnywhere(c) \/ Remove(c))

Watching(c) == page = "watching" /\ (PutAnywhere(c) \/ Remove(c))

\* refreshCount, every 30 seconds: the unread notices, of which one is read or all.
RefreshCount(c) ==
  /\ Send(c, [Quiet EXCEPT !.pc = "load"])
  /\ UNCHANGED <<page, rows, shown, form, refused, stale, lost, faults>>

MarkAll(c) ==
  /\ Send(c, [Quiet EXCEPT !.pc = "sent", !.op = "clear"])
  /\ UNCHANGED <<page, rows, shown, form, refused, stale, lost, faults>>

NotificationBell(c) == page = "bell" /\ (RefreshCount(c) \/ Remove(c) \/ MarkAll(c))

-----------------------------------------------------------------------------
(* The switches: shown at once, with what was shown before kept for a failure. *)

Toggle(c) ==
  /\ \E x \in Row, n \in Names :
       /\ shown' = [shown EXCEPT ![x] = IF @ = n THEN None ELSE n]
       /\ Send(c, [Quiet EXCEPT !.pc = "sent", !.op = "save", !.row = x, !.name = shown'[x], !.list = shown])
  /\ UNCHANGED <<page, rows, form, refused, stale, lost, faults>>

ToggleFavorite(c) == page = "favorites" /\ Toggle(c)
TogglePref(c)     == page = "preferences" /\ Toggle(c)
ToggleKind(c)     == page = "muted" /\ Toggle(c)

\* The switches of the source are sent as they are shown.
ToggleSource(c) == page = "source" /\ Toggle(c)

-----------------------------------------------------------------------------
(* The services: the records after a call, none when it is refused. *)

Created(n)    == {[rows EXCEPT ![x] = n] : x \in {y \in Row : rows[y] = None}} \cap {list \in List : Unique(list)}
Updated(x, n) == {list \in {[rows EXCEPT ![x] = n]} : rows[x] # None /\ Unique(list)}
Removed(x)    == IF rows[x] = None THEN {} ELSE {[rows EXCEPT ![x] = None]}
Written(x, n) == {[rows EXCEPT ![x] = n]}

\* create, update and remove of a catalogue, and of the lists that are alike.
Catalogue(k) ==
  CASE k.op = "remove" -> Removed(k.row)
    [] k.op = "save" /\ k.row = None -> Created(k.name)
    [] k.op = "save" /\ k.row # None -> Updated(k.row, k.name)

\* Verdicts, watches and read marks are set and dropped whether they are there or not; a
\* rule that is gone cannot be dropped.
Marks(k) ==
  CASE k.op = "clear" -> {Nothing}
    [] k.op = "save" -> Written(k.row, k.name)
    [] k.op = "remove" -> IF page = "access" THEN Removed(k.row) ELSE Written(k.row, None)

\* A field is set as sent and the others are left, but the muted kinds are sent
\* as a whole.
Settings(k) == IF page = "muted" THEN {[k.list EXCEPT ![k.row] = k.name]} ELSE Written(k.row, k.name)

\* addComment and setThreadResolved; nothing is removed.
Comments(k) == IF k.row = None THEN Created(k.name) ELSE Updated(k.row, k.name)

After(k) == CASE page \in Managers \cup {"team", "media", "share"} -> Catalogue(k)
              [] page = "comments" -> Comments(k)
              [] page \in {"access", "review", "watching", "bell"} -> Marks(k)
              [] page \in Switches -> Settings(k)

\* The answers that carry the new list.
Answers(k) == page \in {"access", "review", "watching", "bell"} \/ (page = "share" /\ k.op = "remove")

Reply(c) ==
  /\ call[c].pc = "sent"
  /\ \/ /\ After(call[c]) = {} /\ call' = [call EXCEPT ![c].pc = "failed"]
        /\ UNCHANGED <<rows, stale>>
     \/ \E next \in After(call[c]) :
          /\ rows' = next
          /\ call' = [call EXCEPT ![c].pc = "done", ![c].list = IF Answers(call[c]) THEN next ELSE @]
          /\ stale' = (stale /\ ~Answers(call[c]))
  /\ UNCHANGED <<page, shown, form, refused, lost, overlapped, started, faults>>

\* normalizeFields may refuse what a schema holds, before anything is written.
RefuseFields(c) ==
  /\ call[c].pc = "sent" /\ call[c].op = "save"
  /\ call' = [call EXCEPT ![c].pc = "failed"]
  /\ UNCHANGED <<page, rows, shown, form, refused, stale, lost, overlapped, started, faults>>

DocumentTemplatesService(c)  == page = "templates" /\ Reply(c)
DocumentSnippetsService(c)   == page = "snippets" /\ Reply(c)
FrontmatterSchemasService(c) == page = "schemas" /\ (Reply(c) \/ RefuseFields(c))
OtherService(c)              == page \notin Managers /\ Reply(c)

Foreign ==
  /\ started < MaxCalls /\ started' = started + 1
  /\ rows' \in {list \in List : Unique(list) /\ Cardinality({x \in Row : list[x] # rows[x]}) = 1}
  /\ stale' = TRUE
  /\ UNCHANGED <<page, shown, form, call, refused, lost, overlapped, faults>>

\* A call fails before its effect, or its answer does not arrive.
Fail(c) ==
  /\ call[c].pc \in {"sent", "done"} /\ faults < MaxFaults /\ faults' = faults + 1
  /\ lost' = (lost \/ call[c].pc = "done")
  /\ call' = [call EXCEPT ![c].pc = "failed"]
  /\ UNCHANGED <<page, rows, shown, form, refused, stale, overlapped, started>>

-----------------------------------------------------------------------------
(* The answer. *)

\* Success empties the form, after a deletion only when it held the deleted row.
Kept(k) == IF k.op = "save" \/ (k.op = "remove" /\ form.row = k.row) THEN Empty ELSE form

\* The calls while c begins to load the list.
Loading(c) == [d \in Call |->
  CASE d = c -> [call[c] EXCEPT !.pc = "load", !.list = None]
    [] d # c /\ page = "media" /\ call[d].pc \in {"load", "loaded"} -> Quiet
    [] OTHER -> call[d]]

Succeed(c) ==
  /\ call[c].pc = "done"
  /\ form' = Kept(call[c])
  /\ shown' = IF Answers(call[c]) THEN call[c].list ELSE shown
  /\ call' = IF Answers(call[c]) \/ page \in Switches THEN [call EXCEPT ![c] = Quiet] ELSE Loading(c)
  /\ UNCHANGED <<page, rows, history, started, faults>>

\* The form as it was sent with a save that failed.
Draft(c) == IF page \in Managers /\ call[c].op = "save" THEN [row |-> call[c].row, name |-> form.name] ELSE refused

\* Faulty variant: a switch that failed is not taken back.
RefuseOnly(c) ==
  /\ call[c].pc = "failed"
  /\ refused' = Draft(c)
  /\ call' = IF page = "media" /\ call[c].row = None THEN Loading(c) ELSE [call EXCEPT ![c] = Quiet]
  /\ UNCHANGED <<page, rows, shown, form, stale, lost, overlapped, started, faults>>

\* What is shown after a failure: the field goes back, the muted kinds as a
\* whole, the switches of the source not at all.
Back(k) == CASE page \in {"favorites", "preferences"} -> [shown EXCEPT ![k.row] = k.list[k.row]]
             [] page = "muted" -> k.list
             [] OTHER -> shown

\* A message; the form stays. An upload that failed is followed by a load too.
Refuse(c) ==
  /\ call[c].pc = "failed"
  /\ shown' = Back(call[c])
  /\ lost' = (lost \/ page = "source")
  /\ refused' = Draft(c)
  /\ call' = IF page = "media" /\ call[c].row = None THEN Loading(c) ELSE [call EXCEPT ![c] = Quiet]
  /\ UNCHANGED <<page, rows, form, stale, overlapped, started, faults>>

ReadList(c) ==
  /\ call[c].pc = "load"
  /\ call' = [call EXCEPT ![c].pc = "loaded", ![c].list = rows]
  /\ stale' = FALSE /\ lost' = FALSE
  /\ UNCHANGED <<page, rows, shown, form, refused, overlapped, started, faults>>

ShowList(c) ==
  /\ call[c].pc = "loaded"
  /\ shown' = call[c].list
  /\ call' = [call EXCEPT ![c] = Quiet]
  /\ UNCHANGED <<page, rows, form, history, started, faults>>

\* A load that fails empties the list of a manager, the comments and the media;
\* the others keep theirs.
FailList(c) ==
  /\ call[c].pc \in {"load", "loaded"} /\ faults < MaxFaults /\ faults' = faults + 1
  /\ shown' = IF page \in Managers \cup {"comments", "media"} THEN Nothing ELSE shown
  /\ call' = [call EXCEPT ![c] = Quiet] /\ lost' = TRUE
  /\ UNCHANGED <<page, rows, form, refused, stale, overlapped, started>>

Next ==
  \/ Foreign
  \/ \E c \in Call :
       \/ DocumentTemplatesService(c) \/ DocumentSnippetsService(c) \/ FrontmatterSchemasService(c) \/ OtherService(c)
       \/ Fail(c) \/ Succeed(c) \/ Refuse(c) \/ ReadList(c) \/ ShowList(c) \/ FailList(c)
       \/ DocumentTemplateManager(c) \/ DocumentSnippetManager(c) \/ FrontmatterSchemaManager(c)
       \/ TeamPage(c) \/ ReviewPage(c) \/ MediaPage(c) \/ ShareDialog(c) \/ AccessPanel(c)
       \/ SetStatus(c) \/ Watching(c) \/ NotificationBell(c)
       \/ ToggleFavorite(c) \/ TogglePref(c) \/ ToggleKind(c) \/ ToggleSource(c)

Spec == Init /\ [][Next]_vars

-----------------------------------------------------------------------------
(* Properties. *)

\* Once its calls are over, a page shows the records of the server, also when
\* calls failed or, for the media, overlapped, unless two calls of another page
\* overlapped, an answer was lost, a switch of the source was refused or
\* somebody else changed the records; and a manager never overlaps.
PanelCurrent ==
  /\ ~Busy /\ ~overlapped /\ ~lost /\ ~stale => shown = rows
  /\ page \in Managers => ~overlapped

\* A save that fails leaves what was typed in the form, for the record it was
\* meant for, so that it can be sent again.
DraftKept == refused # None => form = refused /\ form.name # None

PanelSound == PanelCurrent /\ DraftKept
=============================================================================
