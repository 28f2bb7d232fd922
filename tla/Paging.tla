------------------------------- MODULE Paging -------------------------------
(***************************************************************************)
(* The lists a page shows bit by bit, newest first, with the time of the   *)
(* last item as the cursor: the audit log, the error log, notifications,   *)
(* the revisions of a document and the assets of the media library         *)
(* (audit.service.ts, error-log.service.ts, listNotifications,             *)
(* listRevisions, listAssets and the pages over them).  A list grows while *)
(* it is read; the error log forgets old entries, assets are deleted, and  *)
(* a list of notifications may be filtered.                                *)
(***************************************************************************)
EXTENDS Naturals, FiniteSets, FiniteSetsExt

CONSTANTS
  Page,        \* items asked for at a time: 50, or 30 notifications
  MaxEntries,  \* bound on the entries ever logged
  MaxLoads,    \* bound on the lists loaded from the start
  MaxFaults,   \* bound on rejected calls
  None

VARIABLES
  kind,     \* which list
  made,     \* entries ever logged
  log,      \* entries by identity, with the millisecond of their creation
  clock,
  hidden,   \* notices about documents the reader lost access to
  items, more, filter,  \* what the page holds
  ask,      \* its request: what was asked, and the answer on its way
  begun,    \* identities in the log when the list was loaded (history)
  repeated, \* an answer brought an item the page had already (history)
  started, faults

vars == <<kind, made, log, clock, hidden, items, more, filter, ask, begun, repeated, started, faults>>

Kinds == {"audit", "errors", "notices", "revisions", "assets"}
Id    == 1..MaxEntries
Entry == [id: Id, at: Nat, read: BOOLEAN]
Quiet == [pc |-> "idle", before |-> None, answer |-> {}]
Ask   == [pc: {"idle", "first", "older", "answered"}, before: Nat \cup {None}, answer: SUBSET Entry]

TypeOK ==
  /\ kind \in Kinds
  /\ made \in Nat /\ log \subseteq Entry /\ clock \in Nat /\ hidden \subseteq Nat
  /\ items \in (SUBSET Entry) \cup {None} /\ more \in BOOLEAN /\ filter \in {"all", "unread"}
  /\ ask \in Ask /\ begun \subseteq Id /\ repeated \in BOOLEAN
  /\ {started, faults} \subseteq Nat

Init ==
  /\ kind \in Kinds
  /\ made = 0 /\ log = {} /\ clock = 0
  /\ hidden \in IF kind = "notices" THEN {{}, {2}} ELSE {{}}
  /\ items = None /\ more = FALSE /\ filter = "all"
  /\ ask = Quiet
  /\ begun = {} /\ repeated = FALSE
  /\ started = 0 /\ faults = 0

-----------------------------------------------------------------------------
(* The log. *)

\* Entries are made in order of time, several perhaps in one millisecond.
Append ==
  \E at \in {clock, clock + 1} :
    /\ made < MaxEntries /\ made' = made + 1
    /\ log' = log \cup {[id |-> made + 1, at |-> at, read |-> FALSE]}
    /\ clock' = at

\* AuditService.log, a notice, a revision or an asset.
Log == kind # "errors" /\ Append /\ UNCHANGED <<kind, hidden, items, more, filter, ask, begun, repeated, started, faults>>

\* AllExceptionsFilter.catch: only failures of the server are recorded, and the
\* page may be loading meanwhile; the record never delays the answer.
Catch(status) ==
  /\ kind = "errors"
  /\ status >= 500 /\ Append
  /\ UNCHANGED <<kind, hidden, items, more, filter, ask, begun, repeated, started, faults>>

\* A write to the log that is rejected is forgotten, and nothing else fails.
LoseEntry ==
  /\ kind \in {"audit", "errors"} /\ faults < MaxFaults /\ faults' = faults + 1
  /\ clock' = clock + 1
  /\ UNCHANGED <<kind, made, log, hidden, items, more, filter, ask, begun, repeated, started>>

\* The TTL index of the error log removes its oldest entry.
Forget ==
  /\ kind = "errors" /\ log # {}
  /\ log' = {x \in log : x.at > Min({y.at : y \in log})}
  /\ UNCHANGED <<kind, made, clock, hidden, items, more, filter, ask, begun, repeated, started, faults>>

DropAsset ==
  /\ kind = "assets"
  /\ \E x \in log : log' = log \ {x}
  /\ UNCHANGED <<kind, made, clock, hidden, items, more, filter, ask, begun, repeated, started, faults>>

\* markNotificationRead (one) and markAllNotificationsRead.
MarkRead(ids) ==
  /\ kind = "notices"
  /\ \E x \in log : x.id \in ids /\ ~x.read
  /\ log' = {[x EXCEPT !.read = @ \/ x.id \in ids] : x \in log}
  /\ UNCHANGED <<kind, made, clock, hidden, items, more, filter, ask, begun, repeated, started, faults>>

-----------------------------------------------------------------------------
(* The page. *)

\* Faulty variant: the cursor takes the last item in again.
MatchingFrom(before) ==
  {x \in log : (before = None \/ x.at <= before) /\ (filter = "unread" => ~x.read)}

\* The entries a query is about.
Matching(before) ==
  {x \in log : (before = None \/ x.at < before) /\ (filter = "unread" => ~x.read)}

\* The newest Page of them; among entries of one millisecond the store chooses.
Newest(s) ==
  {t \in SUBSET s : /\ Cardinality(t) = Min({Page, Cardinality(s)})
                    /\ \A x \in t, y \in s \ t : x.at >= y.at}

\* Hidden notices are dropped from what the limit let through.
Notices(before) == {{x \in t : x.id \notin hidden} : t \in Newest(Matching(before))}

\* One more is read, to compare the last one with, and not returned.
Revisions(before) == Newest(Matching(before))
Assets(before)    == Newest(Matching(before))

Answers(before) ==
  CASE kind = "notices"   -> Notices(before)
    [] kind = "revisions" -> Revisions(before)
    [] kind = "assets"    -> Assets(before)
    [] OTHER              -> Newest(Matching(before))

\* load: on opening the page, after marking all, and on a change of the filter.
Load(f) ==
  /\ ask.pc = "idle" /\ started < MaxLoads /\ started' = started + 1
  /\ f = "unread" => kind = "notices"
  /\ filter' = f /\ items' = None /\ begun' = {} /\ repeated' = FALSE
  /\ ask' = [Quiet EXCEPT !.pc = "first"]
  /\ UNCHANGED <<kind, made, log, clock, hidden, more, faults>>

\* loadMore, behind a button that is there while hasMore.
LoadMore ==
  /\ ask.pc = "idle" /\ more /\ items \notin {None, {}}
  /\ ask' = [Quiet EXCEPT !.pc = "older", !.before = Min({x.at : x \in items})]
  /\ UNCHANGED <<kind, made, log, clock, hidden, items, more, filter, begun, repeated, started, faults>>

Answer ==
  /\ ask.pc \in {"first", "older"}
  /\ \E t \in Answers(ask.before) : ask' = [ask EXCEPT !.pc = "answered", !.answer = t]
  /\ begun' = IF ask.pc = "first" THEN {x.id : x \in Matching(None)} ELSE begun
  /\ UNCHANGED <<kind, made, log, clock, hidden, items, more, filter, repeated, started, faults>>

Arrive ==
  /\ ask.pc = "answered"
  /\ LET had == IF items = None THEN {} ELSE items IN
       /\ items' = had \cup ask.answer
       /\ repeated' = (repeated \/ \E x \in had, y \in ask.answer : x.id = y.id)
  /\ more' = (Cardinality(ask.answer) = Page)
  /\ ask' = Quiet
  /\ UNCHANGED <<kind, made, log, clock, hidden, filter, begun, started, faults>>

\* A rejected first load leaves an empty list; a rejected loadMore the list it found.
Fail ==
  /\ ask.pc # "idle" /\ faults < MaxFaults /\ faults' = faults + 1
  /\ items' = IF ask.before = None THEN {} ELSE items
  /\ more' = IF ask.before = None THEN FALSE ELSE more
  /\ ask' = Quiet
  /\ UNCHANGED <<kind, made, log, clock, hidden, filter, begun, repeated, started>>

Next ==
  \/ Log \/ LoseEntry \/ Forget \/ DropAsset \/ LoadMore \/ Answer \/ Arrive \/ Fail
  \/ \E status \in {404, 500} : Catch(status)
  \/ \E ids \in {{i} : i \in Id} \cup {Id} : MarkRead(ids)
  \/ \E f \in {"all", "unread"} : Load(f)

Spec == Init /\ [][Next]_vars

-----------------------------------------------------------------------------
(* Properties. *)

\* A list read to its end, while the log grows, shows every entry that was there
\* when it was loaded, except entries made in the millisecond of an item (the
\* cursor skips them), notices read since under the unread filter, and lists
\* some of whose notices are hidden: those end where a page came out short.
\* No item is shown twice.
ListComplete ==
  /\ ~repeated
  /\ ask.pc = "idle" /\ items # None /\ ~more /\ faults = 0 /\ hidden = {} =>
       \A x \in log : x.id \in begun /\ ~x.read =>
         \E y \in items : y.at = x.at
=============================================================================
