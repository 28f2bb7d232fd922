------------------------------ MODULE Services ------------------------------
(***************************************************************************)
(* The services that do not touch each other's records, as one system in   *)
(* which one of them is in focus: the initial state chooses it, and only   *)
(* that service steps.  started, faults and task belong to the service in  *)
(* focus; the variables of Members stay as they begin, those of the others *)
(* None.                                                                   *)
(***************************************************************************)
EXTENDS Members

CONSTANTS
  Viewer, Path,                                               \* Access and Library, Library and others
  File, RulePath, Covers, Length, RoleOf, Group, GroupName,   \* Access
  Query,                                                      \* Library
  Reader, Link,                                               \* Records
  Recipient,                                                  \* Inbox
  Label, Release,                                             \* Versions
  Password,                                                   \* Accounts
  (* Bounds of the parts; MaxFaults is the same for all. *)
  MaxAccessRequests, MaxMutations, MaxMs, MaxChanges, PageSize, MaxEntries, MaxLoads,
  MaxEvents, MaxAttempts, MaxPrefChanges, MaxVersionRequests, MaxAccountRequests

VARIABLES
  focus,
  task,                                               \* requests of all but Members
  group, rules, people_, page, tangled,               \* Access
  docs, sees, cache, mut, ask, leaked,                \* Library
  age, veiled, favorite, watch, reads, review, link, decision, told,          \* Records
  kind, made, log, clock, muted, items, more, filter, fetch, begun, repeated, \* Paging
  pref, inbox, note, job, mails, digest, digests,     \* Inbox
  texts, barred, header, files, snap, crossed, broken,                        \* Versions
  account, workspaces, mailed, issued, key, chosen, uses, overlap, halfMade, stray  \* Accounts

-----------------------------------------------------------------------------
A == INSTANCE Access WITH
       User <- Viewer, Name <- GroupName, MaxRequests <- MaxAccessRequests, member <- people_, req <- task

L == INSTANCE Library WITH User <- Viewer

R == INSTANCE Records WITH User <- Reader, page <- age, hidden <- veiled

P == INSTANCE Paging WITH Page <- PageSize, hidden <- muted, ask <- fetch

I == INSTANCE Inbox WITH User <- Recipient, Note <- Req, MaxChanges <- MaxPrefChanges

V == INSTANCE Versions WITH
       Request <- Req, MaxRequests <- MaxVersionRequests, docs <- texts, hidden <- barred, req <- task

C == INSTANCE Accounts WITH Request <- Req, MaxRequests <- MaxAccountRequests, raced <- overlap, req <- task

ASSUME BoundsAssumption ==
  {MaxAccessRequests, MaxMutations, MaxMs, MaxChanges, PageSize, MaxEntries, MaxLoads, MaxEvents,
   MaxAttempts, MaxPrefChanges, MaxVersionRequests, MaxAccountRequests} \subseteq Nat

\* None is no name of a group and no rule.
ASSUME AccessAssumption == None \notin GroupName /\ None \notin A!Rule

\* The length of a rule path is that of a string.
ASSUME LengthAssumption == Length \in [RulePath -> Nat]

\* None is no cursor.
ASSUME PagingAssumption == None \notin Nat

\* None is no record of an account.
ASSUME AccountAssumption == None \notin C!Account

\* A mail is tried at least once; None is no list of recipients and no call.
ASSUME InboxAssumption ==
  MaxAttempts # 0 /\ None \notin Req /\ \A S \in SUBSET Recipient : S # None

\* None is no version and no header of one; a workspace has finitely many paths.
ASSUME VersionAssumption ==
  /\ None \notin Release /\ None \notin [label: Label, docCount: Nat]
  /\ IsFiniteSet(Path)

-----------------------------------------------------------------------------
memberVars  == <<people, invite, req, ghosts>>
accessVars  == <<group, rules, people_, page, tangled>>
libraryVars == <<docs, sees, cache, mut, ask, leaked>>
recordVars  == <<age, veiled, favorite, watch, reads, review, link, decision, told>>
pagingVars  == <<kind, made, log, clock, muted, items, more, filter, fetch, begun, repeated>>
inboxVars   == <<pref, inbox, note, job, mails, digest, digests>>
versionVars == <<texts, barred, header, files, snap, crossed, broken>>
accountVars == <<account, workspaces, mailed, issued, key, chosen, uses, overlap, halfMade, stray>>

FocusInit ==
  /\ focus \in {"members", "access", "library", "records", "paging", "inbox", "versions", "accounts"}
  /\ Init
  /\ focus \notin {"access", "versions", "accounts"} => task = None
  /\ IF focus = "access" THEN A!Init
     ELSE group = None /\ rules = None /\ people_ = None /\ page = None /\ tangled = None
  /\ IF focus = "library" THEN L!Init
     ELSE docs = None /\ sees = None /\ cache = None /\ mut = None /\ ask = None /\ leaked = None
  /\ IF focus = "records" THEN R!Init
     ELSE /\ age = None /\ veiled = None /\ favorite = None /\ watch = None /\ reads = None
          /\ review = None /\ link = None /\ decision = None /\ told = None
  /\ IF focus = "paging" THEN P!Init
     ELSE /\ kind = None /\ made = None /\ log = None /\ clock = None /\ muted = None /\ items = None
          /\ more = None /\ filter = None /\ fetch = None /\ begun = None /\ repeated = None
  /\ IF focus = "inbox" THEN I!Init
     ELSE /\ pref = None /\ inbox = None /\ note = None /\ job = None /\ mails = None
          /\ digest = None /\ digests = None
  /\ IF focus = "versions" THEN V!Init
     ELSE /\ texts = None /\ barred = None /\ header = None /\ files = None /\ snap = None
          /\ crossed = None /\ broken = None
  /\ IF focus = "accounts" THEN C!Init
     ELSE /\ account = None /\ workspaces = None /\ mailed = None /\ issued = None /\ key = None
          /\ chosen = None /\ uses = None /\ overlap = None /\ halfMade = None /\ stray = None

FocusNext ==
  /\ UNCHANGED focus
  /\ \/ /\ focus = "members" /\ Next
        /\ UNCHANGED <<task, accessVars, libraryVars, recordVars, pagingVars, inboxVars, versionVars, accountVars>>
     \/ /\ focus = "access" /\ A!Next
        /\ UNCHANGED <<memberVars, libraryVars, recordVars, pagingVars, inboxVars, versionVars, accountVars>>
     \/ /\ focus = "library" /\ L!Next
        /\ UNCHANGED <<task, memberVars, accessVars, recordVars, pagingVars, inboxVars, versionVars, accountVars>>
     \/ /\ focus = "records" /\ R!Next
        /\ UNCHANGED <<task, memberVars, accessVars, libraryVars, pagingVars, inboxVars, versionVars, accountVars>>
     \/ /\ focus = "paging" /\ P!Next
        /\ UNCHANGED <<task, memberVars, accessVars, libraryVars, recordVars, inboxVars, versionVars, accountVars>>
     \/ /\ focus = "inbox" /\ I!Next
        /\ UNCHANGED <<task, memberVars, accessVars, libraryVars, recordVars, pagingVars, versionVars, accountVars>>
     \/ /\ focus = "versions" /\ V!Next
        /\ UNCHANGED <<memberVars, accessVars, libraryVars, recordVars, pagingVars, inboxVars, accountVars>>
     \/ /\ focus = "accounts" /\ C!Next
        /\ UNCHANGED <<memberVars, accessVars, libraryVars, recordVars, pagingVars, inboxVars, versionVars>>

focusVars == <<focus, task, vars, accessVars, libraryVars, recordVars, pagingVars, inboxVars,
               versionVars, accountVars>>

FocusSpec == FocusInit /\ [][FocusNext]_focusVars

-----------------------------------------------------------------------------
(* Properties. *)

\* The state of every service has its types.
Types ==
  /\ focus = "access" => A!TypeOK
  /\ focus = "library" => L!TypeOK
  /\ focus = "records" => R!TypeOK
  /\ focus = "paging" => P!TypeOK
  /\ focus = "inbox" => I!TypeOK
  /\ focus = "versions" => V!TypeOK
  /\ focus = "accounts" => C!TypeOK

\* Rules give the level their schema promises, in whatever order they are read,
\* and none is left behind by a deleted group (Access).
AccessSound == focus = "access" => A!AccessExact /\ A!RulesHaveGroup

\* The owner's page shows the groups and rules of the server (Access).
PageCurrent == focus = "access" => A!PageCurrent

\* What the cache serves is what a fresh computation gives (Library).
CacheCurrent == focus = "library" => L!CacheCurrent

\* No answer names a document its user could not see (Library).
AnswersVisible == focus = "library" => L!AnswersVisible

\* Every old visible page is either among the most read or dead (Records).
AnalyticsCover == focus = "records" => R!AnalyticsCover

\* Whoever watches a document is told of the verdict on it (Records).
VerdictTold == [][focus = "records" => R!VerdictStep]_<<decision, told, faults>>

\* A list read page by page shows all that was there, and nothing twice (Paging).
ListComplete == focus = "paging" => P!ListComplete

\* Mails go to those who have the notification, as often as attempted (Inbox).
MailsMatch == focus = "inbox" => I!MailsMatch

\* A version holds what its publication read, and a removed one nothing (Versions).
VersionsWhole == focus = "versions" => V!VersionsWhole

\* One workspace for an account, resets that count once, keys that end (Accounts).
AccountSound == focus = "accounts" => C!AccountSound
=============================================================================
