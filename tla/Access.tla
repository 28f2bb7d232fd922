------------------------------- MODULE Access -------------------------------
(***************************************************************************)
(* Groups, access rules and the level of access they give:                 *)
(* backend/src/access, the roles guard, and the owner's page over them     *)
(* (frontend/app/access/page.tsx, lib/access.ts).                          *)
(*                                                                         *)
(* A request of the page is a sequence of awaits on the server followed by *)
(* an answer that replaces a list of the page; req[r] holds the locals of  *)
(* both ends.  A rule path is known by its length and the files it covers. *)
(***************************************************************************)
EXTENDS Naturals, FiniteSets, SequencesExt

CONSTANTS
  User, File, RulePath,
  Covers,       \* Covers[p]: the files the rule path p applies to
  Length,       \* Length[p]: the length of p as a string
  RoleOf,       \* RoleOf[u]: the role in the workspace
  Group,        \* identities of groups, each used once
  Name,         \* names of groups
  Req,          \* requests of the page in flight at once
  MaxRequests,  \* bound on the requests of the page
  MaxFaults,    \* bound on rejected awaits and process deaths
  None

VARIABLES
  group,    \* group[g]: its document, or Unmade or Gone
  rules,    \* the rules, at most one for a path and a subject
  member,   \* members of the workspace
  page,     \* the lists the page shows
  req,      \* the requests in flight
  started, faults,
  tangled   \* two requests of the page have overlapped (history)

server == <<group, rules, member>>
bounds == <<started, faults, tangled>>
vars   == <<server, page, req, bounds>>

Levels  == {"none", "read", "write"}
Rank(l) == CASE l = "none" -> 0 [] l = "read" -> 1 [] l = "write" -> 2

Unmade == [name |-> None, members |-> {}, v |-> 0]
Gone   == [name |-> None, members |-> {}, v |-> 1]

\* v is the version with which Mongoose guards the replacement of an array.
GroupDoc == {Unmade, Gone} \cup [name: Name, members: SUBSET User, v: Nat]

Subject == {<<"all", None>>} \cup {<<"group", g>> : g \in Group} \cup {<<"user", u>> : u \in User}
Rule    == [path: RulePath, subject: Subject, level: Levels, id: Nat]
RuleOps == {"setRule", "dropRule"}  \* the others answer with the groups

Request ==
  [op: {"none", "create", "rename", "delete", "members", "setRule", "dropRule"},
   pc: {"idle", "find", "rules", "write", "list", "answer", "load", "show"},
   group: Group \cup {None}, name: Name \cup {None}, users: SUBSET User,
   seen: GroupDoc,               \* the group found
   rule: Rule \cup {None},       \* the rule to write or to delete
   gs: [Group -> GroupDoc] \cup {None},  \* lists on their way to the page
   rs: (SUBSET Rule) \cup {None}]

Idle == [op |-> "none", pc |-> "idle", group |-> None, name |-> None, users |-> {},
         seen |-> Unmade, rule |-> None, gs |-> None, rs |-> None]

TypeOK ==
  /\ group \in [Group -> GroupDoc]
  /\ rules \subseteq Rule
  /\ member \subseteq User
  /\ page.groups \in [Group -> GroupDoc] /\ page.rules \subseteq Rule
  /\ req \in [Req -> Request]
  /\ {started, faults} \subseteq Nat /\ tangled \in BOOLEAN

\* A workspace that may have groups already, and no rule yet.
Init ==
  /\ group \in [Group -> {Unmade} \cup [name: Name, members: SUBSET User, v: {0}]]
  /\ \A g, h \in Group : g # h /\ group[g] # Unmade => group[g].name # group[h].name
  /\ rules = {}
  /\ member = User
  /\ page = [groups |-> group, rules |-> {}]
  /\ req = [r \in Req |-> Idle]
  /\ started = 0 /\ faults = 0 /\ tangled = FALSE

Exists(g) == group[g].name # None
Named(n)  == {g \in Group : group[g].name = n}

-----------------------------------------------------------------------------
(* The level of a user for a file (buildChecker). *)

MyGroups(u) == {g \in Group : Exists(g) /\ u \in group[g].members}

Matches(rule, u) ==
  \/ rule.subject = <<"all", None>>
  \/ rule.subject = <<"user", u>>
  \/ rule.subject \in {<<"group", g>> : g \in MyGroups(u)}

Applies(rule, f) == f \in Covers[rule.path]

\* Faulty variant: among rules of one length the last one wins.
BetterLast(best, rule) ==
  IF best = None \/ Length[rule.path] >= Length[best.path] THEN rule ELSE best

\* One turn of the loop over the rules.
Better(best, rule) ==
  IF \/ best = None
     \/ Length[rule.path] > Length[best.path]
     \/ Length[rule.path] = Length[best.path] /\ Rank(rule.level) > Rank(best.level)
  THEN rule ELSE best

Base(u) == IF RoleOf[u] = "viewer" THEN "read" ELSE "write"

\* The level found by a loop over the rules in the order the store lists them.
LevelIn(order, u, f) ==
  LET Turn(best, rule) ==
        IF Matches(rule, u) /\ Applies(rule, f) THEN Better(best, rule) ELSE best
      best == FoldLeft(Turn, None, order)
  IN  CASE RoleOf[u] = "owner" -> "write"
        [] RoleOf[u] # "owner" /\ best = None -> Base(u)
        [] OTHER -> best.level

-----------------------------------------------------------------------------
(* Requests of the page.  The guards and the roles guard let only an owner
   through; the page offers nothing to anyone else. *)

At(r, op, pc) == req[r].op = op /\ req[r].pc = pc
Go(r, pc)     == req' = [req EXCEPT ![r].pc = pc]
Finish(r)     == req' = [req EXCEPT ![r] = Idle]

\* accessApi.*: the request leaves the page.
Begin(r, s) ==
  /\ req[r].pc = "idle"
  /\ started < MaxRequests
  /\ started' = started + 1
  /\ tangled' = (tangled \/ \E o \in Req \ {r} : req[o].pc # "idle")
  /\ req' = [req EXCEPT ![r] = s]
  /\ UNCHANGED <<server, page, faults>>

Shown == {g \in Group : page.groups[g].name # None}

StartCreate(r) == \E n \in Name : Begin(r, [Idle EXCEPT !.op = "create", !.pc = "find", !.name = n])
StartDelete(r) == \E g \in Shown : Begin(r, [Idle EXCEPT !.op = "delete", !.pc = "find", !.group = g])

\* toggleMember: the new list is computed from the list the page shows.
Toggled(shown, u) == IF u \in shown THEN shown \ {u} ELSE shown \cup {u}

StartToggle(r) ==
  \E g \in Shown, u \in member :
    Begin(r, [Idle EXCEPT !.op = "members", !.pc = "find", !.group = g,
                          !.users = Toggled(page.groups[g].members, u)])

\* addRule of the page, save of AccessPanel: a subject is picked from the lists.
Pickable == {<<"all", None>>} \cup {<<"group", g>> : g \in Shown} \cup {<<"user", u>> : u \in member}

StartSetRule(r) ==
  \E p \in RulePath, s \in Pickable, l \in Levels :
    Begin(r, [Idle EXCEPT !.op = "setRule", !.pc = "find",
                          !.rule = [path |-> p, subject |-> s, level |-> l, id |-> started + 1]])

StartDropRule(r) ==
  \E rule \in page.rules : Begin(r, [Idle EXCEPT !.op = "dropRule", !.pc = "write", !.rule = rule])

StartRename(r) ==
  \E g \in Shown, n \in Name :
    Begin(r, [Idle EXCEPT !.op = "rename", !.pc = "write", !.group = g, !.name = n])

-----------------------------------------------------------------------------
(* AccessService, await by await. *)

Refuse(r) == Finish(r) /\ UNCHANGED <<server, page, bounds>>

\* createGroup looks for the name first; the unique index refuses it again.
FindName(r) ==
  /\ At(r, "create", "find")
  /\ IF Named(req[r].name) # {} THEN Refuse(r)
     ELSE Go(r, "write") /\ UNCHANGED <<server, page, bounds>>

CreateGroup(r) ==
  /\ At(r, "create", "write")
  /\ IF Named(req[r].name) # {} THEN Refuse(r)
     ELSE /\ \E g \in {h \in Group : group[h] = Unmade} :
               group' = [group EXCEPT ![g] = [name |-> req[r].name, members |-> {}, v |-> 0]]
          /\ Go(r, "list")
          /\ UNCHANGED <<rules, member, page, bounds>>

RenameGroup(r) ==
  /\ At(r, "rename", "write")
  /\ IF ~Exists(req[r].group) \/ Named(req[r].name) \ {req[r].group} # {} THEN Refuse(r)
     ELSE /\ group' = [group EXCEPT ![req[r].group].name = req[r].name]
          /\ Go(r, "list")
          /\ UNCHANGED <<rules, member, page, bounds>>

\* deleteGroup and setGroupMembers find the group first.
FindGroup(r) ==
  /\ At(r, "delete", "find") \/ At(r, "members", "find")
  /\ IF ~Exists(req[r].group) THEN Refuse(r)
     ELSE /\ req' = [req EXCEPT ![r].seen = group[req[r].group],
                                ![r].users = @ \cap member,
                                ![r].pc = IF req[r].op = "delete" THEN "rules" ELSE "write"]
          /\ UNCHANGED <<server, page, bounds>>

DropGroupRules(r) ==
  /\ At(r, "delete", "rules")
  /\ rules' = {x \in rules : x.subject # <<"group", req[r].group>>}
  /\ Go(r, "write")
  /\ UNCHANGED <<group, member, page, bounds>>

DropGroup(r) ==
  /\ At(r, "delete", "write")
  /\ group' = [group EXCEPT ![req[r].group] = Gone]
  /\ Go(r, "list")
  /\ UNCHANGED <<rules, member, page, bounds>>

\* group.save() of a replaced array asks for the version that was found.
SaveMembers(r) ==
  LET g == req[r].group IN
  /\ At(r, "members", "write")
  /\ IF ~Exists(g) \/ group[g].v # req[r].seen.v THEN Refuse(r)
     ELSE /\ group' = [group EXCEPT ![g].members = req[r].users, ![g].v = @ + 1]
          /\ Go(r, "list")
          /\ UNCHANGED <<rules, member, page, bounds>>

\* upsertRule: the subject must exist when it is looked up.
FindSubject(r) ==
  LET s == req[r].rule.subject IN
  /\ At(r, "setRule", "find")
  /\ IF (s[1] = "group" /\ ~Exists(s[2])) \/ (s[1] = "user" /\ s[2] \notin member) THEN Refuse(r)
     ELSE Go(r, "write") /\ UNCHANGED <<server, page, bounds>>

\* The rule with this path and subject gets the level, or is made.
WriteRule(r) ==
  LET new == req[r].rule
      old == {x \in rules : x.path = new.path /\ x.subject = new.subject}
  IN  /\ At(r, "setRule", "write")
      /\ rules' = IF old = {} THEN rules \cup {new}
                  ELSE (rules \ old) \cup {[x EXCEPT !.level = new.level] : x \in old}
      /\ Go(r, "list")
      /\ UNCHANGED <<group, member, page, bounds>>

DropRule(r) ==
  LET old == {x \in rules : x.id = req[r].rule.id} IN
  /\ At(r, "dropRule", "write")
  /\ IF old = {} THEN Refuse(r)
     ELSE /\ rules' = rules \ old
          /\ Go(r, "list")
          /\ UNCHANGED <<group, member, page, bounds>>

\* Every operation ends by listing what it changed.
ListGroups(r) ==
  /\ req[r].pc = "list" /\ req[r].op \notin RuleOps
  /\ req' = [req EXCEPT ![r].gs = group, ![r].pc = "answer"]
  /\ UNCHANGED <<server, page, bounds>>

ListRules(r) ==
  /\ req[r].pc = "list" /\ req[r].op \in RuleOps
  /\ req' = [req EXCEPT ![r].rs = rules, ![r].pc = "answer"]
  /\ UNCHANGED <<server, page, bounds>>

-----------------------------------------------------------------------------
(* The answer at the page. *)

\* Faulty variant: the rules are not read again after a group was deleted.
TakeAnswerOnly(r) ==
  /\ req[r].pc = "answer"
  /\ page' = IF req[r].op \in RuleOps THEN [page EXCEPT !.rules = req[r].rs] ELSE [page EXCEPT !.groups = req[r].gs]
  /\ Finish(r)
  /\ UNCHANGED <<server, bounds>>

\* A list replaces the one shown; deleteGroup goes on to load all lists again.
TakeAnswer(r) ==
  /\ req[r].pc = "answer"
  /\ page' = IF req[r].op \in RuleOps THEN [page EXCEPT !.rules = req[r].rs] ELSE [page EXCEPT !.groups = req[r].gs]
  /\ req' = [req EXCEPT ![r] = IF @.op = "delete" THEN [Idle EXCEPT !.op = "delete", !.pc = "load"]
                               ELSE Idle]
  /\ UNCHANGED <<server, bounds>>

\* load: the lists are read side by side and shown when all are there.
LoadList(r) ==
  /\ req[r].pc = "load"
  /\ \/ req[r].gs = None /\ req' = [req EXCEPT ![r].gs = group]
     \/ req[r].rs = None /\ req' = [req EXCEPT ![r].rs = rules]
  /\ UNCHANGED <<server, page, bounds>>

ShowLists(r) ==
  /\ req[r].pc = "load" /\ None \notin {req[r].gs, req[r].rs}
  /\ page' = [groups |-> req[r].gs, rules |-> req[r].rs]
  /\ Finish(r)
  /\ UNCHANGED <<server, bounds>>

\* removeMember of a workspace leaves groups and rules alone.
LeaveWorkspace(u) ==
  /\ u \in member
  /\ member' = member \ {u}
  /\ UNCHANGED <<group, rules, page, req, bounds>>

\* An await rejects or the process dies: the page shows a message and its old lists.
Fail(r) ==
  /\ req[r].pc # "idle"
  /\ faults < MaxFaults
  /\ faults' = faults + 1
  /\ Finish(r)
  /\ UNCHANGED <<server, page, started, tangled>>

Start(r)  == StartCreate(r) \/ StartRename(r) \/ StartDelete(r) \/ StartToggle(r) \/ StartSetRule(r) \/ StartDropRule(r)
Serve(r)  == \/ FindName(r) \/ CreateGroup(r) \/ RenameGroup(r) \/ FindGroup(r) \/ DropGroupRules(r) \/ DropGroup(r)
             \/ SaveMembers(r) \/ FindSubject(r) \/ WriteRule(r) \/ DropRule(r) \/ ListGroups(r) \/ ListRules(r)
Render(r) == TakeAnswer(r) \/ LoadList(r) \/ ShowLists(r)

Next ==
  \/ \E r \in Req : Start(r) \/ Serve(r) \/ Render(r) \/ Fail(r)
  \/ \E u \in User : LeaveWorkspace(u)

Spec == Init /\ [][Next]_vars

-----------------------------------------------------------------------------
(* Properties. *)

\* What the schema comment of access rules promises of every file: the most
\* specific rule that matches wins, among rules for one path the highest level,
\* and without a matching rule the role decides; in whatever order the store
\* returns the rules, which the loop of buildChecker must not depend on.
AccessExact ==
  \A u \in User, f \in File :
    LET mine == {x \in rules : Matches(x, u) /\ Applies(x, f)}
        top  == {x \in mine : \A y \in mine : Length[y.path] <= Length[x.path]}
    IN  \A order \in SetToSeqs(rules) :
          LET l == LevelIn(order, u, f) IN
          CASE RoleOf[u] = "owner" -> l = "write"
            [] RoleOf[u] # "owner" /\ mine = {} -> l = Base(u)
            [] OTHER -> /\ \E x \in top : x.level = l
                        /\ \A x \in top : Rank(x.level) <= Rank(l)

\* The deletion of a group takes its rules with it, also when it is interrupted
\* half-way: no rule names a missing group unless two requests overlapped.
RulesHaveGroup ==
  ~tangled => \A x \in rules : x.subject[1] = "group" => Exists(x.subject[2])

\* Once its requests are answered, the page shows the groups and rules the
\* server has, unless requests overlapped or one failed: the deletion of a group
\* changes both lists although its answer carries only one.
PageCurrent ==
  ~tangled /\ faults = 0 /\ (\A r \in Req : req[r].pc = "idle")
    => page = [groups |-> group, rules |-> rules]
=============================================================================
