------------------------------ MODULE Library -------------------------------
(***************************************************************************)
(* The reading side of a workspace: the listings, searches, graphs, health *)
(* reports and exports of DocumentsService, the cache behind graph and     *)
(* health, and the guards of DocumentsController in front of them.         *)
(*                                                                         *)
(* Saves, deletes and moves appear as their writes to the document records *)
(* and their invalidations of the cache; module Documents has the rest.    *)
(* A document is the set of paths it links to; a mutation or a query is a  *)
(* sequence of awaits, mut[r] and ask[q] hold their local variables.       *)
(***************************************************************************)
EXTENDS Naturals, FiniteSets

CONSTANTS
  Path, User,
  Req,          \* mutations in flight at once
  Query,        \* queries in flight at once
  MaxMutations, \* bound on mutations and changes of access ever started
  MaxFaults,    \* bound on rejected awaits and restarts
  None

VARIABLES
  docs,   \* docs[p]: the links of the stored document, or None
  sees,   \* sees[u]: paths on which u has at least read access
  cache,  \* computeCache of the workspace
  mut, ask,
  leaked, \* paths an answer named although its user could not see them (history)
  started, faults

bounds == <<started, faults>>
vars   == <<docs, sees, cache, mut, ask, leaked, bounds>>

Stored(d) == {p \in DOMAIN d : d[p] # None}

-----------------------------------------------------------------------------
(* What is computed from the records. *)

GraphOf(d) ==
  [nodes |-> Stored(d),
   edges |-> {e \in Stored(d) \X Stored(d) : e[2] \in d[e[1]]}]

\* getGraph hides nodes and the edges that touch a hidden node.
GraphFor(g, seen) ==
  [nodes |-> g.nodes \cap seen,
   edges |-> {e \in g.edges : e[1] \in seen /\ e[2] \in seen}]

\* getBrokenLinks: links to missing documents.
BrokenLinks(d) == UNION {{<<p, t>> : t \in d[p] \ Stored(d)} : p \in Stored(d)}

Orphans(d, paths) ==
  {p \in paths : /\ d[p] \cap paths = {}
                 /\ ~\E o \in paths : p \in d[o]}

\* healthReport: counts from one read of the records, links from another.
HealthOf(d, broken) ==
  [documents |-> Stored(d), orphans |-> Orphans(d, Stored(d)), broken |-> broken]

\* applyAccessToHealth drops broken links of hidden sources, and nothing else.
HealthFor(h, seen) == [h EXCEPT !.broken = {b \in h.broken : b[1] \in seen}]

\* list: the badges are computed among the documents the user sees.
ListFor(d, seen) ==
  LET shown == Stored(d) \cap seen IN
  [p \in shown |-> [broken |-> \E b \in BrokenLinks(d) : b[1] = p,
                    orphan |-> p \in Orphans(d, shown)]]

\* Faulty variant: links between exported pages are resolved among all documents.
SiteOpen(d, seen) ==
  LET pages == Stored(d) \cap seen IN
  [pages |-> pages, links |-> UNION {d[p] \cap Stored(d) : p \in pages}]

\* exportZip and exportHtml: a page for a visible document, and a link to a page
\* in place of a link to a document that has one; other links stay as they are.
Site(d, seen) ==
  LET pages == Stored(d) \cap seen IN
  [pages |-> pages, links |-> UNION {d[p] \cap pages : p \in pages}]

-----------------------------------------------------------------------------
Keys    == {"graph", "health"}
NoEntry == [data |-> None, fresh |-> FALSE, clean |-> TRUE]
DocMap  == [Path -> (SUBSET Path) \cup {None}]
Graphs_ == [nodes: SUBSET Path, edges: SUBSET (Path \X Path)]
Reports == [documents: SUBSET Path, orphans: SUBSET Path, broken: SUBSET (Path \X Path)]

\* clean is history: no mutation overlapped the computation of the entry.
Entry == [data: Graphs_ \cup Reports \cup {None}, fresh: BOOLEAN, clean: BOOLEAN]

Mutation ==
  [pc: {"idle", "invalidate", "target", "linkers"},
   target: Path \cup {None}, links: SUBSET Path,   \* the moved document
   from: Path \cup {None}, linkers: SUBSET (Path \X SUBSET Path)]  \* linkers to be rewritten, as found
Resting == [pc |-> "idle", target |-> None, links |-> {}, from |-> None, linkers |-> {}]

Kinds == Keys \cup {"list", "recent", "search", "source", "site", "open"}
Asking ==
  [pc: {"idle", "look", "read", "broken", "store"}, kind: Kinds, user: User \cup {None},
   seen: SUBSET Path, data: Graphs_ \cup Reports \cup {None}, clean: BOOLEAN]
NotAsking == [pc |-> "idle", kind |-> "list", user |-> None, seen |-> {}, data |-> None, clean |-> TRUE]

TypeOK ==
  /\ docs \in DocMap
  /\ sees \in [User -> SUBSET Path]
  /\ cache \in [Keys -> Entry]
  /\ mut \in [Req -> Mutation]
  /\ ask \in [Query -> Asking]
  /\ leaked \subseteq Path
  /\ {started, faults} \subseteq Nat

\* No rule yet: everybody sees everything.
Init ==
  /\ docs \in {[p \in Path |-> None], [p \in Path |-> {}]}
  /\ sees = [u \in User |-> Path]
  /\ cache = [k \in Keys |-> NoEntry]
  /\ mut = [r \in Req |-> Resting]
  /\ ask = [q \in Query |-> NotAsking]
  /\ leaked = {}
  /\ started = 0 /\ faults = 0

-----------------------------------------------------------------------------
(* Mutations: the writes to the records and the invalidations. *)

\* A write to the records while q computes makes what q found doubtful.
Touch == [q \in Query |-> [ask[q] EXCEPT !.clean = FALSE]]

Write(d) == docs' = d /\ ask' = Touch /\ UNCHANGED <<sees, cache, leaked, faults>>

Begin(r) == mut[r].pc = "idle" /\ started < MaxMutations /\ started' = started + 1

\* upsert up to the reconciliation of backlinks; tag changes and link repairs are upserts.
StartSave(r) ==
  /\ Begin(r)
  /\ \E p \in Path, links \in SUBSET Path : Write([docs EXCEPT ![p] = links])
  /\ mut' = [mut EXCEPT ![r].pc = "invalidate"]

StartDelete(r) ==
  /\ Begin(r)
  /\ \E p \in Stored(docs) : Write([docs EXCEPT ![p] = None])
  /\ mut' = [mut EXCEPT ![r].pc = "invalidate"]

\* moveDocument removes the record of the source before it saves the target.
StartMove(r) ==
  /\ Begin(r)
  /\ \E from \in Stored(docs), to \in Path \ Stored(docs) :
       /\ mut' = [mut EXCEPT ![r] = [pc |-> "target", target |-> to, links |-> docs[from], from |-> from,
                                     linkers |-> {<<p, docs[p]>> : p \in {l \in Stored(docs) \ {from} : from \in docs[l]}}]]
       /\ Write([docs EXCEPT ![from] = None])

SaveTarget(r) ==
  /\ mut[r].pc = "target"
  /\ Write([docs EXCEPT ![mut[r].target] = mut[r].links])
  /\ mut' = [mut EXCEPT ![r].pc = "linkers"]
  /\ UNCHANGED started

Drop(c) == [k \in Keys |-> NoEntry]

\* invalidateWorkspace after the save of the target or of a linker, then the
\* next linker that contains a link to the old path, saved from its old content.
SaveLinker(r) ==
  /\ mut[r].pc = "linkers"
  /\ cache' = Drop(cache)
  /\ \E l \in mut[r].linkers :
       /\ docs' = [docs EXCEPT ![l[1]] = (l[2] \ {mut[r].from}) \cup {mut[r].target}]
       /\ mut' = [mut EXCEPT ![r].linkers = @ \ {l}]
  /\ ask' = Touch
  /\ UNCHANGED <<sees, leaked, bounds>>

EndMove(r) ==
  /\ mut[r].pc = "linkers" /\ mut[r].linkers = {}
  /\ cache' = Drop(cache)
  /\ mut' = [mut EXCEPT ![r] = Resting]
  /\ UNCHANGED <<docs, sees, ask, leaked, bounds>>

\* Faulty variant: the cache is left to its time to live.
NoInvalidate(r) ==
  /\ mut[r].pc = "invalidate"
  /\ mut' = [mut EXCEPT ![r] = Resting]
  /\ UNCHANGED <<docs, sees, cache, ask, leaked, bounds>>

Invalidate(r) ==
  /\ mut[r].pc = "invalidate"
  /\ cache' = Drop(cache)
  /\ mut' = [mut EXCEPT ![r] = Resting]
  /\ UNCHANGED <<docs, sees, ask, leaked, bounds>>

\* An await after a write rejects: the invalidation is not reached.
FailMutation(r) ==
  /\ mut[r].pc # "idle"
  /\ faults < MaxFaults
  /\ faults' = faults + 1
  /\ mut' = [mut EXCEPT ![r] = Resting]
  /\ cache' = [k \in Keys |-> [cache[k] EXCEPT !.clean = FALSE]]
  /\ ask' = Touch
  /\ UNCHANGED <<docs, sees, leaked, started>>

\* The process dies: requests and the cache, which is memory, are gone.
Restart ==
  /\ faults < MaxFaults
  /\ faults' = faults + 1
  /\ mut' = [r \in Req |-> Resting]
  /\ ask' = [q \in Query |-> NotAsking]
  /\ cache' = Drop(cache)
  /\ UNCHANGED <<docs, sees, leaked, started>>

-----------------------------------------------------------------------------
(* Queries.  The checker is built before the records are read. *)

Pending == \E r \in Req : mut[r].pc # "idle"

\* checker(): what the access rules let the user read (module Access).
Checker(u) == sees[u]

StartQuery(q) ==
  \E u \in User, k \in Kinds :
    /\ ask[q].pc = "idle"
    /\ ask' = [ask EXCEPT ![q] = [pc |-> IF k \in Keys THEN "look" ELSE "read", kind |-> k, user |-> u,
                                  seen |-> Checker(u), data |-> None, clean |-> TRUE]]
    /\ UNCHANGED <<docs, sees, cache, mut, leaked, bounds>>

Reply(q, named) ==
  /\ leaked' = leaked \cup (named \ ask[q].seen)
  /\ ask' = [ask EXCEPT ![q] = NotAsking]
  /\ UNCHANGED <<docs, sees, mut, bounds>>

\* Paths an answer computed from a cached value names.
NamedBy(q, data) ==
  IF ask[q].kind = "graph" THEN GraphFor(data, ask[q].seen).nodes
  ELSE {b[1] : b \in HealthFor(data, ask[q].seen).broken}

\* cacheGet: an entry answers for CACHE_TTL_MS; otherwise the value is computed.
LookUp(q) ==
  LET e == cache[ask[q].kind] IN
  /\ ask[q].pc = "look"
  /\ IF e.fresh THEN Reply(q, NamedBy(q, e.data)) /\ UNCHANGED cache
     ELSE /\ ask' = [ask EXCEPT ![q].pc = "read", ![q].clean = ~Pending]
          /\ UNCHANGED <<docs, sees, cache, mut, leaked, bounds>>

ReadRecords(q) ==
  /\ ask[q].pc = "read" /\ ask[q].kind \in Keys
  /\ ask' = [ask EXCEPT ![q].data = IF ask[q].kind = "graph" THEN GraphOf(docs) ELSE HealthOf(docs, {}),
                        ![q].pc = IF ask[q].kind = "graph" THEN "store" ELSE "broken"]
  /\ UNCHANGED <<docs, sees, cache, mut, leaked, bounds>>

ReadBroken(q) ==
  /\ ask[q].pc = "broken"
  /\ ask' = [ask EXCEPT ![q].data = [@ EXCEPT !.broken = BrokenLinks(docs)], ![q].pc = "store"]
  /\ UNCHANGED <<docs, sees, cache, mut, leaked, bounds>>

\* cacheSet stores the value for all users, before the access filter.
Store(q) ==
  /\ ask[q].pc = "store"
  /\ cache' = [cache EXCEPT ![ask[q].kind] = [data |-> ask[q].data, fresh |-> TRUE, clean |-> ask[q].clean]]
  /\ Reply(q, NamedBy(q, ask[q].data))

\* Listings read the records once and filter them.
AnswerList(q) ==
  /\ ask[q].pc = "read" /\ ask[q].kind = "list"
  /\ Reply(q, DOMAIN ListFor(docs, ask[q].seen))
  /\ UNCHANGED cache

\* The newest documents: those of them its reader may see.
Recent(d, seen) == {found \cap seen : found \in SUBSET Stored(d)}

\* The feed.
AnswerRecent(q) ==
  /\ ask[q].pc = "read" /\ ask[q].kind = "recent"
  /\ \E found \in Recent(docs, ask[q].seen) : Reply(q, found)
  /\ UNCHANGED cache

\* The documents that match, with a snippet of each.
AnswerSearch(q) ==
  /\ ask[q].pc = "read" /\ ask[q].kind = "search"
  /\ \E found \in SUBSET Stored(docs) : Reply(q, found \cap ask[q].seen)
  /\ UNCHANGED cache

\* The archive of the sources.
AnswerSource(q) ==
  /\ ask[q].pc = "read" /\ ask[q].kind = "source"
  /\ Reply(q, Stored(docs) \cap ask[q].seen)
  /\ UNCHANGED cache

Export(q) ==
  /\ ask[q].pc = "read" /\ ask[q].kind = "site"
  /\ LET s == Site(docs, ask[q].seen) IN Reply(q, s.pages \cup s.links)
  /\ UNCHANGED cache

\* by-path: a hidden document is answered like a missing one.
Open(q) ==
  /\ ask[q].pc = "read" /\ ask[q].kind = "open"
  /\ \E p \in Path : Reply(q, {p} \cap ask[q].seen \cap Stored(docs))
  /\ UNCHANGED cache

Expire(k) ==
  /\ cache[k].fresh
  /\ cache' = [cache EXCEPT ![k] = NoEntry]
  /\ UNCHANGED <<docs, sees, mut, ask, leaked, bounds>>

\* The owner changes rules, groups or roles (module Access).
ChangeAccess(u) ==
  /\ started < MaxMutations
  /\ started' = started + 1
  /\ \E paths \in SUBSET Path : sees' = [sees EXCEPT ![u] = paths]
  /\ UNCHANGED <<docs, cache, mut, ask, leaked, faults>>

Next ==
  \/ \E r \in Req : \/ StartSave(r) \/ StartDelete(r) \/ StartMove(r) \/ SaveTarget(r)
                    \/ SaveLinker(r) \/ EndMove(r) \/ Invalidate(r) \/ FailMutation(r)
  \/ \E q \in Query : \/ StartQuery(q) \/ LookUp(q) \/ ReadRecords(q) \/ ReadBroken(q) \/ Store(q)
                      \/ AnswerList(q) \/ AnswerRecent(q) \/ AnswerSearch(q) \/ AnswerSource(q) \/ Export(q) \/ Open(q)
  \/ \E k \in Keys : Expire(k)
  \/ \E u \in User : ChangeAccess(u)
  \/ Restart

Spec == Init /\ [][Next]_vars

-----------------------------------------------------------------------------
(* Properties. *)

\* What the cache would serve while no mutation is under way is what a fresh
\* computation gives, unless a mutation overlapped the computation or failed
\* before its invalidation: every save, delete and move, and every step of a
\* move, invalidates after its last write.
CacheCurrent ==
  ~Pending => \A k \in Keys :
    cache[k].fresh /\ cache[k].clean =>
      cache[k].data = IF k = "graph" THEN GraphOf(docs) ELSE HealthOf(docs, BrokenLinks(docs))

\* An answer names only documents its user could see when it was asked for,
\* although graph and health are computed once for all users and kept, and
\* exported pages link to one another.
AnswersVisible == leaked = {}
=============================================================================
