--------------------------- MODULE ServicesProofs ---------------------------
(***************************************************************************)
(* Proofs about the services, for all sets of users, documents, requests   *)
(* and so on.  Each part gives, for one service, an inductive invariant,   *)
(* one lemma for the initial states, one for the steps, and the theorems.  *)
(***************************************************************************)
EXTENDS Services, SumsProofs

\* Whichever service is in focus stays so, and steps as its own module says.
LEMMA FocusStays ==
  ASSUME [FocusNext]_focusVars
  PROVE  /\ focus' = focus
         /\ focus = "access" => [A!Next]_(A!vars)
         /\ focus = "library" => [L!Next]_(L!vars)
         /\ focus = "records" => [R!Next]_(R!vars)
         /\ focus = "paging" => [P!Next]_(P!vars)
         /\ focus = "inbox" => [I!Next]_(I!vars)
         /\ focus = "versions" => [V!Next]_(V!vars)
         /\ focus = "accounts" => [C!Next]_(C!vars)
<1>1. CASE FocusNext
  BY <1>1 DEF FocusNext
<1>2. CASE UNCHANGED focusVars
  <2>1. UNCHANGED <<focus, task, started, faults>> /\ UNCHANGED accessVars /\ UNCHANGED libraryVars
        /\ UNCHANGED recordVars /\ UNCHANGED pagingVars /\ UNCHANGED inboxVars
        /\ UNCHANGED versionVars /\ UNCHANGED accountVars
    BY <1>2 DEF focusVars, vars, bounds
  <2>2. UNCHANGED A!vars
    BY <2>1 DEF accessVars, A!vars, A!server, A!bounds
  <2>3. UNCHANGED L!vars
    BY <2>1 DEF libraryVars, L!vars, L!bounds
  <2>4. UNCHANGED R!vars /\ UNCHANGED P!vars /\ UNCHANGED I!vars /\ UNCHANGED V!vars
    BY <2>1 DEF recordVars, R!vars, pagingVars, P!vars, inboxVars, I!vars, versionVars, V!vars
  <2>5. UNCHANGED C!vars
    BY <2>1 DEF accountVars, C!vars, C!history
  <2>6. QED
    BY <2>1, <2>2, <2>3, <2>4, <2>5
<1>3. QED
  BY <1>1, <1>2

-----------------------------------------------------------------------------
(* Library: what is cached and answered. *)

\* What a computation of kind k that ends now gives.
Computed(k) == IF k = "graph" THEN L!GraphOf(docs) ELSE L!HealthOf(docs, L!BrokenLinks(docs))

\* The values of a kind.
Values(k) == IF k = "graph" THEN L!Graphs_ ELSE L!Reports

\* What the cache serves, and what a query has found, is of its kind.
LibraryKinds ==
  /\ \A k \in L!Keys : cache[k].fresh => cache[k].data \in Values(k)
  /\ \A q \in Query :
       /\ ask[q].pc = "look" => ask[q].kind \in L!Keys
       /\ ask[q].pc = "broken" => ask[q].kind = "health" /\ ask[q].data \in L!Reports
       /\ ask[q].pc = "store" => ask[q].kind \in L!Keys /\ ask[q].data \in Values(ask[q].kind)

\* What a query has found is still so, unless a mutation has overlapped it.
QueriesCurrent ==
  \A q \in Query : ask[q].clean =>
    /\ ask[q].pc = "broken" => ask[q].data = L!HealthOf(docs, {})
    /\ ask[q].pc = "store" => ask[q].data = Computed(ask[q].kind)

\* A move under way goes somewhere.
MovesHaveTarget == \A r \in Req : mut[r].pc \in {"target", "linkers"} => mut[r].target \in Path

LibraryInv ==
  L!TypeOK /\ MovesHaveTarget /\ LibraryKinds /\ QueriesCurrent /\ L!CacheCurrent /\ L!AnswersVisible

LEMMA GraphType ==
  ASSUME docs \in L!DocMap
  PROVE  L!GraphOf(docs) \in L!Graphs_
<1>1. L!Stored(docs) \subseteq Path
  BY DEF L!DocMap, L!Stored
<1>2. QED
  BY <1>1 DEF L!GraphOf, L!Graphs_

LEMMA HealthType ==
  ASSUME docs \in L!DocMap, NEW broken_ \in SUBSET (Path \X Path)
  PROVE  /\ L!HealthOf(docs, broken_) \in L!Reports
         /\ [L!HealthOf(docs, {}) EXCEPT !.broken = broken_] = L!HealthOf(docs, broken_)
<1>1. L!Stored(docs) \subseteq Path
  BY DEF L!DocMap, L!Stored
<1>2. L!Orphans(docs, L!Stored(docs)) \subseteq Path
  BY <1>1 DEF L!Orphans
<1>3. QED
  BY <1>1, <1>2 DEF L!HealthOf, L!Reports

LEMMA BrokenType ==
  ASSUME docs \in L!DocMap
  PROVE  L!BrokenLinks(docs) \in SUBSET (Path \X Path)
<1>1. ASSUME NEW p \in L!Stored(docs)
      PROVE  p \in Path /\ docs[p] \subseteq Path
  <2>1. p \in Path /\ docs[p] # None
    BY <1>1 DEF L!DocMap, L!Stored
  <2>2. docs[p] \in (SUBSET Path) \cup {None}
    BY <2>1 DEF L!DocMap
  <2>3. QED
    BY <2>1, <2>2
<1>2. QED
  BY <1>1 DEF L!BrokenLinks

LEMMA LibraryInit ==
  ASSUME L!Init
  PROVE  LibraryInv
<1>1. docs \in L!DocMap
  <2>1. docs = [p \in Path |-> None] \/ docs = [p \in Path |-> {}]
    BY DEF L!Init
  <2>2. QED
    BY <2>1 DEF L!DocMap
<1>2. L!NoEntry \in L!Entry /\ ~L!NoEntry.fresh
  BY DEF L!NoEntry, L!Entry
<1>3. L!Resting \in L!Mutation /\ L!NotAsking \in L!Asking
  BY DEF L!Resting, L!NotAsking, L!Mutation, L!Asking, L!Kinds
<1>4. L!TypeOK
  BY <1>1, <1>2, <1>3 DEF L!Init, L!TypeOK
<1>5. LibraryKinds /\ QueriesCurrent
  BY <1>2 DEF LibraryKinds, QueriesCurrent, L!Init, L!NotAsking
<1>6. L!CacheCurrent /\ L!AnswersVisible
  BY <1>2 DEF L!CacheCurrent, L!AnswersVisible, L!Init
<1>7. MovesHaveTarget
  BY DEF L!Init, L!Resting, MovesHaveTarget
<1>8. QED
  BY <1>4, <1>5, <1>6, <1>7 DEF LibraryInv

\* Steps that write records: what was found becomes doubtful, the cache is left.
LEMMA WriteKeeps ==
  ASSUME LibraryInv, NEW d \in L!DocMap, L!Write(d), mut' \in [Req -> L!Mutation], MovesHaveTarget',
         started' \in Nat, L!Pending'
  PROVE  LibraryInv'
<1> USE DEF LibraryInv
<1>1. docs' = d /\ ask' = L!Touch /\ UNCHANGED <<sees, cache, leaked, faults>>
  BY DEF L!Write
<1>2. L!Touch \in [Query -> L!Asking] /\ \A q \in Query : ~L!Touch[q].clean
                 /\ L!Touch[q].pc = ask[q].pc /\ L!Touch[q].kind = ask[q].kind /\ L!Touch[q].data = ask[q].data
  BY DEF L!TypeOK, L!Asking, L!Touch
<1>3. L!TypeOK'
  BY <1>1, <1>2 DEF L!TypeOK
<1>4. LibraryKinds' /\ QueriesCurrent'
  BY <1>1, <1>2 DEF LibraryKinds, QueriesCurrent
<1>5. L!CacheCurrent' /\ L!AnswersVisible'
  BY <1>1 DEF L!CacheCurrent, L!AnswersVisible
<1>6. QED
  BY <1>3, <1>4, <1>5

\* Steps that empty the cache.
LEMMA DropKeeps ==
  ASSUME L!TypeOK, LibraryKinds, cache' = L!Drop(cache)
  PROVE  /\ cache' \in [L!Keys -> L!Entry] /\ L!CacheCurrent'
         /\ \A k \in L!Keys : cache'[k].fresh => cache'[k].data \in Values(k)
BY DEF L!Drop, L!NoEntry, L!Entry, L!CacheCurrent

LEMMA LibraryMutations ==
  ASSUME LibraryInv, NEW r \in Req, L!StartSave(r) \/ L!StartDelete(r) \/ L!StartMove(r) \/ L!SaveTarget(r)
  PROVE  LibraryInv'
<1> USE DEF LibraryInv
<1>1. ASSUME NEW d \in L!DocMap, L!Write(d), NEW m \in L!Mutation, m.pc # "idle",
             m.pc \in {"target", "linkers"} => m.target \in Path,
             mut' = [mut EXCEPT ![r] = m], started' \in Nat
      PROVE  LibraryInv'
  <2>1. mut' \in [Req -> L!Mutation] /\ MovesHaveTarget' /\ L!Pending'
    BY <1>1 DEF L!TypeOK, L!Pending, MovesHaveTarget
  <2>2. QED
    BY <1>1, <2>1, WriteKeeps
<1>2. docs \in L!DocMap /\ mut[r] \in L!Mutation /\ started \in Nat /\ L!Stored(docs) \subseteq Path
  BY DEF L!TypeOK, L!DocMap, L!Stored
<1>3. \A p \in Path, x \in (SUBSET Path) \cup {None} : [docs EXCEPT ![p] = x] \in L!DocMap
  BY <1>2 DEF L!DocMap
<1>4. \A p \in L!Stored(docs) : docs[p] \in SUBSET Path
  BY <1>2 DEF L!Stored, L!DocMap
<1>5. CASE L!StartSave(r)
  <2>1. PICK p \in Path, links \in SUBSET Path : L!Write([docs EXCEPT ![p] = links])
    BY <1>5 DEF L!StartSave
  <2>2. [mut[r] EXCEPT !.pc = "invalidate"] \in L!Mutation /\ [mut[r] EXCEPT !.pc = "invalidate"].pc = "invalidate"
    BY <1>2 DEF L!Mutation
  <2>3. started' \in Nat /\ mut' = [mut EXCEPT ![r] = [mut[r] EXCEPT !.pc = "invalidate"]]
    BY <1>2, <1>5 DEF L!StartSave, L!Begin
  <2>4. QED
    BY <1>1, <1>3, <2>1, <2>2, <2>3
<1>6. CASE L!StartDelete(r)
  <2>1. PICK p \in L!Stored(docs) : L!Write([docs EXCEPT ![p] = None])
    BY <1>6 DEF L!StartDelete
  <2>2. [mut[r] EXCEPT !.pc = "invalidate"] \in L!Mutation /\ [mut[r] EXCEPT !.pc = "invalidate"].pc = "invalidate"
    BY <1>2 DEF L!Mutation
  <2>3. started' \in Nat /\ mut' = [mut EXCEPT ![r] = [mut[r] EXCEPT !.pc = "invalidate"]]
    BY <1>2, <1>6 DEF L!StartDelete, L!Begin
  <2>4. QED
    BY <1>1, <1>2, <1>3, <2>1, <2>2, <2>3
<1>7. CASE L!StartMove(r)
  <2> DEFINE Linkers(from) == {<<p, docs[p]>> : p \in {l \in L!Stored(docs) \ {from} : from \in docs[l]}}
             Moving(from, to) == [pc |-> "target", target |-> to, links |-> docs[from], from |-> from,
                                  linkers |-> Linkers(from)]
  <2>1. PICK from \in L!Stored(docs), to \in Path \ L!Stored(docs) :
          mut' = [mut EXCEPT ![r] = Moving(from, to)] /\ L!Write([docs EXCEPT ![from] = None])
    BY <1>7 DEF L!StartMove
  <2>2. Linkers(from) \in SUBSET (Path \X SUBSET Path)
    BY <1>2, <1>4
  <2>3. Moving(from, to) \in L!Mutation /\ Moving(from, to).pc # "idle" /\ Moving(from, to).target \in Path
    BY <1>2, <1>4, <2>2 DEF L!Mutation
  <2>4. started' \in Nat
    BY <1>2, <1>7 DEF L!StartMove, L!Begin
  <2>5. QED
    BY <1>1, <1>2, <1>3, <2>1, <2>3, <2>4
<1>8. CASE L!SaveTarget(r)
  <2>1. /\ L!Write([docs EXCEPT ![mut[r].target] = mut[r].links]) /\ UNCHANGED started
        /\ mut' = [mut EXCEPT ![r] = [mut[r] EXCEPT !.pc = "linkers"]]
    BY <1>8 DEF L!SaveTarget
  <2>2. [mut[r] EXCEPT !.pc = "linkers"] \in L!Mutation /\ [mut[r] EXCEPT !.pc = "linkers"].pc # "idle"
        /\ [mut[r] EXCEPT !.pc = "linkers"].target \in Path
    BY <1>2, <1>8 DEF L!Mutation, L!SaveTarget, MovesHaveTarget
  <2>3. [docs EXCEPT ![mut[r].target] = mut[r].links] \in L!DocMap
    BY <1>2 DEF L!DocMap, L!Mutation
  <2>4. QED
    BY <1>1, <1>2, <2>1, <2>2, <2>3
<1>9. QED
  BY <1>5, <1>6, <1>7, <1>8

LEMMA LibraryInvalidations ==
  ASSUME LibraryInv, NEW r \in Req, L!SaveLinker(r) \/ L!EndMove(r) \/ L!Invalidate(r)
  PROVE  LibraryInv'
<1> USE DEF LibraryInv
<1>1. cache' = L!Drop(cache) /\ UNCHANGED <<sees, leaked, started, faults>>
  BY DEF L!SaveLinker, L!EndMove, L!Invalidate, L!bounds
<1>2. /\ cache' \in [L!Keys -> L!Entry] /\ L!CacheCurrent'
      /\ \A k \in L!Keys : cache'[k].fresh => cache'[k].data \in Values(k)
  BY <1>1, DropKeeps
<1>3. CASE L!SaveLinker(r)
  <2>1. PICK l \in mut[r].linkers :
          /\ docs' = [docs EXCEPT ![l[1]] = (l[2] \ {mut[r].from}) \cup {mut[r].target}]
          /\ mut' = [mut EXCEPT ![r].linkers = @ \ {l}]
    BY <1>3 DEF L!SaveLinker
  <2>2. ask' = L!Touch
    BY <1>3 DEF L!SaveLinker
  <2>3. mut[r] \in L!Mutation /\ l \in Path \X SUBSET Path /\ mut[r].target \in Path
    BY <1>3, <2>1 DEF L!TypeOK, L!Mutation, L!SaveLinker, MovesHaveTarget
  <2>4. mut' \in [Req -> L!Mutation] /\ MovesHaveTarget'
    BY <2>1, <2>3 DEF L!TypeOK, L!Mutation, MovesHaveTarget
  <2>5. docs' \in L!DocMap
    BY <2>1, <2>3 DEF L!TypeOK, L!DocMap
  <2>6. L!Touch \in [Query -> L!Asking] /\ \A q \in Query : ~L!Touch[q].clean
                 /\ L!Touch[q].pc = ask[q].pc /\ L!Touch[q].kind = ask[q].kind /\ L!Touch[q].data = ask[q].data
    BY DEF L!TypeOK, L!Asking, L!Touch
  <2>7. L!TypeOK'
    BY <1>1, <1>2, <2>2, <2>4, <2>5, <2>6 DEF L!TypeOK
  <2>8. LibraryKinds' /\ QueriesCurrent'
    BY <1>2, <2>2, <2>6 DEF LibraryKinds, QueriesCurrent
  <2>9. QED
    BY <1>1, <1>2, <2>4, <2>7, <2>8 DEF L!AnswersVisible
<1>4. CASE L!EndMove(r) \/ L!Invalidate(r)
  <2>1. mut' = [mut EXCEPT ![r] = L!Resting] /\ UNCHANGED <<docs, ask>>
    BY <1>4 DEF L!EndMove, L!Invalidate
  <2>2. L!Resting \in L!Mutation /\ MovesHaveTarget'
    BY <2>1 DEF L!Resting, L!Mutation, L!TypeOK, MovesHaveTarget
  <2>3. L!TypeOK'
    BY <1>1, <1>2, <2>1, <2>2 DEF L!TypeOK
  <2>4. LibraryKinds' /\ QueriesCurrent'
    BY <1>2, <2>1 DEF LibraryKinds, QueriesCurrent, Computed
  <2>5. QED
    BY <1>1, <1>2, <2>2, <2>3, <2>4 DEF L!AnswersVisible
<1>5. QED
  BY <1>3, <1>4

LEMMA LibraryInterruptions ==
  ASSUME LibraryInv, (\E r \in Req : L!FailMutation(r)) \/ L!Restart
  PROVE  LibraryInv'
<1> USE DEF LibraryInv
<1>1. CASE L!Restart
  <2>1. /\ cache' = L!Drop(cache) /\ UNCHANGED <<docs, sees, leaked, started>> /\ faults' = faults + 1
        /\ mut' = [r \in Req |-> L!Resting] /\ ask' = [q \in Query |-> L!NotAsking]
    BY <1>1 DEF L!Restart
  <2>2. /\ cache' \in [L!Keys -> L!Entry] /\ L!CacheCurrent'
        /\ \A k \in L!Keys : cache'[k].fresh => cache'[k].data \in Values(k)
    BY <2>1, DropKeeps
  <2>3. L!Resting \in L!Mutation /\ L!NotAsking \in L!Asking
    BY DEF L!Resting, L!NotAsking, L!Mutation, L!Asking, L!Kinds
  <2>4. L!TypeOK'
    BY <2>1, <2>2, <2>3 DEF L!TypeOK
  <2>5. LibraryKinds' /\ QueriesCurrent' /\ MovesHaveTarget'
    BY <2>1, <2>2 DEF LibraryKinds, QueriesCurrent, MovesHaveTarget, L!NotAsking, L!Resting
  <2>6. QED
    BY <2>1, <2>2, <2>4, <2>5 DEF L!AnswersVisible
<1>2. CASE \E r \in Req : L!FailMutation(r)
  <2>1. PICK r \in Req : L!FailMutation(r)
    BY <1>2
  <2>2. /\ mut' = [mut EXCEPT ![r] = L!Resting] /\ ask' = L!Touch /\ faults' = faults + 1
        /\ cache' = [k \in L!Keys |-> [cache[k] EXCEPT !.clean = FALSE]]
        /\ UNCHANGED <<docs, sees, leaked, started>>
    BY <2>1 DEF L!FailMutation
  <2>3. L!Resting \in L!Mutation /\ MovesHaveTarget'
    BY <2>2 DEF L!Resting, L!Mutation, L!TypeOK, MovesHaveTarget
  <2>4. L!Touch \in [Query -> L!Asking] /\ \A q \in Query : ~L!Touch[q].clean
                 /\ L!Touch[q].pc = ask[q].pc /\ L!Touch[q].kind = ask[q].kind /\ L!Touch[q].data = ask[q].data
    BY DEF L!TypeOK, L!Asking, L!Touch
  <2>5. cache' \in [L!Keys -> L!Entry] /\ \A k \in L!Keys : ~cache'[k].clean
                 /\ cache'[k].fresh = cache[k].fresh /\ cache'[k].data = cache[k].data
    BY <2>2 DEF L!TypeOK, L!Entry
  <2>6. L!TypeOK'
    BY <2>2, <2>3, <2>4, <2>5 DEF L!TypeOK
  <2>7. LibraryKinds' /\ QueriesCurrent' /\ L!CacheCurrent'
    BY <2>2, <2>4, <2>5 DEF LibraryKinds, QueriesCurrent, L!CacheCurrent
  <2>8. QED
    BY <2>2, <2>3, <2>6, <2>7 DEF L!AnswersVisible
<1>3. QED
  BY <1>1, <1>2

\* Queries and the rest leave the records alone.
LEMMA AskKeeps ==
  ASSUME LibraryInv, UNCHANGED <<docs, sees, mut, started, faults>>,
         NEW q \in Query, NEW a \in L!Asking, ask' = [ask EXCEPT ![q] = a],
         a.pc = "look" => a.kind \in L!Keys,
         a.pc = "broken" => /\ a.kind = "health" /\ a.data \in L!Reports
                            /\ a.clean => a.data = L!HealthOf(docs, {}),
         a.pc = "store" => /\ a.kind \in L!Keys /\ a.data \in Values(a.kind)
                           /\ a.clean => a.data = Computed(a.kind),
         UNCHANGED leaked, UNCHANGED cache
  PROVE  LibraryInv'
<1> USE DEF LibraryInv
<1>1. L!TypeOK'
  BY DEF L!TypeOK
<1>2. LibraryKinds'
  BY DEF LibraryKinds, L!TypeOK, Values
<1>3. QueriesCurrent'
  BY DEF QueriesCurrent, L!TypeOK, Computed
<1>4. L!CacheCurrent' /\ MovesHaveTarget' /\ L!AnswersVisible'
  BY DEF L!CacheCurrent, L!Pending, MovesHaveTarget, L!AnswersVisible
<1>5. QED
  BY <1>1, <1>2, <1>3, <1>4

\* An answer that names visible documents only.
LEMMA ReplyKeeps ==
  ASSUME LibraryInv, NEW q \in Query, NEW named, named \subseteq ask[q].seen, L!Reply(q, named),
         \/ UNCHANGED cache
         \/ \E k \in L!Keys, e \in L!Entry :
              /\ cache' = [cache EXCEPT ![k] = e] /\ e.data \in Values(k)
              /\ e.clean => e.data = Computed(k)
  PROVE  LibraryInv'
<1> USE DEF LibraryInv
<1>1. leaked' = leaked /\ ask' = [ask EXCEPT ![q] = L!NotAsking] /\ UNCHANGED <<docs, sees, mut, started, faults>>
  BY DEF L!Reply, L!bounds, L!AnswersVisible
<1>2. L!NotAsking \in L!Asking
  BY DEF L!NotAsking, L!Asking, L!Kinds
<1>3. cache' \in [L!Keys -> L!Entry]
  BY DEF L!TypeOK
<1>4. L!TypeOK'
  BY <1>1, <1>2, <1>3 DEF L!TypeOK
<1>5. LibraryKinds'
  BY <1>1 DEF LibraryKinds, L!TypeOK, Values, L!NotAsking
<1>6. QueriesCurrent'
  BY <1>1 DEF QueriesCurrent, L!TypeOK, Computed, L!NotAsking
<1>7. L!CacheCurrent'
  BY <1>1 DEF L!CacheCurrent, L!Pending, Computed, L!TypeOK
<1>8. MovesHaveTarget' /\ L!AnswersVisible'
  BY <1>1 DEF MovesHaveTarget, L!AnswersVisible
<1>9. QED
  BY <1>4, <1>5, <1>6, <1>7, <1>8

\* What is named by a cached value is cut to what the user may see.
LEMMA NamedVisible ==
  ASSUME NEW q \in Query, ask[q].kind \in L!Keys, NEW data \in Values(ask[q].kind)
  PROVE  L!NamedBy(q, data) \subseteq ask[q].seen
<1>1. CASE ask[q].kind = "graph"
  BY <1>1 DEF L!NamedBy, L!GraphFor
<1>2. CASE ask[q].kind # "graph"
  <2>1. data \in L!Reports
    BY <1>2 DEF Values
  <2>2. L!HealthFor(data, ask[q].seen).broken = {b \in data.broken : b[1] \in ask[q].seen}
    BY <2>1 DEF L!HealthFor, L!Reports
  <2>3. QED
    BY <1>2, <2>2 DEF L!NamedBy
<1>3. QED
  BY <1>1, <1>2

LEMMA LibraryComputations ==
  ASSUME LibraryInv, NEW q \in Query,
         L!StartQuery(q) \/ L!LookUp(q) \/ L!ReadRecords(q) \/ L!ReadBroken(q) \/ L!Store(q)
  PROVE  LibraryInv'
<1> USE DEF LibraryInv
<1>1. ask[q] \in L!Asking /\ docs \in L!DocMap
  BY DEF L!TypeOK
<1>2. CASE L!StartQuery(q)
  <2> DEFINE A0(u, k) == [pc |-> IF k \in L!Keys THEN "look" ELSE "read", kind |-> k, user |-> u,
                          seen |-> L!Checker(u), data |-> None, clean |-> TRUE]
  <2>1. PICK u \in Viewer, k \in L!Kinds : ask' = [ask EXCEPT ![q] = A0(u, k)]
    BY <1>2 DEF L!StartQuery
  <2>2. A0(u, k) \in L!Asking
    BY DEF L!Asking, L!Checker, L!TypeOK
  <2>3. UNCHANGED <<docs, sees, mut, started, faults, cache, leaked>>
    BY <1>2 DEF L!StartQuery, L!bounds
  <2>4. A0(u, k).pc \in {"look", "read"} /\ (A0(u, k).pc = "look" => A0(u, k).kind \in L!Keys)
    OBVIOUS
  <2>5. QED
    BY <2>1, <2>2, <2>3, <2>4, AskKeeps
<1>3. CASE L!LookUp(q)
  <2>1. ask[q].pc = "look" /\ ask[q].kind \in L!Keys
    BY <1>3 DEF L!LookUp, LibraryKinds
  <2>2. CASE cache[ask[q].kind].fresh
    <3>1. L!Reply(q, L!NamedBy(q, cache[ask[q].kind].data)) /\ UNCHANGED cache
      BY <1>3, <2>2 DEF L!LookUp
    <3>2. cache[ask[q].kind].data \in Values(ask[q].kind)
      BY <2>1, <2>2 DEF LibraryKinds
    <3>3. QED
      BY <2>1, <3>1, <3>2, NamedVisible, ReplyKeeps
  <2>3. CASE ~cache[ask[q].kind].fresh
    <3> DEFINE a == [ask[q] EXCEPT !.pc = "read", !.clean = ~L!Pending]
    <3>1. ask' = [ask EXCEPT ![q] = a] /\ UNCHANGED <<docs, sees, mut, started, faults, cache, leaked>>
      BY <1>3, <2>3 DEF L!LookUp, L!bounds
    <3>2. L!Pending \in BOOLEAN
      BY DEF L!Pending
    <3>3. a \in L!Asking /\ a.pc = "read"
      BY <1>1, <3>2 DEF L!Asking
    <3>4. QED
      BY <3>1, <3>3, AskKeeps
  <2>4. QED
    BY <2>2, <2>3
<1>4. CASE L!ReadRecords(q)
  <2> DEFINE d == IF ask[q].kind = "graph" THEN L!GraphOf(docs) ELSE L!HealthOf(docs, {})
             p == IF ask[q].kind = "graph" THEN "store" ELSE "broken"
             a == [ask[q] EXCEPT !.data = d, !.pc = p]
  <2>1. ask[q].kind \in {"graph", "health"} /\ UNCHANGED <<docs, sees, mut, started, faults, cache, leaked>>
    BY <1>4 DEF L!ReadRecords, L!bounds, L!Keys
  <2>2. ask' = [ask EXCEPT ![q] = a]
    BY <1>4 DEF L!ReadRecords
  <2>3. d \in L!Graphs_ \cup L!Reports /\ (ask[q].kind = "graph" => d \in L!Graphs_)
        /\ (ask[q].kind = "health" => d \in L!Reports)
    BY <1>1, GraphType, HealthType
  <2>4. a \in L!Asking /\ a.data = d /\ a.pc = p /\ a.kind = ask[q].kind
    BY <1>1, <2>3 DEF L!Asking
  <2>5. p = "store" => a.kind \in L!Keys /\ a.data \in Values(a.kind) /\ a.data = Computed(a.kind)
    BY <2>3, <2>4 DEF L!Keys, Values, Computed
  <2>6. p = "broken" => a.kind = "health" /\ a.data \in L!Reports /\ a.data = L!HealthOf(docs, {})
    BY <2>1, <2>3, <2>4
  <2>7. p \in {"store", "broken"}
    OBVIOUS
  <2> HIDE DEF a, d, p
  <2>8. QED
    BY <2>1, <2>2, <2>4, <2>5, <2>6, <2>7, AskKeeps
<1>5. CASE L!ReadBroken(q)
  <2> DEFINE d == [ask[q].data EXCEPT !.broken = L!BrokenLinks(docs)]
             a == [ask[q] EXCEPT !.data = d, !.pc = "store"]
  <2>1. ask[q].kind = "health" /\ ask[q].data \in L!Reports /\ UNCHANGED <<docs, sees, mut, started, faults, cache, leaked>>
    BY <1>5 DEF L!ReadBroken, L!bounds, LibraryKinds
  <2>2. ask' = [ask EXCEPT ![q] = a]
    BY <1>5 DEF L!ReadBroken
  <2>3. d \in L!Reports
    BY <1>1, <2>1, BrokenType DEF L!Reports
  <2>4. a \in L!Asking /\ a.data = d /\ a.pc = "store" /\ a.kind = ask[q].kind /\ a.clean = ask[q].clean
    BY <1>1, <2>3 DEF L!Asking
  <2>5. ask[q].clean => d = L!HealthOf(docs, L!BrokenLinks(docs))
    <3>1. ask[q].clean => ask[q].data = L!HealthOf(docs, {})
      BY <1>5 DEF L!ReadBroken, QueriesCurrent
    <3>2. QED
      BY <1>1, <3>1, HealthType, BrokenType
  <2> HIDE DEF a, d
  <2>6. a.kind \in L!Keys /\ a.data \in Values(a.kind) /\ (a.clean => a.data = Computed(a.kind))
    BY <2>1, <2>3, <2>4, <2>5 DEF L!Keys, Values, Computed
  <2>7. QED
    BY <2>1, <2>2, <2>4, <2>6, AskKeeps
<1>6. CASE L!Store(q)
  <2> DEFINE e == [data |-> ask[q].data, fresh |-> TRUE, clean |-> ask[q].clean]
  <2>1. ask[q].kind \in L!Keys /\ ask[q].data \in Values(ask[q].kind) /\ (ask[q].clean => ask[q].data = Computed(ask[q].kind))
    BY <1>6 DEF L!Store, LibraryKinds, QueriesCurrent
  <2>2. cache' = [cache EXCEPT ![ask[q].kind] = e] /\ L!Reply(q, L!NamedBy(q, ask[q].data))
    BY <1>6 DEF L!Store
  <2>3. e \in L!Entry /\ e.data = ask[q].data /\ e.clean = ask[q].clean
    BY <1>1, <2>1 DEF L!Entry, L!Asking
  <2> HIDE DEF e
  <2>4. QED
    BY <2>1, <2>2, <2>3, NamedVisible, ReplyKeeps
<1>7. QED
  BY <1>2, <1>3, <1>4, <1>5, <1>6

LEMMA LibraryAnswers ==
  ASSUME LibraryInv, NEW q \in Query,
         \/ L!AnswerList(q) \/ L!AnswerRecent(q) \/ L!AnswerSearch(q)
         \/ L!AnswerSource(q) \/ L!Export(q) \/ L!Open(q)
  PROVE  LibraryInv'
<1>1. UNCHANGED cache
  BY DEF L!AnswerList, L!AnswerRecent, L!AnswerSearch, L!AnswerSource, L!Export, L!Open
<1>2. ASSUME NEW named, named \subseteq ask[q].seen, L!Reply(q, named)
      PROVE  LibraryInv'
  BY <1>1, <1>2, ReplyKeeps
<1>3. CASE L!AnswerList(q)
  BY <1>2, <1>3 DEF L!AnswerList, L!ListFor
<1>4. CASE L!AnswerRecent(q)
  BY <1>2, <1>4 DEF L!AnswerRecent, L!Recent
<1>5. CASE L!AnswerSearch(q)
  BY <1>2, <1>5 DEF L!AnswerSearch
<1>6. CASE L!AnswerSource(q)
  BY <1>2, <1>6 DEF L!AnswerSource
<1>7. CASE L!Export(q)
  <2> DEFINE s == L!Site(docs, ask[q].seen)
  <2>1. s.pages \subseteq ask[q].seen /\ s.links \subseteq s.pages
    BY DEF L!Site
  <2>2. L!Reply(q, s.pages \cup s.links)
    BY <1>7 DEF L!Export
  <2> HIDE DEF s
  <2>3. QED
    BY <1>2, <2>1, <2>2
<1>8. CASE L!Open(q)
  BY <1>2, <1>8 DEF L!Open
<1>9. QED
  BY <1>3, <1>4, <1>5, <1>6, <1>7, <1>8

LEMMA LibraryStep ==
  ASSUME LibraryInv, [L!Next]_(L!vars)
  PROVE  LibraryInv'
<1> USE DEF LibraryInv
<1>1. ASSUME NEW k \in L!Keys, L!Expire(k)
      PROVE  LibraryInv'
  <2>1. cache' = [cache EXCEPT ![k] = L!NoEntry] /\ UNCHANGED <<docs, sees, mut, ask, leaked, started, faults>>
    BY <1>1 DEF L!Expire, L!bounds
  <2>2. L!NoEntry \in L!Entry /\ ~L!NoEntry.fresh
    BY DEF L!NoEntry, L!Entry
  <2>3. L!TypeOK'
    BY <2>1, <2>2 DEF L!TypeOK
  <2>4. LibraryKinds' /\ QueriesCurrent' /\ L!CacheCurrent'
    BY <2>1, <2>2 DEF LibraryKinds, QueriesCurrent, Computed, L!CacheCurrent, L!Pending, L!TypeOK
  <2>5. QED
    BY <2>1, <2>3, <2>4 DEF MovesHaveTarget, L!AnswersVisible
<1>2. ASSUME NEW u \in Viewer, L!ChangeAccess(u)
      PROVE  LibraryInv'
  <2>1. PICK paths \in SUBSET Path : sees' = [sees EXCEPT ![u] = paths]
    BY <1>2 DEF L!ChangeAccess
  <2>2. UNCHANGED <<docs, cache, mut, ask, leaked, faults>> /\ started' = started + 1
    BY <1>2 DEF L!ChangeAccess
  <2>3. L!TypeOK'
    BY <2>1, <2>2 DEF L!TypeOK
  <2>4. LibraryKinds' /\ QueriesCurrent' /\ L!CacheCurrent'
    BY <2>2 DEF LibraryKinds, QueriesCurrent, Computed, L!CacheCurrent, L!Pending
  <2>5. QED
    BY <2>2, <2>3, <2>4 DEF MovesHaveTarget, L!AnswersVisible
<1>3. CASE UNCHANGED L!vars
  <2>1. UNCHANGED <<docs, sees, cache, mut, ask, leaked, started, faults>>
    BY <1>3 DEF L!vars, L!bounds
  <2>2. L!TypeOK'
    BY <2>1 DEF L!TypeOK
  <2>3. LibraryKinds' /\ QueriesCurrent' /\ L!CacheCurrent'
    BY <2>1 DEF LibraryKinds, QueriesCurrent, Computed, L!CacheCurrent, L!Pending
  <2>4. QED
    BY <2>1, <2>2, <2>3 DEF MovesHaveTarget, L!AnswersVisible
<1>4. QED
  BY <1>1, <1>2, <1>3, LibraryMutations, LibraryInvalidations, LibraryInterruptions, LibraryComputations,
     LibraryAnswers DEF L!Next

LibrarySafe == focus = "library" => LibraryInv

LEMMA LibraryAlways == FocusSpec => []LibrarySafe
<1>1. FocusInit => LibrarySafe
  BY LibraryInit DEF FocusInit, LibrarySafe
<1>2. LibrarySafe /\ [FocusNext]_focusVars => LibrarySafe'
  BY LibraryStep, FocusStays DEF LibrarySafe
<1>3. QED
  BY <1>1, <1>2, PTL DEF FocusSpec

\* What the compute cache serves while no mutation is under way is what a fresh
\* computation gives, unless a mutation overlapped its own or failed: every save,
\* delete and move of documents.service.ts invalidates after its last write.
THEOREM CacheSafe == FocusSpec => []CacheCurrent
<1>1. LibrarySafe => CacheCurrent
  BY DEF LibrarySafe, LibraryInv, CacheCurrent
<1>2. QED
  BY <1>1, LibraryAlways, PTL

\* No listing, search, graph, health report or export of documents.service.ts
\* names a document its user could not see when asking for it.
THEOREM AnswersSafe == FocusSpec => []AnswersVisible
<1>1. LibrarySafe => AnswersVisible
  BY DEF LibrarySafe, LibraryInv, AnswersVisible
<1>2. QED
  BY <1>1, LibraryAlways, PTL

-----------------------------------------------------------------------------
(* Accounts: one workspace for an account, tokens that count once. *)

Waiting == {r \in Req : task[r].at = "token"}

\* Tokens are issued by requests that were started.
Counted == IsFiniteSet(Waiting) /\ issued + Cardinality(Waiting) <= started /\ started <= MaxAccountRequests

\* What a request has found when it is at an await.
Found ==
  \A r \in Req :
    /\ task[r].at = "workspace" => account # None /\ workspaces = 0 /\ ~halfMade
    /\ task[r].at \in {"attach", "token", "mail", "password"} => account # None
    /\ task[r].at = "attach" => task[r].by \in C!Provider
    /\ task[r].at = "touch" => task[r].by = "key"
    /\ task[r].at = "look" /\ task[r].by = "late" => key = "revoked"
    /\ task[r].at \in {"mail", "password"} => task[r].token \in C!Token
    /\ task[r].at = "password" => task[r].token <= issued

\* Only the request that made the account goes on to its workspace.
OneMaker ==
  /\ \A r, q \in Req : task[r].at = "workspace" /\ task[q].at = "workspace" => r = q
  /\ halfMade => account # None

\* The token that is stored, and one that is about to be used, has not been used.
Unused ==
  /\ account # None => account.token <= issued /\ (account.token # 0 => uses[account.token] = 0)
  /\ \A t \in C!Token : t > issued => uses[t] = 0
  /\ ~overlap => \A r, q \in Req : task[r].at = "password" /\ task[q].at = "password" =>
                    r = q /\ uses[task[r].token] = 0

AccountInv == C!TypeOK /\ Counted /\ Found /\ OneMaker /\ Unused /\ C!AccountSound

LEMMA AccountInit ==
  ASSUME C!Init
  PROVE  AccountInv
<1> USE DEF C!Init
<1>1. C!Idle \in C!AccountRequest /\ C!Idle.at = "idle"
  BY DEF C!Idle, C!AccountRequest
<1>2. C!TypeOK
  <2>1. 0 \in 0..MaxAccountRequests
    BY BoundsAssumption
  <2>2. {overlap, halfMade, stray} \subseteq BOOLEAN
    <3>1. overlap = FALSE /\ halfMade = FALSE /\ stray = FALSE
      OBVIOUS
    <3>2. QED
      BY <3>1, Zenon
  <2>3. task \in [Req -> C!AccountRequest] /\ uses \in [C!Token -> Nat]
    BY <1>1
  <2>4. account \in C!Account \cup {None} /\ chosen \in Password \cup {None} /\ mailed \subseteq C!Token
    OBVIOUS
  <2>5. QED
    BY <2>1, <2>2, <2>3, <2>4 DEF C!TypeOK
<1>3. Waiting = {}
  BY <1>1 DEF Waiting
<1>4. Counted
  BY <1>3, FS_EmptySet, BoundsAssumption DEF Counted
<1>5. Found /\ OneMaker /\ Unused
  BY <1>1 DEF Found, OneMaker, Unused
<1>6. C!AccountSound
  BY <1>1 DEF C!AccountSound, C!OneWorkspace, C!ResetOnce, C!KeysHonoured
<1>7. QED
  BY <1>2, <1>4, <1>5, <1>6 DEF AccountInv

\* Nobody begins to wait for a token.
LEMMA CountedKept ==
  ASSUME Counted, C!TypeOK, UNCHANGED issued, Waiting' \subseteq Waiting, started' \in Nat,
         started <= started', started' <= MaxAccountRequests
  PROVE  Counted'
<1>1. IsFiniteSet(Waiting') /\ Cardinality(Waiting') <= Cardinality(Waiting)
  BY FS_Subset DEF Counted
<1>2. Cardinality(Waiting) \in Nat /\ Cardinality(Waiting') \in Nat /\ started \in Nat /\ issued \in Nat
  BY <1>1, FS_CardinalityType DEF Counted, C!TypeOK
<1>3. QED
  BY <1>1, <1>2, BoundsAssumption DEF Counted

\* A request that starts.
LEMMA StartKeeps ==
  ASSUME AccountInv, NEW r \in Req, NEW x \in C!AccountRequest, C!Start(r, x),
         x.at \in {"idle", "look"} \/ (x.at = "token" /\ account # None),
         x.at = "look" /\ x.by = "late" => key = "revoked",
         UNCHANGED <<account, workspaces, mailed, issued, key, chosen, uses, overlap, halfMade, stray, faults>>
  PROVE  AccountInv'
<1> USE DEF AccountInv
<1>1. task[r].at = "idle" /\ started < MaxAccountRequests /\ started' = started + 1 /\ task' = [task EXCEPT ![r] = x]
  BY DEF C!Start, C!Idle
<1>2. started \in Nat /\ started' \in Nat /\ started' <= MaxAccountRequests
  BY <1>1, BoundsAssumption DEF C!TypeOK
<1>3. C!TypeOK'
  BY <1>1, <1>2 DEF C!TypeOK
<1>4. Counted'
  <2>1. CASE x.at # "token"
    <3>1. Waiting' \subseteq Waiting
      BY <1>1, <2>1 DEF Waiting, C!TypeOK
    <3>2. QED
      BY <1>1, <1>2, <3>1, CountedKept
  <2>2. CASE x.at = "token"
    <3>1. Waiting' = Waiting \cup {r} /\ r \notin Waiting
      BY <1>1, <2>2 DEF Waiting, C!TypeOK
    <3>2. IsFiniteSet(Waiting') /\ Cardinality(Waiting') = Cardinality(Waiting) + 1
      BY <3>1, FS_AddElement DEF Counted
    <3>3. Cardinality(Waiting) \in Nat /\ issued \in Nat
      BY FS_CardinalityType DEF Counted, C!TypeOK
    <3>4. QED
      BY <1>1, <1>2, <3>2, <3>3 DEF Counted
  <2>3. QED
    BY <2>1, <2>2
<1>5. Found'
  BY <1>1 DEF Found, C!TypeOK
<1>6. OneMaker' /\ Unused'
  BY <1>1 DEF OneMaker, Unused, C!TypeOK
<1>7. C!Making' <=> C!Making
  BY <1>1 DEF C!Making, C!TypeOK
<1>8. C!AccountSound'
  BY <1>7 DEF C!AccountSound, C!OneWorkspace, C!ResetOnce, C!KeysHonoured
<1>9. QED
  BY <1>3, <1>4, <1>5, <1>6, <1>8

\* A request that does not wait for a token ends or goes on.
LEMMA CountedGoes ==
  ASSUME Counted, C!TypeOK, UNCHANGED <<issued, started>>, NEW r \in Req, NEW x,
         task' = [task EXCEPT ![r] = x], x.at # "token"
  PROVE  Counted'
<1>1. Waiting' \subseteq Waiting
  BY DEF Waiting, C!TypeOK
<1>2. QED
  BY <1>1, CountedKept DEF Counted, C!TypeOK

LEMMA SignUpKeeps ==
  ASSUME AccountInv, NEW r \in Req,
         (task[r].by \in {"password"} \cup C!Provider /\ C!Look(r)) \/ C!Create(r) \/ C!CreateWithOwner(r) \/ C!AddAuthProvider(r)
  PROVE  AccountInv'
<1> USE DEF AccountInv
<1>1. C!Idle \in C!AccountRequest /\ C!Idle.at = "idle" /\ task[r] \in C!AccountRequest
  BY DEF C!Idle, C!AccountRequest, C!TypeOK
<1>2. CASE task[r].by \in {"password"} \cup C!Provider /\ C!Look(r)
  <2>1. PICK x \in C!AccountRequest : task' = [task EXCEPT ![r] = x]
                /\ (x.at \in {"idle", "create"} \/ (x.at = "attach" /\ account # None /\ x.by \in C!Provider))
    <3>1. CASE account = None
      <4>1. [task[r] EXCEPT !.at = "create"] \in C!AccountRequest
        BY <1>1 DEF C!AccountRequest
      <4>2. QED
        BY <1>1, <1>2, <3>1, <4>1 DEF C!Look, C!Go, C!AccountRequest
    <3>2. CASE account # None
      <4>1. account.providers \in SUBSET C!Provider
        BY <3>2 DEF C!TypeOK, C!Account
      <4>2. [task[r] EXCEPT !.at = "attach", !.seen = account.providers] \in C!AccountRequest
        BY <1>1, <4>1 DEF C!AccountRequest
      <4>3. QED
        BY <1>1, <1>2, <3>2, <4>2 DEF C!Look, C!End, C!AccountRequest
    <3>3. QED
      BY <3>1, <3>2
  <2>2. UNCHANGED <<account, workspaces, mailed, issued, key, chosen, uses, overlap, halfMade, stray, started, faults>>
    BY <1>2 DEF C!Look, C!history
  <2>3. C!TypeOK'
    BY <2>1, <2>2 DEF C!TypeOK
  <2>4. Counted'
    BY <2>1, <2>2, CountedGoes
  <2>5. Found' /\ OneMaker' /\ Unused'
    BY <2>1, <2>2 DEF Found, OneMaker, Unused, C!TypeOK
  <2>6. C!Making' <=> C!Making
    BY <1>2, <2>1 DEF C!Making, C!TypeOK, C!Look
  <2>7. C!AccountSound'
    BY <2>2, <2>6 DEF C!AccountSound, C!OneWorkspace, C!ResetOnce, C!KeysHonoured
  <2>8. QED
    BY <2>3, <2>4, <2>5, <2>7
<1>3. CASE C!Create(r)
  <2>1. CASE account # None
    <3>1. task' = [task EXCEPT ![r] = C!Idle] /\ task[r].at = "create" /\ UNCHANGED <<account, workspaces, mailed, issued, key, chosen, uses, overlap, halfMade, stray, started, faults>>
      BY <1>3, <2>1 DEF C!Create, C!End
    <3>2. C!TypeOK'
      BY <1>1, <3>1 DEF C!TypeOK
    <3>3. Counted'
      BY <1>1, <3>1, CountedGoes
    <3>4. Found' /\ OneMaker' /\ Unused'
      BY <1>1, <3>1 DEF Found, OneMaker, Unused, C!TypeOK
    <3>5. C!Making' <=> C!Making
      BY <1>1, <3>1 DEF C!Making, C!TypeOK
    <3>6. C!AccountSound'
      BY <3>1, <3>5 DEF C!AccountSound, C!OneWorkspace, C!ResetOnce, C!KeysHonoured
    <3>7. QED
      BY <3>2, <3>3, <3>4, <3>6
  <2>2. CASE account = None
    <3> DEFINE x == [task[r] EXCEPT !.at = "workspace"]
               new == [password |-> task[r].secret, providers |-> {task[r].by} \cap C!Provider, token |-> 0, live |-> FALSE]
    <3>1. task' = [task EXCEPT ![r] = x] /\ account' = new /\ chosen' = task[r].secret
          /\ UNCHANGED <<workspaces, mailed, issued, key, uses, overlap, halfMade, stray, started, faults>>
      BY <1>3, <2>2 DEF C!Create, C!Go
    <3>2. new \in C!Account /\ new # None /\ new.token = 0 /\ new.password = task[r].secret
      <4>1. task[r].secret \in Password \cup {None} /\ {task[r].by} \cap C!Provider \in SUBSET C!Provider
        BY <1>1 DEF C!AccountRequest
      <4>2. new \in C!Account
        BY <4>1 DEF C!Account
      <4>3. QED
        BY <4>2, AccountAssumption
    <3>3. x \in C!AccountRequest /\ x.at = "workspace"
      BY <1>1 DEF C!AccountRequest
    <3> HIDE DEF x, new
    <3>4. C!TypeOK'
      BY <1>1, <3>1, <3>2, <3>3 DEF C!TypeOK, C!AccountRequest
    <3>5. Counted'
      BY <3>1, <3>3, CountedGoes
    <3>6. \A q \in Req : task[q].at \notin {"workspace", "attach", "token", "mail", "password"}
      BY <2>2 DEF Found
    <3>7. workspaces = 0 /\ ~halfMade
      BY <2>2 DEF C!AccountSound, C!OneWorkspace, OneMaker
    <3>8. Found' /\ OneMaker' /\ Unused'
      BY <3>1, <3>2, <3>3, <3>6, <3>7 DEF Found, OneMaker, Unused, C!TypeOK
    <3>9. C!Making'
      BY <3>1, <3>3 DEF C!Making, C!TypeOK
    <3>10. C!AccountSound'
      BY <3>1, <3>2, <3>7, <3>9 DEF C!AccountSound, C!OneWorkspace, C!ResetOnce, C!KeysHonoured
    <3>11. QED
      BY <3>4, <3>5, <3>8, <3>10
  <2>3. QED
    BY <2>1, <2>2
<1>4. CASE C!CreateWithOwner(r)
  <2>1. /\ task' = [task EXCEPT ![r] = C!Idle] /\ task[r].at = "workspace" /\ workspaces' = workspaces + 1
        /\ UNCHANGED <<account, mailed, issued, key, chosen, uses, overlap, halfMade, stray, started, faults>>
    BY <1>4 DEF C!CreateWithOwner, C!End, C!history
  <2>2. C!TypeOK'
    BY <1>1, <2>1 DEF C!TypeOK
  <2>3. Counted'
    BY <1>1, <2>1, CountedGoes
  <2>4. workspaces = 0 /\ ~halfMade /\ account # None
    BY <2>1 DEF Found
  <2>5. \A q \in Req \ {r} : task[q].at # "workspace"
    BY <2>1 DEF OneMaker
  <2>6. Found' /\ OneMaker' /\ Unused'
    BY <1>1, <2>1, <2>4, <2>5 DEF Found, OneMaker, Unused, C!TypeOK
  <2>7. ~C!Making'
    BY <1>1, <2>1, <2>5 DEF C!Making, C!TypeOK
  <2>8. C!AccountSound'
    BY <2>1, <2>4, <2>7 DEF C!AccountSound, C!OneWorkspace, C!ResetOnce, C!KeysHonoured
  <2>9. QED
    BY <2>2, <2>3, <2>6, <2>8
<1>5. CASE C!AddAuthProvider(r)
  <2>1. task' = [task EXCEPT ![r] = C!Idle] /\ task[r].at = "attach"
        /\ UNCHANGED <<workspaces, mailed, issued, key, chosen, uses, overlap, halfMade, stray, started, faults>>
    BY <1>5 DEF C!AddAuthProvider, C!End, C!history
  <2>2. account # None /\ account \in C!Account
    BY <2>1 DEF Found, C!TypeOK
  <2>3. account' \in C!Account /\ account'.token = account.token /\ account'.password = account.password
    <3>1. [account EXCEPT !.providers = account.providers \cup {task[r].by}] \in C!Account
          \/ task[r].by \notin C!Provider
      BY <2>2 DEF C!Account
    <3>2. task[r].by \in C!Provider
      BY <2>1 DEF Found
    <3>3. QED
      BY <1>5, <2>2, <3>1, <3>2 DEF C!AddAuthProvider, C!Account
  <2>4. account' # None
    BY <2>3, AccountAssumption
  <2>5. C!TypeOK'
    BY <1>1, <2>1, <2>3 DEF C!TypeOK
  <2>6. Counted'
    BY <1>1, <2>1, CountedGoes
  <2>7. Found' /\ OneMaker' /\ Unused'
    BY <1>1, <2>1, <2>2, <2>3, <2>4 DEF Found, OneMaker, Unused, C!TypeOK
  <2>8. C!Making' <=> C!Making
    BY <1>1, <2>1 DEF C!Making, C!TypeOK
  <2>9. C!AccountSound'
    BY <2>1, <2>2, <2>3, <2>4, <2>8 DEF C!AccountSound, C!OneWorkspace, C!ResetOnce, C!KeysHonoured
  <2>10. QED
    BY <2>5, <2>6, <2>7, <2>9
<1>6. QED
  BY <1>2, <1>3, <1>4, <1>5

LEMMA StartsKeep ==
  ASSUME AccountInv, NEW r \in Req,
         \/ \E s \in Password : C!StartRegister(r, s)
         \/ \E p \in C!Provider : C!StartOAuth(r, p)
         \/ C!StartForgot(r) \/ C!StartWithKey(r)
  PROVE  AccountInv'
<1> DEFINE Frame == UNCHANGED <<account, workspaces, mailed, issued, key, chosen, uses, overlap, halfMade, stray, faults>>
<1>1. CASE \E s \in Password : C!StartRegister(r, s)
  <2>1. PICK s \in Password : C!StartRegister(r, s)
    BY <1>1
  <2> DEFINE x == [C!Idle EXCEPT !.at = "look", !.by = "password", !.secret = s]
  <2>2. x \in C!AccountRequest /\ x.at = "look" /\ x.by = "password"
    BY DEF C!Idle, C!AccountRequest
  <2>3. C!Start(r, x) /\ Frame
    BY <2>1 DEF C!StartRegister, C!history
  <2> HIDE DEF x
  <2>4. QED
    BY <2>2, <2>3, StartKeeps
<1>2. CASE \E p \in C!Provider : C!StartOAuth(r, p)
  <2>1. PICK p \in C!Provider : C!StartOAuth(r, p)
    BY <1>2
  <2> DEFINE x == [C!Idle EXCEPT !.at = "look", !.by = p]
  <2>2. x \in C!AccountRequest /\ x.at = "look" /\ x.by # "late"
    BY DEF C!Idle, C!AccountRequest, C!Provider
  <2>3. C!Start(r, x) /\ Frame
    BY <2>1 DEF C!StartOAuth, C!history
  <2> HIDE DEF x
  <2>4. QED
    BY <2>2, <2>3, StartKeeps
<1>3. CASE C!StartForgot(r)
  <2> DEFINE x == IF account = None THEN C!Idle ELSE [C!Idle EXCEPT !.at = "token", !.by = "forgot"]
  <2>1. x \in C!AccountRequest /\ (x.at = "idle" \/ (x.at = "token" /\ account # None))
    <3>1. C!Idle \in C!AccountRequest /\ C!Idle.at = "idle"
      BY DEF C!Idle, C!AccountRequest
    <3>2. CASE account = None
      BY <3>1, <3>2
    <3>3. CASE account # None
      BY <3>3 DEF C!Idle, C!AccountRequest
    <3>4. QED
      BY <3>2, <3>3
  <2>2. C!Start(r, x) /\ Frame
    BY <1>3 DEF C!StartForgot, C!history
  <2> HIDE DEF x
  <2>3. QED
    BY <2>1, <2>2, StartKeeps
<1>4. CASE C!StartWithKey(r)
  <2> DEFINE by == IF key = "live" THEN "key" ELSE "late"
             x == [C!Idle EXCEPT !.at = "look", !.by = by]
  <2>1. x \in C!AccountRequest /\ x.at = "look" /\ x.by = by
    BY DEF C!Idle, C!AccountRequest
  <2>2. C!Start(r, x) /\ Frame /\ key # "none"
    BY <1>4 DEF C!StartWithKey, C!history
  <2>3. by = "late" => key = "revoked"
    BY <2>2 DEF AccountInv, C!TypeOK
  <2> HIDE DEF x
  <2>4. QED
    BY <2>1, <2>2, <2>3, StartKeeps
<1>5. QED
  BY <1>1, <1>2, <1>3, <1>4

LEMMA RecoverKeeps ==
  ASSUME AccountInv, NEW r \in Req,
         \/ \E t \in C!Token, s \in Password : C!StartReset(r, t, s)
         \/ C!SetPassword(r) \/ C!SetResetToken(r) \/ C!SendPasswordReset(r)
  PROVE  AccountInv'
<1> USE DEF AccountInv
<1>1. C!Idle \in C!AccountRequest /\ C!Idle.at = "idle" /\ C!Idle.by = None /\ task[r] \in C!AccountRequest
  BY DEF C!Idle, C!AccountRequest, C!TypeOK
<1>2. issued \in Nat /\ started \in Nat /\ MaxAccountRequests \in Nat
  BY BoundsAssumption DEF C!TypeOK
<1>3. CASE \E t \in C!Token, s \in Password : C!StartReset(r, t, s)
  <2>1. PICK t \in C!Token, s \in Password : C!StartReset(r, t, s)
    BY <1>3
  <2> DEFINE valid == account # None /\ account.token = t /\ account.live
             x == IF valid THEN [C!Idle EXCEPT !.at = "password", !.by = "reset", !.secret = s, !.token = t] ELSE C!Idle
  <2>2. /\ task[r].at = "idle" /\ started < MaxAccountRequests /\ started' = started + 1 /\ task' = [task EXCEPT ![r] = x]
        /\ overlap' = (overlap \/ (valid /\ \E q \in Req : task[q].at = "password"))
        /\ UNCHANGED <<account, workspaces, mailed, issued, key, chosen, uses, halfMade, stray, faults>>
    BY <1>1, <2>1 DEF C!StartReset, C!Start
  <2>3. x \in C!AccountRequest /\ (x.at = "idle" \/ (x.at = "password" /\ x.token = t /\ valid))
    <3>1. [C!Idle EXCEPT !.at = "password", !.by = "reset", !.secret = s, !.token = t] \in C!AccountRequest
      BY DEF C!Idle, C!AccountRequest
    <3>2. QED
      BY <1>1, <3>1 DEF C!Idle
  <2>4. overlap' \in BOOLEAN
    BY <2>2 DEF C!TypeOK
  <2>5. x.at = "password" => /\ x.token \in C!Token /\ x.token <= issued /\ account # None /\ uses[x.token] = 0
                             /\ ~overlap' => \A q \in Req : task[q].at # "password"
    <3> HIDE DEF x
    <3>1. t # 0
      BY <2>1 DEF C!Token
    <3>2. CASE x.at = "password"
      <4>1. x.token = t /\ account # None /\ account.token = t /\ valid
        BY <1>1, <2>3, <3>2
      <4>2. t <= issued /\ uses[t] = 0
        BY <3>1, <4>1 DEF Unused
      <4>3. ~overlap' => \A q \in Req : task[q].at # "password"
        BY <2>2, <4>1
      <4>4. QED
        BY <4>1, <4>2, <4>3
    <3>3. QED
      BY <3>2
  <2> HIDE DEF x, valid
  <2>6. C!TypeOK'
    BY <1>2, <2>2, <2>3, <2>4 DEF C!TypeOK
  <2>7. Waiting' \subseteq Waiting
    BY <2>2, <2>3 DEF Waiting, C!TypeOK
  <2>8. Counted'
    BY <1>2, <2>2, <2>7, CountedKept
  <2>9. ~overlap' => ~overlap
    BY <2>2
  <2>10. Found'
    BY <2>2, <2>3, <2>5 DEF Found, C!TypeOK
  <2>11. OneMaker' /\ Unused'
    BY <2>2, <2>3, <2>5, <2>9 DEF OneMaker, Unused, C!TypeOK
  <2>12. C!Making' <=> C!Making
    BY <2>2, <2>3 DEF C!Making, C!TypeOK
  <2>13. C!AccountSound'
    BY <2>2, <2>9, <2>12 DEF C!AccountSound, C!OneWorkspace, C!ResetOnce, C!KeysHonoured
  <2>14. QED
    BY <2>6, <2>8, <2>10, <2>11, <2>13
<1>4. CASE C!SetPassword(r)
  <2> DEFINE t == task[r].token
             new == [account EXCEPT !.password = task[r].secret, !.token = 0, !.live = FALSE]
  <2>1. /\ task[r].at = "password" /\ account' = new /\ chosen' = task[r].secret
        /\ uses' = [uses EXCEPT ![t] = uses[t] + 1] /\ task' = [task EXCEPT ![r] = C!Idle]
        /\ UNCHANGED <<workspaces, mailed, issued, key, overlap, halfMade, stray, started, faults>>
    BY <1>4 DEF C!SetPassword, C!End
  <2>2. account # None /\ account \in C!Account /\ t \in C!Token /\ t <= issued
    BY <2>1 DEF Found, C!TypeOK
  <2>3. new \in C!Account /\ new # None /\ new.token = 0 /\ new.password = task[r].secret
    <3>1. task[r].secret \in Password \cup {None}
      BY <1>1 DEF C!AccountRequest
    <3>2. new \in C!Account
      BY <2>2, <3>1 DEF C!Account
    <3>3. QED
      BY <2>2, <3>2, AccountAssumption DEF C!Account
  <2> HIDE DEF new
  <2>4. uses' \in [C!Token -> Nat] /\ uses'[t] = uses[t] + 1 /\ \A u \in C!Token \ {t} : uses'[u] = uses[u]
    BY <2>1, <2>2 DEF C!TypeOK
  <2>5. C!TypeOK'
    BY <1>1, <2>1, <2>3, <2>4 DEF C!TypeOK, C!AccountRequest
  <2>6. Counted'
    BY <1>1, <2>1, CountedGoes
  <2>7. ~overlap => uses[t] = 0 /\ \A q \in Req \ {r} : task[q].at # "password"
    BY <2>1 DEF Unused
  <2>8. Found' /\ OneMaker'
    BY <1>1, <2>1, <2>2, <2>3 DEF Found, OneMaker, C!TypeOK
  <2>9. Unused'
    <3>1. \A u \in C!Token : u > issued => uses'[u] = 0
      BY <1>2, <2>2, <2>4 DEF Unused, C!Token
    <3>2. ~overlap => \A q \in Req : task'[q].at # "password"
      BY <1>1, <2>1, <2>7 DEF C!TypeOK
    <3>3. QED
      BY <1>2, <2>1, <2>3, <3>1, <3>2 DEF Unused
  <2>10. C!Making' <=> C!Making
    BY <1>1, <2>1 DEF C!Making, C!TypeOK
  <2>11. ~overlap => \A u \in C!Token : uses'[u] <= 1
    <3>1. ~overlap => \A u \in C!Token : uses[u] <= 1
      BY DEF C!AccountSound, C!ResetOnce
    <3>2. QED
      BY <2>2, <2>4, <2>7, <3>1
  <2>12. C!AccountSound'
    BY <2>1, <2>2, <2>3, <2>10, <2>11 DEF C!AccountSound, C!OneWorkspace, C!ResetOnce, C!KeysHonoured
  <2>13. QED
    BY <2>5, <2>6, <2>8, <2>9, <2>12
<1>5. CASE C!SetResetToken(r)
  <2> DEFINE new == [account EXCEPT !.token = issued + 1, !.live = TRUE]
             x == [task[r] EXCEPT !.at = "mail", !.token = issued + 1]
  <2>1. /\ task[r].at = "token" /\ issued' = issued + 1 /\ account' = new /\ task' = [task EXCEPT ![r] = x]
        /\ UNCHANGED <<workspaces, mailed, key, chosen, uses, overlap, halfMade, stray, started, faults>>
    BY <1>5 DEF C!SetResetToken, C!history
  <2>2. r \in Waiting /\ IsFiniteSet(Waiting)
    BY <2>1 DEF Waiting, Counted
  <2>3. /\ IsFiniteSet(Waiting \ {r}) /\ Cardinality(Waiting \ {r}) = Cardinality(Waiting) - 1
        /\ Cardinality(Waiting) \in Nat /\ Cardinality(Waiting \ {r}) \in Nat
    BY <2>2, FS_RemoveElement, FS_CardinalityType, FS_Subset
  <2>4. issued + 1 \in C!Token /\ issued + 1 \in 0..MaxAccountRequests
    BY <1>2, <2>3 DEF Counted, C!Token
  <2>5. x \in C!AccountRequest /\ x.at = "mail" /\ x.token = issued + 1
    BY <1>1, <2>4 DEF C!AccountRequest
  <2>6. account # None /\ account \in C!Account
    BY <2>1 DEF Found, C!TypeOK
  <2>7. new \in C!Account /\ new.token = issued + 1 /\ new.password = account.password
    BY <2>4, <2>6 DEF C!Account
  <2>8. new # None
    BY <2>7, AccountAssumption
  <2> HIDE DEF new, x
  <2>9. C!TypeOK'
    BY <2>1, <2>4, <2>5, <2>7 DEF C!TypeOK
  <2>10. Waiting' = Waiting \ {r}
    BY <2>1, <2>5 DEF Waiting, C!TypeOK
  <2>11. Counted'
    BY <1>2, <2>1, <2>3, <2>10 DEF Counted
  <2>12. Found'
    BY <1>2, <2>1, <2>4, <2>5, <2>6, <2>8 DEF Found, C!TypeOK, C!Token, C!AccountRequest
  <2>13. OneMaker'
    BY <2>1, <2>5, <2>8 DEF OneMaker, C!TypeOK
  <2>14. Unused'
    <3>1. uses[issued + 1] = 0 /\ \A t \in C!Token : t > issued + 1 => uses[t] = 0
      BY <1>2, <2>4 DEF Unused, C!Token
    <3>2. ~overlap => \A q, p \in Req : task'[q].at = "password" /\ task'[p].at = "password" => q = p /\ uses[task'[q].token] = 0
      BY <2>1, <2>5 DEF Unused, C!TypeOK
    <3>3. QED
      BY <1>2, <2>1, <2>7, <3>1, <3>2 DEF Unused
  <2>15. C!Making' <=> C!Making
    BY <2>1, <2>5 DEF C!Making, C!TypeOK
  <2>16. C!AccountSound'
    BY <2>1, <2>6, <2>7, <2>8, <2>15 DEF C!AccountSound, C!OneWorkspace, C!ResetOnce, C!KeysHonoured
  <2>17. QED
    BY <2>9, <2>11, <2>12, <2>13, <2>14, <2>16
<1>6. CASE C!SendPasswordReset(r)
  <2>1. /\ task[r].at = "mail" /\ mailed' = mailed \cup {task[r].token} /\ task' = [task EXCEPT ![r] = C!Idle]
        /\ UNCHANGED <<account, workspaces, issued, key, chosen, uses, overlap, halfMade, stray, started, faults>>
    BY <1>6 DEF C!SendPasswordReset, C!End, C!history
  <2>2. task[r].token \in C!Token
    BY <2>1 DEF Found
  <2>3. C!TypeOK'
    BY <1>1, <2>1, <2>2 DEF C!TypeOK
  <2>4. Counted'
    BY <1>1, <2>1, CountedGoes
  <2>5. Found' /\ OneMaker' /\ Unused'
    BY <1>1, <2>1 DEF Found, OneMaker, Unused, C!TypeOK
  <2>6. C!Making' <=> C!Making
    BY <1>1, <2>1 DEF C!Making, C!TypeOK
  <2>7. C!AccountSound'
    BY <2>1, <2>6 DEF C!AccountSound, C!OneWorkspace, C!ResetOnce, C!KeysHonoured
  <2>8. QED
    BY <2>3, <2>4, <2>5, <2>7
<1>7. QED
  BY <1>3, <1>4, <1>5, <1>6

LEMMA KeysKeep ==
  ASSUME AccountInv, NEW r \in Req, C!Validate(r) \/ C!Admit(r) \/ C!Interrupt(r)
  PROVE  AccountInv'
<1> USE DEF AccountInv
<1>1. C!Idle \in C!AccountRequest /\ C!Idle.at = "idle" /\ task[r] \in C!AccountRequest
  BY DEF C!Idle, C!AccountRequest, C!TypeOK
<1>2. CASE C!Validate(r)
  <2>1. /\ task[r].at = "look" /\ task[r].by \in {"key", "late"}
        /\ UNCHANGED <<account, workspaces, mailed, issued, key, chosen, uses, overlap, halfMade, stray, started, faults>>
    BY <1>2 DEF C!Validate, C!history
  <2>2. PICK x \in C!AccountRequest : /\ task' = [task EXCEPT ![r] = x]
                                      /\ x.at = "idle" \/ (x.at = "touch" /\ x.by = "key")
    <3>1. CASE key = "revoked"
      BY <1>1, <1>2, <3>1 DEF C!Validate, C!End
    <3>2. CASE key # "revoked"
      <4>1. task[r].by = "key"
        BY <2>1, <3>2 DEF Found
      <4>2. [task[r] EXCEPT !.at = "touch"] \in C!AccountRequest
        BY <1>1 DEF C!AccountRequest
      <4>3. QED
        BY <1>1, <1>2, <3>2, <4>1, <4>2 DEF C!Validate, C!Go, C!AccountRequest
    <3>3. QED
      BY <3>1, <3>2
  <2>3. C!TypeOK'
    BY <2>1, <2>2 DEF C!TypeOK
  <2>4. Counted'
    BY <2>1, <2>2, CountedGoes
  <2>5. Found' /\ OneMaker' /\ Unused'
    BY <2>1, <2>2 DEF Found, OneMaker, Unused, C!TypeOK
  <2>6. C!Making' <=> C!Making
    BY <2>1, <2>2 DEF C!Making, C!TypeOK
  <2>7. C!AccountSound'
    BY <2>1, <2>6 DEF C!AccountSound, C!OneWorkspace, C!ResetOnce, C!KeysHonoured
  <2>8. QED
    BY <2>3, <2>4, <2>5, <2>7
<1>3. CASE C!Admit(r)
  <2>1. /\ task[r].at = "touch" /\ task' = [task EXCEPT ![r] = C!Idle] /\ stray' = (stray \/ task[r].by = "late")
        /\ UNCHANGED <<account, workspaces, mailed, issued, key, chosen, uses, overlap, halfMade, started, faults>>
    BY <1>3 DEF C!Admit, C!End
  <2>2. ~stray' /\ stray' \in BOOLEAN
    <3>1. task[r].by = "key"
      BY <2>1 DEF Found
    <3>2. QED
      BY <2>1, <3>1 DEF C!AccountSound, C!KeysHonoured
  <2>3. C!TypeOK'
    BY <1>1, <2>1, <2>2 DEF C!TypeOK
  <2>4. Counted'
    BY <1>1, <2>1, CountedGoes
  <2>5. Found' /\ OneMaker' /\ Unused'
    BY <1>1, <2>1 DEF Found, OneMaker, Unused, C!TypeOK
  <2>6. C!Making' <=> C!Making
    BY <1>1, <2>1 DEF C!Making, C!TypeOK
  <2>7. C!AccountSound'
    BY <2>1, <2>2, <2>6 DEF C!AccountSound, C!OneWorkspace, C!ResetOnce, C!KeysHonoured
  <2>8. QED
    BY <2>3, <2>4, <2>5, <2>7
<1>4. CASE C!Interrupt(r)
  <2>1. /\ task' = [task EXCEPT ![r] = C!Idle] /\ halfMade' = (halfMade \/ task[r].at = "workspace") /\ faults' = faults + 1
        /\ UNCHANGED <<account, workspaces, mailed, issued, key, chosen, uses, overlap, stray, started>>
    BY <1>4 DEF C!Interrupt, C!End
  <2>2. halfMade' \in BOOLEAN
    BY <2>1 DEF C!TypeOK
  <2>3. C!TypeOK'
    BY <1>1, <2>1, <2>2 DEF C!TypeOK
  <2>4. Counted'
    BY <1>1, <2>1, CountedGoes
  <2>5. task[r].at = "workspace" => account # None /\ workspaces = 0 /\ \A q \in Req \ {r} : task[q].at # "workspace"
    BY DEF Found, OneMaker
  <2>6. Found' /\ OneMaker' /\ Unused'
    BY <1>1, <2>1, <2>5 DEF Found, OneMaker, Unused, C!TypeOK
  <2>7. IF task[r].at = "workspace" THEN ~C!Making' ELSE C!Making' <=> C!Making
    BY <1>1, <2>1, <2>5 DEF C!Making, C!TypeOK
  <2>8. C!OneWorkspace'
    <3>1. CASE task[r].at = "workspace"
      BY <2>1, <2>5, <2>7, <3>1 DEF C!OneWorkspace
    <3>2. CASE task[r].at # "workspace"
      BY <2>1, <2>7, <3>2 DEF C!OneWorkspace, C!AccountSound
    <3>3. QED
      BY <3>1, <3>2
  <2>9. C!AccountSound'
    BY <2>1, <2>8 DEF C!AccountSound, C!ResetOnce, C!KeysHonoured
  <2>10. QED
    BY <2>3, <2>4, <2>6, <2>9
<1>5. QED
  BY <1>2, <1>3, <1>4

LEMMA AccountStep ==
  ASSUME AccountInv, [C!Next]_(C!vars)
  PROVE  AccountInv'
<1> USE DEF AccountInv
<1>1. CASE C!TokenExpires
  <2> DEFINE new == [account EXCEPT !.live = FALSE]
  <2>1. account # None /\ account' = new
        /\ UNCHANGED <<workspaces, mailed, issued, key, task, chosen, uses, overlap, halfMade, stray, started, faults>>
    BY <1>1 DEF C!TokenExpires, C!history
  <2>2. new \in C!Account /\ new.token = account.token /\ new.password = account.password
    BY <2>1 DEF C!TypeOK, C!Account
  <2>3. new # None
    BY <2>2, AccountAssumption
  <2> HIDE DEF new
  <2>4. C!TypeOK'
    BY <2>1, <2>2 DEF C!TypeOK
  <2>5. Counted' /\ Found' /\ OneMaker' /\ Unused'
    BY <2>1, <2>2, <2>3 DEF Counted, Waiting, Found, OneMaker, Unused
  <2>6. C!AccountSound'
    BY <2>1, <2>2, <2>3 DEF C!AccountSound, C!OneWorkspace, C!ResetOnce, C!KeysHonoured, C!Making
  <2>7. QED
    BY <2>4, <2>5, <2>6
<1>2. CASE C!SetKey
  <2>1. /\ started < MaxAccountRequests /\ started' = started + 1
        /\ key \in {"none", "live"} /\ key' \in {"live", "revoked"}
        /\ UNCHANGED <<account, workspaces, mailed, issued, task, chosen, uses, overlap, halfMade, stray, faults>>
    BY <1>2 DEF C!SetKey, C!CreateKey, C!RevokeKey, C!history
  <2>2. started \in Nat /\ started' \in Nat /\ started' <= MaxAccountRequests
    BY <2>1, BoundsAssumption DEF C!TypeOK
  <2>3. C!TypeOK'
    BY <2>1, <2>2 DEF C!TypeOK
  <2>4. Waiting' = Waiting
    BY <2>1 DEF Waiting
  <2>5. Counted'
    BY <2>1, <2>2, <2>4, CountedKept
  <2>6. Found' /\ OneMaker' /\ Unused'
    BY <2>1 DEF Found, OneMaker, Unused
  <2>7. C!AccountSound'
    BY <2>1 DEF C!AccountSound, C!OneWorkspace, C!ResetOnce, C!KeysHonoured, C!Making
  <2>8. QED
    BY <2>3, <2>5, <2>6, <2>7
<1>3. CASE UNCHANGED C!vars
  <2>1. UNCHANGED <<account, workspaces, mailed, issued, key, task, chosen, uses, overlap, halfMade, stray, started, faults>>
    BY <1>3 DEF C!vars, C!history
  <2>2. C!TypeOK'
    BY <2>1 DEF C!TypeOK
  <2>3. Counted' /\ Found' /\ OneMaker' /\ Unused'
    BY <2>1 DEF Counted, Waiting, Found, OneMaker, Unused
  <2>4. C!AccountSound'
    BY <2>1 DEF C!AccountSound, C!OneWorkspace, C!ResetOnce, C!KeysHonoured, C!Making
  <2>5. QED
    BY <2>2, <2>3, <2>4
<1>4. QED
  BY <1>1, <1>2, <1>3, StartsKeep, SignUpKeeps, RecoverKeeps, KeysKeep DEF C!Next, C!SignUp, C!Recover

AccountSafe == focus = "accounts" => AccountInv

LEMMA AccountAlways == FocusSpec => []AccountSafe
<1>1. FocusInit => AccountSafe
  BY AccountInit DEF FocusInit, AccountSafe
<1>2. AccountSafe /\ [FocusNext]_focusVars => AccountSafe'
  BY AccountStep, FocusStays DEF AccountSafe
<1>3. QED
  BY <1>1, <1>2, PTL DEF FocusSpec

\* auth.service.ts makes one workspace for the account it creates, a password is
\* reset once by a token unless two resets overlap, and an API key of
\* api-keys.service.ts is honoured after its revocation only where it was looked
\* up before it.
THEOREM AccountsSafe == FocusSpec => []AccountSound
<1>1. AccountSafe => AccountSound
  BY DEF AccountSafe, AccountInv, AccountSound
<1>2. QED
  BY <1>1, AccountAlways, PTL

-----------------------------------------------------------------------------
\* Cardinality by the name it has in the instance.
LEMMA SameCardinality == \A S : V!Cardinality(S) = Cardinality(S)
BY DEF V!Cardinality, Cardinality

(* Versions: what a version holds. *)

\* What a request knows when it is at an await.
RequestsKnow ==
  \A r \in Req :
    /\ task[r].op \in {"create", "insert"} => task[r].read # {}
    /\ task[r].op \in {"insert", "files", "header"} => task[r].version \in Release /\ snap[task[r].version] # {}
    /\ task[r].op = "insert" => task[r].read = snap[task[r].version]
    /\ task[r].op \in {"insert", "files", "header"} => task[r].label \in Label \cup {None}
    /\ task[r].op \in {"look", "read", "create"} => task[r].label \in Label
    /\ task[r].op = "header" /\ task[r].version \notin crossed => files[task[r].version] = {}

\* A header counts what its publication read, and a version is published once.
HeadersCount ==
  \A v \in Release : header[v] # None => snap[v] # {} /\ header[v].docCount = Cardinality(snap[v])

\* Unless one overtook the other, nothing is published and removed at a time,
\* and what is published has its header.
Apart ==
  \A v \in Release : V!Publishing(v) /\ v \notin crossed => header[v] # None /\ ~V!Removing(v)

\* A version at rest holds what was read for it.
FilesFrozen ==
  \A v \in Release :
    /\ header[v] # None /\ ~V!Publishing(v) /\ ~V!Removing(v) /\ v \notin broken => files[v] = snap[v]
    /\ header[v] = None /\ ~V!Publishing(v) /\ v \notin crossed => files[v] = {}

VersionInv == V!TypeOK /\ RequestsKnow /\ HeadersCount /\ Apart /\ FilesFrozen

LEMMA VersionInit ==
  ASSUME V!Init
  PROVE  VersionInv
<1> USE DEF V!Init
<1>1. V!Idle \in V!VersionRequest /\ V!Idle.op = "idle"
  BY DEF V!Idle, V!VersionRequest
<1>2. V!TypeOK
  BY <1>1 DEF V!TypeOK
<1>3. RequestsKnow /\ HeadersCount
  BY <1>1 DEF RequestsKnow, HeadersCount
<1>4. Apart /\ FilesFrozen
  BY <1>1 DEF Apart, FilesFrozen, V!Publishing
<1>5. QED
  BY <1>2, <1>3, <1>4 DEF VersionInv

\* A request that writes nothing goes on, ends or begins to remove.
LEMMA RequestKeeps ==
  ASSUME VersionInv, NEW r \in Req, NEW x \in V!VersionRequest, task' = [task EXCEPT ![r] = x],
         task[r].op \in {"idle", "look", "read", "create"},
         \/ x.op = "idle"
         \/ x.op \in {"look", "read"} /\ x.label \in Label
         \/ x.op = "create" /\ x.label \in Label /\ x.read # {}
         \/ x.op = "files" /\ x.version \in Release /\ header[x.version] # None,
         crossed' = IF x.op = "files" /\ V!Publishing(x.version) THEN crossed \cup {x.version} ELSE crossed,
         UNCHANGED <<texts, barred, header, files, snap, broken, faults>>, started' \in Nat
  PROVE  VersionInv'
<1> USE DEF VersionInv
<1>1. crossed \subseteq crossed' /\ crossed' \subseteq Release
  BY DEF V!TypeOK
<1>2. V!TypeOK'
  BY <1>1 DEF V!TypeOK
<1>3. RequestsKnow'
  BY <1>1 DEF RequestsKnow, HeadersCount, V!TypeOK, V!VersionRequest
<1>4. HeadersCount'
  BY DEF HeadersCount
<1>5. ASSUME NEW v \in Release
      PROVE  /\ V!Publishing(v)' <=> V!Publishing(v)
             /\ V!Removing(v)' <=> V!Removing(v) \/ (x.op = "files" /\ x.version = v)
  BY DEF V!Publishing, V!Removing, V!TypeOK
<1>6. Apart'
  BY <1>1, <1>5 DEF Apart
<1>7. FilesFrozen'
  BY <1>1, <1>5 DEF FilesFrozen
<1>8. QED
  BY <1>2, <1>3, <1>4, <1>6, <1>7

LEMMA LookKeeps ==
  ASSUME VersionInv, NEW r \in Req,
         V!Requested(r) \/ V!LookForLabel(r) \/ V!ReadDocuments(r)
  PROVE  VersionInv'
<1> USE DEF VersionInv
<1>1. task[r] \in V!VersionRequest /\ V!Idle \in V!VersionRequest /\ V!Idle.op = "idle" /\ started \in Nat
  BY DEF V!TypeOK, V!Idle, V!VersionRequest
<1>2. CASE \E label \in Label : V!StartPublish(r, label)
  <2>1. PICK label \in Label : V!StartPublish(r, label)
    BY <1>2
  <2> DEFINE x == [V!Idle EXCEPT !.op = "look", !.label = label]
  <2>2. x \in V!VersionRequest /\ x.op = "look" /\ x.label = label
    BY DEF V!Idle, V!VersionRequest
  <2>3. /\ task[r].op = "idle" /\ task' = [task EXCEPT ![r] = x] /\ started' \in Nat
        /\ UNCHANGED <<texts, barred, header, files, snap, crossed, broken, faults>>
    BY <1>1, <2>1 DEF V!StartPublish, V!Start
  <2> HIDE DEF x
  <2>4. QED
    BY <2>2, <2>3, RequestKeeps
<1>3. CASE \E v \in Release : V!StartRemove(r, v)
  <2>1. PICK v \in Release : V!StartRemove(r, v)
    BY <1>3
  <2> DEFINE x == [V!Idle EXCEPT !.op = "files", !.version = v]
  <2>2. x \in V!VersionRequest /\ x.op = "files" /\ x.version = v
    BY DEF V!Idle, V!VersionRequest
  <2>3. /\ task[r].op = "idle" /\ task' = [task EXCEPT ![r] = x] /\ started' \in Nat /\ header[v] # None
        /\ crossed' = IF V!Publishing(v) THEN crossed \cup {v} ELSE crossed
        /\ UNCHANGED <<texts, barred, header, files, snap, broken, faults>>
    BY <1>1, <2>1 DEF V!StartRemove, V!Start
  <2> HIDE DEF x
  <2>4. QED
    BY <2>2, <2>3, RequestKeeps
<1>4. CASE V!LookForLabel(r)
  <2> DEFINE x == [task[r] EXCEPT !.op = "read"]
  <2>1. x \in V!VersionRequest /\ x.op = "read" /\ x.label = task[r].label
    BY <1>1 DEF V!VersionRequest
  <2>2. /\ task[r].op = "look" /\ task[r].label \in Label
        /\ task' = [task EXCEPT ![r] = x] \/ task' = [task EXCEPT ![r] = V!Idle]
        /\ UNCHANGED <<texts, barred, header, files, snap, crossed, broken, started, faults>>
    BY <1>4 DEF V!LookForLabel, V!Go, V!End, RequestsKnow
  <2> HIDE DEF x
  <2>3. QED
    BY <1>1, <2>1, <2>2, RequestKeeps
<1>5. CASE V!ReadDocuments(r)
  <2> DEFINE x == [task[r] EXCEPT !.op = "create", !.read = texts]
  <2>1. x \in V!VersionRequest /\ x.op = "create" /\ x.label = task[r].label /\ x.read = texts
    BY <1>1 DEF V!VersionRequest, V!TypeOK
  <2>2. /\ task[r].op = "read" /\ task[r].label \in Label
        /\ (texts # {} /\ task' = [task EXCEPT ![r] = x]) \/ task' = [task EXCEPT ![r] = V!Idle]
        /\ UNCHANGED <<texts, barred, header, files, snap, crossed, broken, started, faults>>
    BY <1>5 DEF V!ReadDocuments, RequestsKnow
  <2> HIDE DEF x
  <2>3. QED
    BY <1>1, <2>1, <2>2, RequestKeeps
<1>6. QED
  BY <1>2, <1>3, <1>4, <1>5 DEF V!Requested

LEMMA PublishKeeps ==
  ASSUME VersionInv, NEW r \in Req, V!CreateHeader(r) \/ V!InsertFiles(r)
  PROVE  VersionInv'
<1> USE DEF VersionInv
<1>1. task[r] \in V!VersionRequest /\ V!Idle \in V!VersionRequest /\ V!Idle.op = "idle"
  BY DEF V!TypeOK, V!Idle, V!VersionRequest
<1>2. CASE V!CreateHeader(r) /\ V!Known(task[r].label)
  BY <1>1, <1>2, RequestKeeps DEF V!CreateHeader, V!End, V!TypeOK
<1>3. CASE V!CreateHeader(r) /\ ~V!Known(task[r].label)
  <2>1. PICK v \in Release :
          /\ header[v] = None /\ snap[v] = {}
          /\ header' = [header EXCEPT ![v] = [label |-> task[r].label, docCount |-> Cardinality(task[r].read)]]
          /\ snap' = [snap EXCEPT ![v] = task[r].read]
          /\ task' = [task EXCEPT ![r].op = "insert", ![r].version = v]
    BY <1>3, SameCardinality DEF V!CreateHeader
  <2> DEFINE x == [task[r] EXCEPT !.op = "insert", !.version = v]
             h == [label |-> task[r].label, docCount |-> Cardinality(task[r].read)]
  <2>2. x \in V!VersionRequest /\ x.op = "insert" /\ x.version = v /\ x.read = task[r].read /\ x.label = task[r].label
    BY <1>1 DEF V!VersionRequest
  <2>3. task' = [task EXCEPT ![r] = x]
    BY <1>1, <2>1 DEF V!TypeOK, V!VersionRequest
  <2>4. task[r].op = "create" /\ task[r].read # {} /\ task[r].label \in Label /\ task[r].read \subseteq Path
    BY <1>1, <1>3 DEF V!CreateHeader, RequestsKnow, V!VersionRequest
  <2>5. Cardinality(task[r].read) \in 1..Cardinality(Path)
    <3>1. IsFiniteSet(task[r].read) /\ Cardinality(task[r].read) <= Cardinality(Path)
      BY <2>4, VersionAssumption, FS_Subset
    <3>2. Cardinality(task[r].read) \in Nat /\ Cardinality(Path) \in Nat /\ Cardinality(task[r].read) # 0
      BY <2>4, <3>1, VersionAssumption, FS_CardinalityType, FS_EmptySet
    <3>3. QED
      BY <3>1, <3>2
  <2>6. h \in [label: Label, docCount: 1..Cardinality(Path)] /\ h # None /\ h.docCount = Cardinality(task[r].read)
    <3>1. h \in [label: Label, docCount: 1..Cardinality(Path)] /\ h.docCount = Cardinality(task[r].read)
      BY <2>4, <2>5
    <3>2. h \in [label: Label, docCount: Nat]
      BY <2>4, <2>5
    <3>3. QED
      BY <3>1, <3>2, VersionAssumption
  <2>7. header' = [header EXCEPT ![v] = h] /\ UNCHANGED <<texts, barred, files, crossed, broken, started, faults>>
    BY <1>3, <2>1 DEF V!CreateHeader
  <2> HIDE DEF x, h
  <2>8. V!TypeOK'
    <3>1. V!Cardinality(Path) = Cardinality(Path)
      BY SameCardinality
    <3>2. h \in [label: Label, docCount: 1..V!Cardinality(Path)]
      BY <2>6, <3>1
    <3>3. header' \in [Release -> {None} \cup [label: Label, docCount: 1..V!Cardinality(Path)]]
      BY <2>7, <3>2 DEF V!TypeOK
    <3>4. snap' \in [Release -> SUBSET Path]
      BY <2>1, <2>4 DEF V!TypeOK
    <3>5. task' \in [Req -> V!VersionRequest]
      BY <2>2, <2>3 DEF V!TypeOK
    <3>6. QED
      BY <2>7, <3>3, <3>4, <3>5 DEF V!TypeOK
  <2>9. \A q \in Req : task[q].op \in {"insert", "files", "header"} => task[q].version # v
    BY <2>1 DEF RequestsKnow
  <2>10. RequestsKnow'
    BY <2>1, <2>2, <2>3, <2>4, <2>7, <2>9 DEF RequestsKnow, V!TypeOK
  <2>11. HeadersCount'
    BY <2>1, <2>4, <2>6, <2>7 DEF HeadersCount, V!TypeOK
  <2>12. ASSUME NEW w \in Release
         PROVE  /\ V!Publishing(w)' <=> V!Publishing(w) \/ w = v
                /\ V!Removing(w)' <=> V!Removing(w)
    BY <2>2, <2>3, <2>4 DEF V!Publishing, V!Removing, V!TypeOK
  <2>13. ~V!Removing(v)
    BY <2>9 DEF V!Removing
  <2>14. Apart'
    BY <2>6, <2>7, <2>12, <2>13 DEF Apart, V!TypeOK
  <2>15. FilesFrozen'
    BY <2>1, <2>7, <2>12 DEF FilesFrozen, V!TypeOK
  <2>16. QED
    BY <2>8, <2>10, <2>11, <2>14, <2>15
<1>4. CASE V!InsertFiles(r)
  <2> DEFINE v == task[r].version
  <2>1. /\ task[r].op = "insert" /\ v \in Release /\ task[r].read = snap[v]
        /\ files' = [files EXCEPT ![v] = snap[v]] /\ task' = [task EXCEPT ![r] = V!Idle]
        /\ UNCHANGED <<texts, barred, header, snap, crossed, broken, started, faults>>
    BY <1>4 DEF V!InsertFiles, V!End, RequestsKnow
  <2>2. V!TypeOK'
    BY <1>1, <2>1 DEF V!TypeOK
  <2>3. V!Publishing(v)
    BY <2>1 DEF V!Publishing
  <2>4. ASSUME NEW w \in Release
        PROVE  /\ V!Publishing(w)' => V!Publishing(w)
               /\ w # v => (V!Publishing(w) => V!Publishing(w)')
               /\ V!Removing(w)' <=> V!Removing(w)
    BY <1>1, <2>1 DEF V!Publishing, V!Removing, V!TypeOK
  <2>5. v \notin crossed => header[v] # None /\ ~V!Removing(v)
    BY <2>1, <2>3 DEF Apart
  <2> HIDE DEF v
  <2>6. RequestsKnow'
    <3>1. \A q \in Req : task[q].op = "header" /\ task[q].version = v => v \in crossed
      BY <2>5 DEF V!Removing
    <3>2. QED
      BY <1>1, <2>1, <3>1 DEF RequestsKnow, V!TypeOK
  <2>7. HeadersCount' /\ Apart'
    BY <2>1, <2>4 DEF HeadersCount, Apart
  <2>8. FilesFrozen'
    BY <2>1, <2>4, <2>5 DEF FilesFrozen, V!TypeOK
  <2>9. QED
    BY <2>2, <2>6, <2>7, <2>8
<1>5. QED
  BY <1>2, <1>3, <1>4

LEMMA RemoveKeeps ==
  ASSUME VersionInv, NEW r \in Req, V!DropFiles(r) \/ V!DropHeader(r)
  PROVE  VersionInv'
<1> USE DEF VersionInv
<1> DEFINE v == task[r].version
<1>1. task[r] \in V!VersionRequest /\ V!Idle \in V!VersionRequest /\ V!Idle.op = "idle"
  BY DEF V!TypeOK, V!Idle, V!VersionRequest
<1>2. task[r].op \in {"files", "header"} /\ v \in Release /\ V!Removing(v)
      /\ UNCHANGED <<texts, barred, snap, crossed, broken, started, faults>>
  BY DEF V!DropFiles, V!DropHeader, RequestsKnow, V!Removing
<1>3. v \notin crossed => ~V!Publishing(v)
  BY <1>2 DEF Apart
<1>4. CASE V!DropFiles(r)
  <2> DEFINE x == [task[r] EXCEPT !.op = "header"]
  <2>1. x \in V!VersionRequest /\ x.op = "header" /\ x.version = v /\ x.label = task[r].label
    BY <1>1 DEF V!VersionRequest
  <2>2. files' = [files EXCEPT ![v] = {}] /\ task' = [task EXCEPT ![r] = x] /\ header' = header /\ task[r].op = "files"
    BY <1>4 DEF V!DropFiles, V!Go
  <2> HIDE DEF x
  <2>3. V!TypeOK'
    BY <1>2, <2>1, <2>2 DEF V!TypeOK
  <2>4. RequestsKnow'
    BY <1>2, <2>1, <2>2 DEF RequestsKnow, V!TypeOK
  <2>5. ASSUME NEW w \in Release
        PROVE  (V!Publishing(w)' <=> V!Publishing(w)) /\ (V!Removing(w)' <=> V!Removing(w))
    BY <1>2, <2>1, <2>2 DEF V!Publishing, V!Removing, V!TypeOK
  <2>6. HeadersCount' /\ Apart'
    BY <1>2, <2>2, <2>5 DEF HeadersCount, Apart
  <2>7. FilesFrozen'
    BY <1>2, <2>2, <2>5 DEF FilesFrozen, V!TypeOK
  <2>8. QED
    BY <2>3, <2>4, <2>6, <2>7
<1>5. CASE V!DropHeader(r)
  <2>1. header' = [header EXCEPT ![v] = None] /\ task' = [task EXCEPT ![r] = V!Idle] /\ files' = files
        /\ task[r].op = "header" /\ (v \notin crossed => files[v] = {})
    BY <1>5 DEF V!DropHeader, V!End, RequestsKnow
  <2> HIDE DEF v
  <2>2. V!TypeOK'
    BY <1>1, <1>2, <2>1 DEF V!TypeOK
  <2>3. RequestsKnow'
    BY <1>1, <1>2, <2>1 DEF RequestsKnow, V!TypeOK
  <2>4. ASSUME NEW w \in Release
        PROVE  /\ V!Publishing(w)' <=> V!Publishing(w)
               /\ V!Removing(w)' => V!Removing(w)
               /\ w # v => (V!Removing(w) => V!Removing(w)')
    BY <1>1, <1>2, <2>1 DEF V!Publishing, V!Removing, V!TypeOK, v
  <2>5. HeadersCount' /\ Apart'
    BY <1>2, <1>3, <2>1, <2>4 DEF HeadersCount, Apart, V!TypeOK
  <2>6. FilesFrozen'
    BY <1>2, <2>1, <2>4 DEF FilesFrozen, V!TypeOK
  <2>7. QED
    BY <2>2, <2>3, <2>5, <2>6
<1>6. QED
  BY <1>4, <1>5

LEMMA InterruptKeeps ==
  ASSUME VersionInv, NEW r \in Req, V!Interrupt(r)
  PROVE  VersionInv'
<1> USE DEF VersionInv
<1> DEFINE v == task[r].version
<1>1. task[r] \in V!VersionRequest /\ V!Idle \in V!VersionRequest /\ V!Idle.op = "idle"
  BY DEF V!TypeOK, V!Idle, V!VersionRequest
<1>2. /\ broken' = broken \cup ({v} \ {None}) /\ task' = [task EXCEPT ![r] = V!Idle] /\ faults' = faults + 1
      /\ \/ UNCHANGED files
         \/ task[r].op = "insert" /\ \E part \in SUBSET task[r].read : files' = [files EXCEPT ![v] = part]
         \/ task[r].op = "files" /\ \E part \in SUBSET files[v] : files' = [files EXCEPT ![v] = part]
      /\ UNCHANGED <<texts, barred, header, snap, crossed, started>>
  BY DEF V!Interrupt, V!End
<1>3. v \in Release \cup {None} /\ (task[r].op \in {"insert", "files", "header"} => v \in Release /\ v # None)
  BY <1>1, VersionAssumption DEF V!VersionRequest, RequestsKnow
<1>4. PICK part \in SUBSET Path :
        /\ v \in Release => files' = [files EXCEPT ![v] = part]
        /\ v \notin Release => files' = files
        /\ task[r].op # "insert" /\ v \in Release => part \subseteq files[v]
  <2>1. CASE UNCHANGED files
    BY <1>2, <2>1 DEF V!TypeOK
  <2>2. CASE task[r].op = "insert" /\ \E part \in SUBSET task[r].read : files' = [files EXCEPT ![v] = part]
    BY <1>1, <1>3, <2>2 DEF V!VersionRequest
  <2>3. CASE task[r].op = "files" /\ \E part \in SUBSET files[v] : files' = [files EXCEPT ![v] = part]
    BY <1>3, <2>3 DEF V!TypeOK
  <2>4. QED
    BY <1>2, <2>1, <2>2, <2>3
<1>5. task[r].op = "insert" => V!Publishing(v)
  BY DEF V!Publishing
<1> HIDE DEF v
<1>6. V!TypeOK'
  BY <1>1, <1>2, <1>3, <1>4 DEF V!TypeOK
<1>7. ASSUME NEW w \in Release
      PROVE  /\ V!Publishing(w)' => V!Publishing(w)
             /\ V!Removing(w)' => V!Removing(w)
             /\ w # v => (V!Publishing(w) => V!Publishing(w)') /\ (V!Removing(w) => V!Removing(w)')
             /\ task[r].op # "insert" => (V!Publishing(w) => V!Publishing(w)')
  BY <1>1, <1>2 DEF V!Publishing, V!Removing, V!TypeOK, v
<1>8. v \in Release /\ task[r].op = "insert" /\ v \notin crossed => header[v] # None /\ ~V!Removing(v)
  BY <1>5 DEF Apart
<1>9. RequestsKnow'
  <2>1. \A q \in Req : task[q].op = "header" /\ task[q].version = v /\ v \in Release => V!Removing(v)
    BY DEF V!Removing
  <2>2. QED
    BY <1>1, <1>2, <1>3, <1>4, <1>8, <2>1 DEF RequestsKnow, V!TypeOK
<1>10. HeadersCount' /\ Apart'
  BY <1>2, <1>7 DEF HeadersCount, Apart
<1>11. v \in Release => v \in broken'
  BY <1>2, VersionAssumption
<1>12. FilesFrozen'
  BY <1>2, <1>4, <1>7, <1>8, <1>11 DEF FilesFrozen, V!TypeOK
<1>13. QED
  BY <1>6, <1>9, <1>10, <1>12

LEMMA VersionStep ==
  ASSUME VersionInv, [V!Next]_(V!vars)
  PROVE  VersionInv'
<1> USE DEF VersionInv
<1>1. CASE (\E p \in Path : V!Edit(p)) \/ UNCHANGED V!vars
  <2>1. UNCHANGED <<barred, header, files, task, snap, crossed, broken, faults>>
    BY <1>1 DEF V!Edit, V!vars
  <2>2. texts' \subseteq Path /\ started' \in Nat
    BY <1>1 DEF V!Edit, V!vars, V!TypeOK
  <2>3. V!TypeOK'
    BY <2>1, <2>2 DEF V!TypeOK
  <2>4. RequestsKnow' /\ HeadersCount' /\ Apart' /\ FilesFrozen'
    BY <2>1 DEF RequestsKnow, HeadersCount, Apart, FilesFrozen, V!Publishing, V!Removing
  <2>5. QED
    BY <2>3, <2>4
<1>2. QED
  BY <1>1, LookKeeps, PublishKeeps, RemoveKeeps, InterruptKeeps DEF V!Next

VersionSafe == focus = "versions" => VersionInv

LEMMA VersionAlways == FocusSpec => []VersionSafe
<1>1. FocusInit => VersionSafe
  BY VersionInit DEF FocusInit, VersionSafe
<1>2. VersionSafe /\ [FocusNext]_focusVars => VersionSafe'
  BY VersionStep, FocusStays DEF VersionSafe
<1>3. QED
  BY <1>1, <1>2, PTL DEF FocusSpec

\* A version of doc-versions.service.ts that is listed holds every document its
\* publication read; and what no header names any more has no files left, even
\* when removals fail half way, unless a removal overtook the publication.
THEOREM VersionsSafe == FocusSpec => []VersionsWhole
<1>1. VersionInv => V!VersionsWhole
  <2> SUFFICES ASSUME VersionInv, NEW v \in Release
               PROVE  /\ header[v] # None /\ ~V!Publishing(v) /\ ~V!Removing(v) /\ v \notin broken
                           => /\ V!ListDocs(v) = snap[v] \ barred /\ header[v].docCount = Cardinality(files[v])
                              /\ \A p \in snap[v] : V!GetDoc(v, p) <=> p \in V!ListDocs(v)
                      /\ header[v] = None /\ ~V!Publishing(v) /\ v \notin crossed => files[v] = {}
    BY SameCardinality DEF V!VersionsWhole
  <2>1. QED
    BY DEF VersionInv, FilesFrozen, HeadersCount, V!ListDocs, V!GetDoc
<1>2. VersionSafe => VersionsWhole
  BY <1>1 DEF VersionSafe, VersionsWhole
<1>3. QED
  BY <1>2, VersionAlways, PTL

-----------------------------------------------------------------------------
(* Records: their types, who is told of a verdict, and the analytics. *)

LEMMA ClampType == \A ms \in {-1, MaxMs + 1} : R!Clamp(ms) \in 0..MaxMs
<1> SUFFICES ASSUME NEW ms \in {-1, MaxMs + 1}
             PROVE  R!Clamp(ms) \in 0..MaxMs
  OBVIOUS
<1>1. MaxMs \in Nat /\ ms \in Int
  BY BoundsAssumption
<1>2. \A x, y \in Int : R!Min({x, y}) = IF x <= y THEN x ELSE y
  BY DEF R!Min
<1>3. \A x, y \in Int : R!Max({x, y}) = IF x >= y THEN x ELSE y
  BY DEF R!Max
<1> DEFINE low == R!Min({ms, MaxMs})
<1>4. low = IF ms <= MaxMs THEN ms ELSE MaxMs
  BY <1>1, <1>2
<1> HIDE DEF low
<1>5. R!Max({0, low}) = IF 0 >= low THEN 0 ELSE low
  BY <1>1, <1>3, <1>4
<1>6. R!Clamp(ms) = R!Max({0, low})
  BY DEF R!Clamp, low
<1>7. QED
  BY <1>1, <1>4, <1>5, <1>6

LEMMA RecordsInit ==
  ASSUME R!Init
  PROVE  R!TypeOK
<1>1. decision \in R!Decision /\ R!NoLink \in R!Links
  BY DEF R!Init, R!Decision, R!Links
<1>2. QED
  BY <1>1 DEF R!Init, R!TypeOK, R!Ages, R!Verdicts

LEMMA RecordsStep ==
  ASSUME R!TypeOK, [R!Next]_(R!vars)
  PROVE  R!TypeOK'
<1> USE DEF R!TypeOK
<1>1. CASE UNCHANGED R!vars
  BY <1>1 DEF R!vars
<1>2. CASE R!Document
  BY <1>2 DEF R!Document, R!SavePage, R!DeletePage, R!MovePage, R!Change, R!Shift, R!Pair, R!Ages
<1>3. CASE R!Reading
  <2>1. ASSUME NEW u \in Reader \cup {None}, NEW p \in Path, R!RecordRead(u, p)
        PROVE  R!TypeOK'
    <3>1. PICK ms \in {-1, MaxMs + 1} :
            reads' = reads \cup {[user |-> u, path |-> p, recent |-> TRUE, ms |-> R!Clamp(ms)]}
      BY <2>1 DEF R!RecordRead
    <3>2. [user |-> u, path |-> p, recent |-> TRUE, ms |-> R!Clamp(ms)] \in R!Read
      BY ClampType DEF R!Read
    <3>3. QED
      <4>1. reads' \subseteq R!Read
        BY <3>1, <3>2
      <4>2. UNCHANGED <<age, veiled, favorite, watch, review, link, decision, told, faults>> /\ started' = started + 1
        BY <2>1 DEF R!RecordRead, R!Change
      <4>3. QED
        BY <4>1, <4>2
  <2>2. ASSUME NEW u \in Reader, NEW p \in Path, R!SetFavorite(u, p) \/ R!SetWatch(u, p)
        PROVE  R!TypeOK'
    BY <2>2 DEF R!SetFavorite, R!SetWatch, R!Change, R!Flip, R!Pair
  <2>3. QED
    BY <1>3, <2>1, <2>2 DEF R!Reading
<1>4. CASE R!Reviewing \/ R!NotifyReview \/ R!Fail
  <2>1. ASSUME NEW u \in Reader, NEW p \in Path, R!Decide(u, p)
        PROVE  R!TypeOK'
    <3>1. R!Watchers(p) \subseteq Reader
      BY DEF R!Watchers, R!Pair
    <3>2. decision' \in R!Decision
      BY <2>1, <3>1 DEF R!Decide, R!Decision
    <3>3. QED
      BY <2>1, <3>2 DEF R!Decide, R!Change, R!Verdicts
  <2>2. ASSUME NEW p \in Path, R!ResetReview(p)
        PROVE  R!TypeOK'
    BY <2>2 DEF R!ResetReview, R!Change, R!Verdicts
  <2>3. CASE R!NotifyReview \/ R!Fail
    <3>1. decision' \in R!Decision
      BY <2>3 DEF R!NotifyReview, R!Fail, R!Decision
    <3>2. R!Watchers(decision.path) \subseteq Reader
      BY DEF R!Watchers, R!Pair
    <3>3. QED
      BY <2>3, <3>1, <3>2 DEF R!NotifyReview, R!Fail
  <2>4. QED
    BY <1>4, <2>1, <2>2, <2>3 DEF R!Reviewing
<1>5. CASE R!Sharing
  <2>1. PICK l \in Link : R!RevokeShareLink(l) \/ \E p \in Path : R!CreateShareLink(l, p)
    BY <1>5 DEF R!Sharing
  <2>2. CASE R!RevokeShareLink(l)
    <3>1. link[l] \in [path: Path, revoked: BOOLEAN, expired: BOOLEAN]
      BY <2>2 DEF R!RevokeShareLink, R!Links
    <3>2. [link[l] EXCEPT !.revoked = TRUE] \in R!Links
      BY <3>1 DEF R!Links
    <3>3. link' \in [Link -> R!Links]
      BY <2>2, <3>2 DEF R!RevokeShareLink
    <3>4. UNCHANGED <<age, veiled, favorite, watch, reads, review, decision, told, faults>> /\ started' = started + 1
      BY <2>2 DEF R!RevokeShareLink, R!Change
    <3>5. QED
      BY <3>3, <3>4
  <2>3. CASE \E p \in Path : R!CreateShareLink(l, p)
    <3>1. PICK p \in Path : R!CreateShareLink(l, p)
      BY <2>3
    <3>2. [path |-> p, revoked |-> FALSE, expired |-> FALSE] \in R!Links
      BY DEF R!Links
    <3>3. link' \in [Link -> R!Links]
      BY <3>1, <3>2 DEF R!CreateShareLink
    <3>4. UNCHANGED <<age, veiled, favorite, watch, reads, review, decision, told, faults>> /\ started' = started + 1
      BY <3>1 DEF R!CreateShareLink, R!Change
    <3>5. QED
      BY <3>3, <3>4
  <2>4. QED
    BY <2>1, <2>2, <2>3
<1>6. CASE R!DaysPass
  <2>1. \A x \in R!Read : [x EXCEPT !.recent = FALSE] \in R!Read
    BY DEF R!Read
  <2>2. \A x \in R!Links : x # R!NoLink => [x EXCEPT !.expired = TRUE] \in R!Links
    BY DEF R!Links
  <2>3. link' \in [Link -> R!Links]
    BY <1>6, <2>2 DEF R!DaysPass, R!Links
  <2>4. reads' \subseteq R!Read
    BY <1>6, <2>1 DEF R!DaysPass
  <2>5. age' \in [Path -> R!Ages]
    BY <1>6 DEF R!DaysPass, R!Ages
  <2>6. QED
    BY <1>6, <2>3, <2>4, <2>5 DEF R!DaysPass, R!Change
<1>7. QED
  BY <1>1, <1>2, <1>3, <1>4, <1>5, <1>6 DEF R!Next

\* Every event was read at one step.
LEMMA ReadsFinite ==
  ASSUME R!TypeOK, IsFiniteSet(reads), [R!Next]_(R!vars)
  PROVE  IsFiniteSet(reads')
<1>1. CASE \E u \in Reader \cup {None}, p \in Path : R!RecordRead(u, p)
  <2>1. PICK x : reads' = reads \cup {x}
    BY <1>1 DEF R!RecordRead
  <2>2. QED
    BY <2>1, FS_AddElement
<1>2. CASE R!DaysPass
  <2> DEFINE f == [x \in reads |-> [x EXCEPT !.recent = FALSE]]
  <2>1. f \in Surjection(reads, reads')
    BY <1>2 DEF R!DaysPass, Surjection
  <2> HIDE DEF f
  <2>2. QED
    BY <2>1, FS_Surjection
<1>3. CASE reads' = reads
  BY <1>3
<1>4. QED
  <2>1. UNCHANGED R!vars \/ R!Document \/ R!Reviewing \/ R!NotifyReview \/ R!Sharing \/ R!Fail => reads' = reads
    BY DEF R!vars, R!Document, R!SavePage, R!DeletePage, R!MovePage, R!Reviewing, R!ResetReview, R!Decide,
           R!NotifyReview, R!Sharing, R!RevokeShareLink, R!CreateShareLink, R!Fail
  <2>2. R!Reading => reads' = reads \/ \E u \in Reader \cup {None}, p \in Path : R!RecordRead(u, p)
    BY DEF R!Reading, R!SetFavorite, R!SetWatch
  <2>3. QED
    BY <1>1, <1>2, <1>3, <2>1, <2>2 DEF R!Next

RecordsSafe == focus = "records" => R!TypeOK /\ IsFiniteSet(reads)

LEMMA RecordsAlways == FocusSpec => []RecordsSafe
<1>1. FocusInit => RecordsSafe
  <2>1. R!Init => IsFiniteSet(reads)
    BY FS_EmptySet DEF R!Init
  <2>2. QED
    BY <2>1, RecordsInit DEF FocusInit, RecordsSafe
<1>2. RecordsSafe /\ [FocusNext]_focusVars => RecordsSafe'
  BY RecordsStep, ReadsFinite, FocusStays DEF RecordsSafe
<1>3. QED
  BY <1>1, <1>2, PTL DEF FocusSpec

\* setReviewStatus of documents.service.ts tells everybody who watched when the
\* verdict was stored and still does, and never the reviewer.
THEOREM VerdictSafe == FocusSpec => VerdictTold
<1>1. RecordsSafe /\ [FocusNext]_focusVars => [focus = "records" => R!VerdictStep]_<<decision, told, faults>>
  <2> SUFFICES ASSUME RecordsSafe, focus = "records", [FocusNext]_focusVars, decision.pc = "notify",
                      decision'.pc = "idle", faults' = faults
               PROVE  /\ (decision.due \cap R!Watchers(decision.path)) \ {decision.by} \subseteq told'
                      /\ decision.by \notin told'
    BY DEF R!VerdictStep
  <2>1. [R!Next]_(R!vars) /\ faults \in Nat
    BY FocusStays DEF RecordsSafe, R!TypeOK
  <2>2. ~(UNCHANGED R!vars) /\ ~R!Document /\ ~R!Sharing /\ ~R!DaysPass
    BY DEF R!vars, R!Document, R!Sharing, R!SavePage, R!DeletePage, R!MovePage, R!RevokeShareLink, R!CreateShareLink, R!DaysPass
  <2>3. ~R!Reading /\ ~R!Reviewing
    BY DEF R!Reading, R!Reviewing, R!SetFavorite, R!SetWatch, R!RecordRead, R!ResetReview, R!Decide
  <2>4. ~R!Fail
    BY <2>1 DEF R!Fail
  <2>5. R!NotifyReview
    BY <2>1, <2>2, <2>3, <2>4 DEF R!Next
  <2>6. QED
    BY <2>5 DEF R!NotifyReview
<1>2. QED
  BY <1>1, RecordsAlways, PTL DEF FocusSpec, VerdictTold

\* SumOf and Cardinality by the names they have in the instance.
LEMMA SameSum == \A f, S : R!SumOf(f, S) = SumOf(f, S) /\ R!Cardinality(S) = Cardinality(S)
BY DEF R!SumOf, SumOf, R!MapThenSumSet, MapThenSumSet, R!MapThenFoldSet, MapThenFoldSet, R!Cardinality, Cardinality

LEMMA MeanReadTime ==
  ASSUME R!TypeOK, IsFiniteSet(reads)
  PROVE  R!AvgReadTime \in 0..MaxMs
<1> DEFINE T == R!Timed
           f == [x \in T |-> x.ms]
<1>1. IsFiniteSet(T) /\ T \subseteq R!Read
  BY FS_Subset DEF R!Timed, R!TypeOK
<1>2. MaxMs \in Nat /\ \A x \in T : f[x] \in 0..MaxMs
  BY <1>1, BoundsAssumption DEF R!Read
<1>3. R!AvgReadTime = IF T = {} THEN 0 ELSE SumOf(f, T) \div Cardinality(T)
  BY SameSum DEF R!AvgReadTime
<1> HIDE DEF T, f
<1>4. SumOf(f, T) \in Nat /\ SumOf(f, T) <= MaxMs * Cardinality(T)
  BY <1>1, <1>2, SumBounds
<1>5. T # {} => Cardinality(T) \in Nat \ {0}
  BY <1>1, FS_CardinalityType, FS_EmptySet
<1>6. T # {} => SumOf(f, T) \div Cardinality(T) \in 0..MaxMs
  BY <1>2, <1>4, <1>5, MeanBounds
<1>7. QED
  BY <1>2, <1>3, <1>6

\* The two lists of the analytics page cover the workspace and do not overlap,
\* and the average reading time is one that can be
\* (get of content-analytics.service.ts, getStats of documents.service.ts).
THEOREM AnalyticsSafe == FocusSpec => []AnalyticsCover
<1>1. RecordsSafe => AnalyticsCover
  BY MeanReadTime DEF RecordsSafe, AnalyticsCover, R!AnalyticsCover, R!DeadPages
<1>2. QED
  BY <1>1, RecordsAlways, PTL

-----------------------------------------------------------------------------
(* Inbox: who is told, and who is mailed. *)

\* Where a call of notifyUserIds has come, with the inbox of those it tells.  A
\* call that has stopped with faults = 0 has told everybody.
Noted(n) ==
  /\ \A m \in Req : note[n].after = m => note[m].pc # "new" /\ (n # m => note[n].to \cap note[m].to = {})
  /\ note[n].pc = "new" => note[n].after = None
  /\ note[n].actor \notin note[n].to /\ note[n].mail \subseteq note[n].to
  /\ note[n].mail = {} \/ note[n].pc \in {"enqueue", "done"}
  /\ \A u \in Recipient : inbox[u][n] # "none" => u \in note[n].to /\ note[n].pc \in {"mail", "enqueue", "done"}
  /\ note[n].pc \in {"mail", "enqueue"} \/ (note[n].pc = "done" /\ faults = 0) =>
       \A u \in note[n].to : inbox[u][n] # "none"

\* Who has been mailed by the job, in the attempts it has had.
Mailed(n) ==
  /\ job[n].state # "none" =>
       note[n].pc = "done" /\ \A u \in job[n].to : u \in note[n].to /\ inbox[u][n] # "none"
  /\ job[n].left \subseteq job[n].to
  /\ \A u \in Recipient : mails[n][u] <= job[n].attempts /\ (u \notin job[n].to => mails[n][u] = 0)
  /\ job[n].state \in {"none", "pending"} => job[n].attempts < MaxAttempts
  /\ job[n].state = "running" =>
       /\ \A u \in job[n].left : mails[n][u] < job[n].attempts
       /\ \A u \in job[n].to \ job[n].left : mails[n][u] >= 1
  /\ job[n].state = "completed" => \A u \in job[n].to : mails[n][u] >= 1
  /\ job[n].state = "none" => job[n] = I!NoJob

InboxInv ==
  /\ I!TypeOK
  /\ \A n \in Req : Noted(n) /\ Mailed(n)
  /\ digest # None => \A u \in digest : digests[u] = 0

LEMMA InboxInit ==
  ASSUME I!Init
  PROVE  InboxInv
<1>1. I!TypeOK
  <2>1. I!Fresh \in I!NoteReq
    BY DEF I!NoteReq, I!Fresh, I!Kinds
  <2>2. I!NoJob \in I!MailJob
    BY BoundsAssumption DEF I!MailJob, I!NoJob
  <2>3. [email: {TRUE}, digest: {TRUE}, muted: SUBSET I!Mutable] \subseteq I!Pref
    BY DEF I!Pref
  <2>4. note \in [Req -> I!NoteReq] /\ job \in [Req -> I!MailJob] /\ pref \in [Recipient -> I!Pref]
    BY <2>1, <2>2, <2>3 DEF I!Init
  <2>5. QED
    BY <2>4 DEF I!Init, I!TypeOK
<1>2. \A n \in Req : Noted(n) /\ Mailed(n)
  BY InboxAssumption, BoundsAssumption DEF I!Init, Noted, Mailed, I!Fresh, I!NoJob
<1>3. QED
  BY <1>1, <1>2 DEF InboxInv, I!Init

\* A call of notifyUserIds begins, alone or for a comment and its mentions.
LEMMA NotifyStarts ==
  ASSUME InboxInv, NEW n \in Req, I!Notify(n) \/ \E m \in Req : I!AddComment(n, m)
  PROVE  InboxInv'
<1> USE DEF InboxInv
<1>1. UNCHANGED <<pref, inbox, job, mails, digest, digests, started, faults>>
  BY DEF I!Notify, I!AddComment
<1>2. note \in [Req -> I!NoteReq] /\ note[n].pc = "new"
  BY DEF I!TypeOK, I!Notify, I!AddComment, I!At
<1>3. CASE I!Notify(n)
  <2>1. PICK to \in SUBSET Recipient, actor \in Recipient \cup {None}, kd \in I!Kinds :
          note' = [note EXCEPT ![n] = I!Told(kd, actor, to \ {actor})]
    BY <1>3 DEF I!Notify
  <2> DEFINE x == I!Told(kd, actor, to \ {actor})
  <2>2. /\ x \in I!NoteReq /\ x.after = None /\ x.to = to \ {actor} /\ x.actor = actor /\ x.mail = {}
        /\ x.pc \in {"insert", "mutes"}
    BY DEF I!Told, I!NoteReq, I!Kinds
  <2>3. /\ note' \in [Req -> I!NoteReq] /\ note'[n] = x
        /\ \A k \in Req \ {n} : note'[k] = note[k]
    BY <1>2, <2>1, <2>2
  <2> HIDE DEF x
  <2>4. \A k \in Req : note[k].after = n => k = n
    BY <1>2 DEF Noted
  <2>5. ASSUME NEW k \in Req
        PROVE  Noted(k)'
    <3>1. Noted(k) /\ Noted(n)
      OBVIOUS
    <3>2. CASE k = n
      BY InboxAssumption, <1>1, <1>2, <2>2, <2>3, <3>1, <3>2 DEF Noted, I!TypeOK
    <3>3. CASE k # n
      BY <1>1, <2>2, <2>3, <2>4, <3>1, <3>3 DEF Noted
    <3>4. QED
      BY <3>2, <3>3
  <2>6. \A k \in Req : Mailed(k)'
    BY <1>1, <1>2, <2>3 DEF Mailed
  <2>7. QED
    BY <1>1, <2>3, <2>5, <2>6 DEF I!TypeOK
<1>4. CASE \E m \in Req : I!AddComment(n, m)
  <2>1. PICK m \in Req : I!AddComment(n, m)
    BY <1>4
  <2>2. PICK to \in SUBSET Recipient, actor \in Recipient \cup {None} :
          \E mentions \in SUBSET (Recipient \ {actor}) \ {{}} :
            note' = [note EXCEPT
              ![n] = I!Told("comment", actor, to \ (mentions \cup {actor})),
              ![m] = [I!Told("mention", actor, mentions) EXCEPT !.pc = "waiting", !.after = n]]
    BY <2>1 DEF I!AddComment
  <2>3. PICK mentions \in SUBSET (Recipient \ {actor}) :
            note' = [note EXCEPT
              ![n] = I!Told("comment", actor, to \ (mentions \cup {actor})),
              ![m] = [I!Told("mention", actor, mentions) EXCEPT !.pc = "waiting", !.after = n]]
    BY <2>2
  <2> DEFINE x == I!Told("comment", actor, to \ (mentions \cup {actor}))
             y == [I!Told("mention", actor, mentions) EXCEPT !.pc = "waiting", !.after = n]
  <2>4. /\ x \in I!NoteReq /\ x.after = None /\ x.to = to \ (mentions \cup {actor}) /\ x.actor = actor
        /\ x.mail = {} /\ x.pc = "mutes"
    BY DEF I!Told, I!NoteReq, I!Kinds
  <2>5. /\ y \in I!NoteReq /\ y.after = n /\ y.to = mentions /\ y.actor = actor
        /\ y.mail = {} /\ y.pc = "waiting"
    BY DEF I!Told, I!NoteReq, I!Kinds
  <2>6. n # m /\ note[m].pc = "new"
    BY <2>1 DEF I!AddComment, I!At
  <2>7. /\ note' \in [Req -> I!NoteReq] /\ note'[n] = x /\ note'[m] = y
        /\ \A k \in Req \ {n, m} : note'[k] = note[k]
    BY <1>2, <2>3, <2>4, <2>5, <2>6
  <2> HIDE DEF x, y
  <2>8. \A k \in Req : note[k].after \notin {n, m} \/ k \in {n, m}
    BY <1>2, <2>6 DEF Noted
  <2>9. ASSUME NEW k \in Req
        PROVE  Noted(k)'
    <3>1. Noted(k) /\ Noted(n) /\ Noted(m)
      OBVIOUS
    <3>2. CASE k = n
      BY InboxAssumption, <1>1, <1>2, <2>4, <2>7, <3>1, <3>2 DEF Noted, I!TypeOK
    <3>3. CASE k = m
      BY <1>1, <1>2, <2>4, <2>5, <2>6, <2>7, <3>1, <3>3 DEF Noted, I!TypeOK
    <3>4. CASE k \notin {n, m}
      BY <1>1, <2>4, <2>5, <2>7, <2>8, <3>1, <3>4 DEF Noted
    <3>5. QED
      BY <3>2, <3>3, <3>4
  <2>10. \A k \in Req : Mailed(k)'
    BY <1>1, <1>2, <2>6, <2>7 DEF Mailed
  <2>11. QED
    BY <1>1, <2>7, <2>9, <2>10 DEF I!TypeOK
<1>5. QED
  BY <1>3, <1>4

\* The call n goes on to x, which tells at most whom it told before.
LEMMA NotesKeep ==
  ASSUME InboxInv, NEW n \in Req, NEW x \in I!NoteReq, note' = [note EXCEPT ![n] = x],
         UNCHANGED <<pref, inbox, job, mails, digest, digests, started, faults>>,
         note[n].pc \notin {"new", "done"}, x.pc # "new",
         x.to \subseteq note[n].to, x.mail \subseteq x.to, x.after = note[n].after, x.actor = note[n].actor,
         note[n].pc \in {"mail", "enqueue"} => x.pc \in {"mail", "enqueue", "done"} /\ x.to = note[n].to,
         note[n].pc \notin {"mail", "enqueue"} => x.pc \in {"insert", "mutes"} \/ x.to = {},
         x.mail = {} \/ x.pc \in {"enqueue", "done"}
  PROVE  InboxInv'
<1> USE DEF InboxInv
<1>1. /\ note' \in [Req -> I!NoteReq] /\ note'[n] = x
      /\ \A k \in Req \ {n} : note'[k] = note[k]
  BY DEF I!TypeOK
<1>2. ASSUME NEW k \in Req
      PROVE  Noted(k)'
  <2>1. Noted(k) /\ Noted(n)
    OBVIOUS
  <2>2. CASE k = n
    BY <1>1, <2>1, <2>2 DEF Noted
  <2>3. CASE k # n
    BY <1>1, <2>1, <2>3 DEF Noted
  <2>4. QED
    BY <2>2, <2>3
<1>3. \A k \in Req : Mailed(k)'
  BY <1>1 DEF Mailed
<1>4. QED
  BY <1>1, <1>2, <1>3 DEF I!TypeOK

LEMMA NotifyGoesOn ==
  ASSUME InboxInv, NEW n \in Req, I!Mention(n) \/ I!DropMuting(n) \/ I!ChooseMailed(n)
  PROVE  InboxInv'
<1>1. note \in [Req -> I!NoteReq] /\ Noted(n) /\ note[n] \in I!NoteReq
  BY DEF InboxInv, I!TypeOK
<1>2. UNCHANGED <<pref, inbox, job, mails, digest, digests, started, faults>>
  BY DEF I!Mention, I!DropMuting, I!ChooseMailed
<1>3. CASE I!Mention(n)
  <2> DEFINE x == [note[n] EXCEPT !.pc = "insert"]
  <2>1. note' = [note EXCEPT ![n] = x] /\ note[n].pc = "waiting"
    BY <1>1, <1>3 DEF I!Mention, I!Go, I!At
  <2>2. x \in I!NoteReq
    BY <1>1 DEF I!NoteReq
  <2>3. /\ x.pc = "insert" /\ x.to = note[n].to /\ x.mail = note[n].mail /\ x.after = note[n].after
        /\ x.actor = note[n].actor
    BY <1>1 DEF I!NoteReq
  <2> HIDE DEF x
  <2>4. QED
    BY <1>1, <1>2, <2>1, <2>2, <2>3, NotesKeep DEF Noted
<1>4. CASE I!DropMuting(n)
  <2> DEFINE to == {u \in note[n].to : note[n].kind \notin pref[u].muted}
             x == [note[n] EXCEPT !.to = to, !.pc = IF to = {} THEN "done" ELSE "insert"]
  <2>1. note' = [note EXCEPT ![n] = x] /\ note[n].pc = "mutes"
    BY <1>1, <1>4 DEF I!DropMuting, I!At
  <2>2. x \in I!NoteReq
    BY <1>1 DEF I!NoteReq
  <2>3. /\ x.pc = (IF to = {} THEN "done" ELSE "insert") /\ x.to = to /\ x.mail = note[n].mail
        /\ x.after = note[n].after /\ x.actor = note[n].actor
    BY <1>1 DEF I!NoteReq
  <2>4. to \subseteq note[n].to
    OBVIOUS
  <2> HIDE DEF x, to
  <2>5. note[n].mail = {}
    BY <1>1, <2>1 DEF Noted
  <2>6. QED
    BY <1>1, <1>2, <2>1, <2>2, <2>3, <2>4, <2>5, NotesKeep
<1>5. CASE I!ChooseMailed(n)
  <2> DEFINE mail == {u \in note[n].to : pref[u].email}
             x == [note[n] EXCEPT !.mail = mail, !.pc = IF mail = {} THEN "done" ELSE "enqueue"]
  <2>1. note' = [note EXCEPT ![n] = x] /\ note[n].pc = "mail"
    BY <1>1, <1>5 DEF I!ChooseMailed, I!At
  <2>2. x \in I!NoteReq
    BY <1>1 DEF I!NoteReq
  <2>3. /\ x.pc = (IF mail = {} THEN "done" ELSE "enqueue") /\ x.to = note[n].to /\ x.mail = mail
        /\ x.after = note[n].after /\ x.actor = note[n].actor
    BY <1>1 DEF I!NoteReq
  <2>4. mail \subseteq note[n].to
    OBVIOUS
  <2> HIDE DEF x, mail
  <2>5. QED
    BY <1>1, <1>2, <2>1, <2>2, <2>3, <2>4, NotesKeep
<1>6. QED
  BY <1>3, <1>4, <1>5

\* A call whose pc alone changes.
LEMMA NoteMoves ==
  ASSUME note \in [Req -> I!NoteReq], NEW n \in Req, NEW pc \in {"mail", "done"}, I!Go(n, pc)
  PROVE  /\ note' \in [Req -> I!NoteReq] /\ \A k \in Req \ {n} : note'[k] = note[k]
         /\ note'[n].pc = pc /\ note'[n].to = note[n].to /\ note'[n].mail = note[n].mail
         /\ note'[n].after = note[n].after /\ note'[n].actor = note[n].actor /\ note[n].to \subseteq Recipient
<1> DEFINE x == [note[n] EXCEPT !.pc = pc]
<1>1. note[n] \in I!NoteReq
  OBVIOUS
<1>2. /\ x \in I!NoteReq /\ x.pc = pc /\ x.to = note[n].to /\ x.mail = note[n].mail
      /\ x.after = note[n].after /\ x.actor = note[n].actor /\ note[n].to \subseteq Recipient
  BY <1>1 DEF I!NoteReq
<1>3. note' = [note EXCEPT ![n] = x]
  BY DEF I!Go
<1> HIDE DEF x
<1>4. QED
  BY <1>2, <1>3

LEMMA NoticesKeep ==
  ASSUME InboxInv, NEW n \in Req, I!InsertNotices(n)
  PROVE  InboxInv'
<1> USE DEF InboxInv
<1>1. note[n].pc = "insert" /\ UNCHANGED <<pref, job, mails, digest, digests, started, faults>>
  BY DEF I!InsertNotices, I!At
<1>2. /\ inbox' \in [Recipient -> [Req -> {"none", "unread", "read"}]]
      /\ \A u \in Recipient : inbox'[u][n] = IF u \in note[n].to THEN "unread" ELSE inbox[u][n]
      /\ \A u \in Recipient, k \in Req \ {n} : inbox'[u][k] = inbox[u][k]
  BY DEF I!InsertNotices, I!TypeOK
<1>3. note' \in [Req -> I!NoteReq] /\ \A k \in Req \ {n} : note'[k] = note[k]
  BY NoteMoves DEF I!InsertNotices, I!TypeOK
<1>4. /\ note'[n].pc = "mail" /\ note'[n].to = note[n].to /\ note'[n].mail = note[n].mail
      /\ note'[n].after = note[n].after /\ note'[n].actor = note[n].actor /\ note[n].to \subseteq Recipient
  BY NoteMoves DEF I!InsertNotices, I!TypeOK
<1>5. ASSUME NEW k \in Req
      PROVE  Noted(k)'
  <2>1. Noted(k) /\ Noted(n) /\ note[k].to \subseteq Recipient
    BY DEF I!TypeOK, I!NoteReq
  <2>2. CASE k = n
    BY <1>1, <1>2, <1>3, <1>4, <2>1, <2>2 DEF Noted
  <2>3. CASE k # n
    BY <1>1, <1>2, <1>3, <1>4, <2>1, <2>3 DEF Noted
  <2>4. QED
    BY <2>2, <2>3
<1>6. ASSUME NEW k \in Req
      PROVE  Mailed(k)'
  <2>1. Mailed(k) /\ note[k].to \subseteq Recipient
    BY DEF I!TypeOK, I!NoteReq
  <2>2. QED
    BY <1>1, <1>2, <1>3, <2>1 DEF Mailed
<1>7. QED
  BY <1>1, <1>2, <1>3, <1>5, <1>6 DEF I!TypeOK

LEMMA EnqueueKeeps ==
  ASSUME InboxInv, NEW n \in Req, I!EnqueueMail(n)
  PROVE  InboxInv'
<1> USE DEF InboxInv
<1>1. note[n].pc = "enqueue" /\ UNCHANGED <<pref, inbox, mails, digest, digests, started, faults>>
  BY DEF I!EnqueueMail, I!At
<1>2. note' \in [Req -> I!NoteReq] /\ \A k \in Req \ {n} : note'[k] = note[k]
  BY NoteMoves DEF I!EnqueueMail, I!TypeOK
<1>3. /\ note'[n].pc = "done" /\ note'[n].to = note[n].to /\ note'[n].mail = note[n].mail
      /\ note'[n].after = note[n].after /\ note'[n].actor = note[n].actor /\ note[n].to \subseteq Recipient
  BY NoteMoves DEF I!EnqueueMail, I!TypeOK
<1> DEFINE x == [I!NoJob EXCEPT !.state = "pending", !.to = note[n].mail]
<1>4. x.state = "pending" /\ x.to = note[n].mail /\ x.left = {} /\ x.attempts = 0
  BY DEF I!NoJob
<1>5. x \in I!MailJob
  <2>1. note[n].mail \in SUBSET Recipient
    BY DEF I!TypeOK, I!NoteReq
  <2>2. 0 \in 0..MaxAttempts
    BY BoundsAssumption
  <2>3. I!NoJob \in I!MailJob
    BY <2>2 DEF I!NoJob, I!MailJob
  <2>4. QED
    BY <2>1, <2>3 DEF I!MailJob
<1>6. job' = [job EXCEPT ![n] = x]
  BY DEF I!EnqueueMail
<1> HIDE DEF x
<1>7. job' \in [Req -> I!MailJob] /\ job'[n] = x /\ \A k \in Req \ {n} : job'[k] = job[k]
  BY <1>5, <1>6 DEF I!TypeOK
<1>8. ASSUME NEW k \in Req
      PROVE  Noted(k)'
  <2>1. Noted(k) /\ Noted(n)
    OBVIOUS
  <2>2. CASE k = n
    BY <1>1, <1>2, <1>3, <2>1, <2>2 DEF Noted
  <2>3. CASE k # n
    BY <1>1, <1>2, <1>3, <2>1, <2>3 DEF Noted
  <2>4. QED
    BY <2>2, <2>3
<1>9. ASSUME NEW k \in Req
      PROVE  Mailed(k)'
  <2>1. Mailed(k) /\ Noted(k)
    OBVIOUS
  <2>2. CASE k = n
    <3>1. job[n] = I!NoJob
      BY <1>1, <2>1, <2>2 DEF Mailed
    <3>2. \A u \in Recipient : mails[n][u] = 0
      BY <2>1, <2>2, <3>1 DEF Mailed, I!NoJob
    <3>3. 0 < MaxAttempts
      BY BoundsAssumption, InboxAssumption
    <3>4. QED
      BY <1>1, <1>3, <1>4, <1>7, <2>1, <2>2, <3>2, <3>3 DEF Mailed, Noted
  <2>3. CASE k # n
    BY <1>1, <1>2, <1>7, <2>1, <2>3 DEF Mailed
  <2>4. QED
    BY <2>2, <2>3
<1>10. QED
  BY <1>1, <1>2, <1>7, <1>8, <1>9 DEF I!TypeOK

LEMMA FailNotifyKeeps ==
  ASSUME InboxInv, NEW n \in Req, I!FailNotify(n)
  PROVE  InboxInv'
<1> USE DEF InboxInv
<1>1. UNCHANGED <<pref, inbox, job, mails, digest, digests, started>> /\ faults' = faults + 1 /\ faults \in Nat
  BY DEF I!FailNotify, I!TypeOK
<1> DEFINE Ended(k) == [note[k] EXCEPT !.pc = "done"]
<1>2. note' = [k \in Req |-> IF k = n \/ (note[k].after = n /\ ~I!At(n, "enqueue")) THEN Ended(k) ELSE note[k]]
      /\ note[n].pc # "new"
  BY DEF I!FailNotify
<1>3. \A k \in Req :
        /\ Ended(k) \in I!NoteReq /\ Ended(k).pc = "done" /\ Ended(k).to = note[k].to
        /\ Ended(k).mail = note[k].mail /\ Ended(k).after = note[k].after /\ Ended(k).actor = note[k].actor
  <2> SUFFICES ASSUME NEW k \in Req
               PROVE  /\ Ended(k) \in I!NoteReq /\ Ended(k).pc = "done" /\ Ended(k).to = note[k].to
                      /\ Ended(k).mail = note[k].mail /\ Ended(k).after = note[k].after /\ Ended(k).actor = note[k].actor
    OBVIOUS
  <2>1. note[k] \in I!NoteReq
    BY DEF I!TypeOK
  <2>2. QED
    BY <2>1 DEF I!NoteReq
<1> HIDE DEF Ended
<1>4. note' \in [Req -> I!NoteReq]
  BY <1>2, <1>3 DEF I!TypeOK
<1>5. \A k \in Req : note[k].after = n => note[k].pc # "new"
  BY InboxAssumption DEF Noted
<1>6. \A k \in Req :
        /\ note'[k].to = note[k].to /\ note'[k].mail = note[k].mail /\ note'[k].after = note[k].after
        /\ note'[k].actor = note[k].actor
        /\ \/ note'[k].pc = note[k].pc
           \/ note'[k].pc = "done" /\ note[k].pc # "new"
  BY <1>2, <1>3, <1>5
<1>7. ASSUME NEW k \in Req
      PROVE  Noted(k)' /\ Mailed(k)'
  <2>1. Noted(k) /\ Mailed(k)
    OBVIOUS
  <2>2. Noted(k)'
    BY <1>1, <1>6, <2>1 DEF Noted
  <2>3. Mailed(k)'
    BY <1>1, <1>6, <2>1 DEF Mailed
  <2>4. QED
    BY <2>2, <2>3
<1>8. QED
  BY <1>1, <1>4, <1>7 DEF I!TypeOK

\* The job n goes on to x and the mails of n to ms.
LEMMA JobKeeps ==
  ASSUME InboxInv, NEW n \in Req, NEW x \in I!MailJob, NEW ms \in [Recipient -> Nat],
         job' = [job EXCEPT ![n] = x], mails' = [mails EXCEPT ![n] = ms],
         UNCHANGED <<pref, inbox, note, digest, digests, started>>, faults' \in {faults, faults + 1},
         job[n].state # "none", x.state # "none", x.to = job[n].to, x.left \subseteq x.to,
         \A u \in Recipient : ms[u] <= x.attempts /\ (u \notin x.to => ms[u] = 0),
         x.state = "pending" => x.attempts < MaxAttempts,
         x.state = "running" => /\ \A u \in x.left : ms[u] < x.attempts
                                /\ \A u \in x.to \ x.left : ms[u] >= 1,
         x.state = "completed" => \A u \in x.to : ms[u] >= 1
  PROVE  InboxInv'
<1> USE DEF InboxInv
<1>1. /\ job' \in [Req -> I!MailJob] /\ job'[n] = x
      /\ \A k \in Req \ {n} : job'[k] = job[k]
  BY DEF I!TypeOK
<1>2. /\ mails' \in [Req -> [Recipient -> Nat]] /\ mails'[n] = ms
      /\ \A k \in Req \ {n} : mails'[k] = mails[k]
  BY DEF I!TypeOK
<1>3. faults \in Nat /\ faults' \in Nat /\ (faults' = 0 => faults = 0)
  BY DEF I!TypeOK
<1>4. ASSUME NEW k \in Req
      PROVE  Noted(k)' /\ Mailed(k)'
  <2>1. Noted(k) /\ Mailed(k)
    OBVIOUS
  <2>2. Noted(k)'
    BY <1>3, <2>1 DEF Noted
  <2>3. CASE k = n
    BY <1>1, <1>2, <2>1, <2>2, <2>3 DEF Mailed
  <2>4. CASE k # n
    BY <1>1, <1>2, <2>1, <2>2, <2>4 DEF Mailed
  <2>5. QED
    BY <2>2, <2>3, <2>4
<1>5. QED
  BY <1>1, <1>2, <1>3, <1>4 DEF I!TypeOK

LEMMA MailJobKeeps ==
  ASSUME InboxInv, NEW n \in Req, I!StartMails(n) \/ I!SendMail(n) \/ I!EndMails(n) \/ I!FailMails(n)
  PROVE  InboxInv'
<1>1. /\ job \in [Req -> I!MailJob] /\ job[n] \in I!MailJob /\ mails \in [Req -> [Recipient -> Nat]]
      /\ mails[n] \in [Recipient -> Nat] /\ Mailed(n) /\ MaxAttempts \in Nat
  BY BoundsAssumption DEF InboxInv, I!TypeOK
<1>2. /\ job[n].to \subseteq Recipient /\ job[n].left \subseteq Recipient /\ job[n].attempts \in 0..MaxAttempts
      /\ job[n].state # "none"
  BY <1>1 DEF I!MailJob, I!StartMails, I!SendMail, I!EndMails, I!FailMails
<1>3. UNCHANGED <<pref, inbox, note, digest, digests, started>>
  BY DEF I!StartMails, I!SendMail, I!EndMails, I!FailMails
<1>4. CASE I!StartMails(n)
  <2> DEFINE x == [job[n] EXCEPT !.state = "running", !.attempts = job[n].attempts + 1, !.left = job[n].to]
  <2>1. job[n].state = "pending" /\ UNCHANGED <<mails, faults>>
    BY <1>4 DEF I!StartMails
  <2>2. job' = [job EXCEPT ![n] = x]
    BY <1>1, <1>4 DEF I!StartMails, I!MailJob
  <2>3. x.state = "running" /\ x.to = job[n].to /\ x.left = job[n].to /\ x.attempts = job[n].attempts + 1
    BY <1>1 DEF I!MailJob
  <2>4. job[n].attempts < MaxAttempts
    BY <1>1, <2>1 DEF Mailed
  <2>5. job[n].attempts + 1 \in 0..MaxAttempts
    BY <1>1, <1>2, <2>4
  <2>6. x \in I!MailJob
    BY <1>1, <2>5 DEF I!MailJob
  <2> HIDE DEF x
  <2>7. mails' = [mails EXCEPT ![n] = mails[n]]
    BY <1>1, <2>1
  <2>8. \A u \in Recipient : mails[n][u] \in Nat /\ mails[n][u] <= job[n].attempts /\ (u \notin job[n].to => mails[n][u] = 0)
    BY <1>1 DEF Mailed
  <2>9. \A u \in Recipient : mails[n][u] < x.attempts
    BY <1>2, <2>3, <2>8
  <2>10. \A u \in Recipient : mails[n][u] <= x.attempts /\ (u \notin x.to => mails[n][u] = 0)
    BY <1>2, <2>3, <2>8
  <2>11. (\A u \in x.left : mails[n][u] < x.attempts) /\ (\A u \in x.to \ x.left : mails[n][u] >= 1)
    BY <1>2, <2>3, <2>9
  <2>12. x.state \notin {"none", "pending", "completed"} /\ x.to = job[n].to /\ x.left \subseteq x.to
    BY <2>3
  <2>13. QED
    BY <1>1, <1>2, <1>3, <2>1, <2>2, <2>6, <2>7, <2>10, <2>11, <2>12, JobKeeps
<1>5. CASE I!SendMail(n)
  <2>1. PICK v \in job[n].left : I!Deliver(n, v) /\ job' = [job EXCEPT ![n].left = @ \ {v}]
    BY <1>5 DEF I!SendMail
  <2> DEFINE x == [job[n] EXCEPT !.left = job[n].left \ {v}]
             ms == [mails[n] EXCEPT ![v] = mails[n][v] + 1]
  <2>2. job[n].state = "running" /\ UNCHANGED faults
    BY <1>5 DEF I!SendMail
  <2>3. job' = [job EXCEPT ![n] = x] /\ mails' = [mails EXCEPT ![n] = ms]
    BY <1>1, <2>1 DEF I!Deliver
  <2>4. x \in I!MailJob /\ x.state = "running" /\ x.to = job[n].to /\ x.left = job[n].left \ {v} /\ x.attempts = job[n].attempts
    BY <1>1, <2>2 DEF I!MailJob
  <2>5. v \in job[n].to /\ v \in Recipient /\ mails[n][v] < job[n].attempts
    BY <1>1, <1>2, <2>2 DEF Mailed
  <2>6. /\ ms \in [Recipient -> Nat] /\ ms[v] = mails[n][v] + 1
        /\ \A u \in Recipient \ {v} : ms[u] = mails[n][u]
    BY <1>1, <2>5
  <2> HIDE DEF x, ms
  <2>7. \A u \in Recipient : ms[u] <= x.attempts /\ (u \notin x.to => ms[u] = 0)
    BY <1>1, <1>2, <2>4, <2>5, <2>6 DEF Mailed
  <2>8. \A u \in x.left : ms[u] < x.attempts
    BY <1>1, <1>2, <2>2, <2>4, <2>6 DEF Mailed
  <2>9. \A u \in x.to \ x.left : ms[u] >= 1
    BY <1>1, <1>2, <2>2, <2>4, <2>5, <2>6 DEF Mailed
  <2>10. x.left \subseteq x.to
    BY <1>1, <2>4 DEF Mailed
  <2>11. QED
    BY <1>1, <1>2, <1>3, <2>2, <2>3, <2>4, <2>6, <2>7, <2>8, <2>9, <2>10, JobKeeps
<1>6. CASE I!EndMails(n) \/ I!FailMails(n)
  <2>1. /\ job[n].state = "running" /\ UNCHANGED mails /\ faults' \in {faults, faults + 1}
        /\ (I!EndMails(n) => job[n].left = {})
    BY <1>6 DEF I!EndMails, I!FailMails
  <2>2. PICK st \in {"completed", "failed", "pending"} :
          /\ job' = [job EXCEPT ![n] = [job[n] EXCEPT !.state = st]]
          /\ st = "completed" => job[n].left = {}
          /\ st = "pending" => job[n].attempts # MaxAttempts
    <3>1. CASE I!EndMails(n)
      BY <1>1, <2>1, <3>1 DEF I!EndMails
    <3>2. CASE I!FailMails(n)
      <4>1. CASE job[n].attempts = MaxAttempts
        BY <1>1, <3>2, <4>1 DEF I!FailMails
      <4>2. CASE job[n].attempts # MaxAttempts
        BY <1>1, <3>2, <4>2 DEF I!FailMails
      <4>3. QED
        BY <4>1, <4>2
    <3>3. QED
      BY <1>6, <3>1, <3>2
  <2> DEFINE x == [job[n] EXCEPT !.state = st]
  <2>3. st = "pending" => job[n].attempts < MaxAttempts
    <3>1. job[n].attempts # MaxAttempts => job[n].attempts < MaxAttempts
      BY <1>1, <1>2
    <3>2. QED
      BY <2>2, <3>1
  <2>4. x \in I!MailJob /\ x.state = st /\ x.to = job[n].to /\ x.left = job[n].left /\ x.attempts = job[n].attempts
    BY <1>1, <2>2 DEF I!MailJob
  <2>5. mails' = [mails EXCEPT ![n] = mails[n]]
    BY <1>1, <2>1
  <2> HIDE DEF x
  <2>6. \A u \in Recipient : mails[n][u] <= x.attempts /\ (u \notin x.to => mails[n][u] = 0)
    BY <1>1, <2>4 DEF Mailed
  <2>7. x.state = "completed" => \A u \in x.to : mails[n][u] >= 1
    BY <1>1, <2>1, <2>2, <2>4 DEF Mailed
  <2>8. x.left \subseteq x.to
    BY <1>1, <2>4 DEF Mailed
  <2>9. x.state \notin {"none", "running"} /\ (x.state = "pending" => x.attempts < MaxAttempts)
    BY <2>2, <2>3, <2>4
  <2>10. job' = [job EXCEPT ![n] = x]
    BY <2>2 DEF x
  <2>11. QED
    BY <1>1, <1>2, <1>3, <2>1, <2>4, <2>5, <2>6, <2>7, <2>8, <2>9, <2>10, JobKeeps
<1>7. QED
  BY <1>4, <1>5, <1>6

LEMMA DigestKeeps ==
  ASSUME InboxInv, I!StartDigest \/ I!SendDigest \/ I!EndDigest
  PROVE  InboxInv'
<1> USE DEF InboxInv
<1>1. UNCHANGED <<pref, inbox, note, job, mails>>
  BY DEF I!StartDigest, I!SendDigest, I!EndDigest
<1>2. {started, faults} \subseteq Nat /\ {started', faults'} \subseteq Nat /\ (faults' = 0 => faults = 0)
  BY DEF I!StartDigest, I!SendDigest, I!EndDigest, I!TypeOK
<1>3. \A n \in Req : Noted(n)' /\ Mailed(n)'
  BY <1>1, <1>2 DEF Noted, Mailed
<1>4. digest \in (SUBSET Recipient) \cup {None} /\ digests \in [Recipient -> 0..1]
  BY DEF I!TypeOK
<1>5. CASE I!StartDigest
  <2>1. digest' \in SUBSET Recipient /\ digests' = [u \in Recipient |-> 0]
    BY <1>5 DEF I!StartDigest
  <2>2. QED
    BY <1>1, <1>2, <1>3, <2>1 DEF I!TypeOK
<1>6. CASE I!SendDigest
  <2>1. PICK v \in digest : digest' = digest \ {v} /\ (I!DeliverDigest(v) \/ UNCHANGED digests)
    BY <1>6 DEF I!SendDigest
  <2>2. digest \in SUBSET Recipient /\ v \in Recipient /\ digests[v] = 0
    BY <1>4, <1>6, <2>1 DEF I!SendDigest
  <2>3. digests' \in [Recipient -> 0..1] /\ \A u \in digest' : digests'[u] = 0
    BY <1>4, <1>6, <2>1, <2>2 DEF I!DeliverDigest, I!SendDigest
  <2>4. QED
    BY <1>1, <1>2, <1>3, <2>1, <2>2, <2>3 DEF I!TypeOK
<1>7. CASE I!EndDigest
  BY <1>1, <1>2, <1>3, <1>7 DEF I!EndDigest, I!TypeOK
<1>8. QED
  BY <1>5, <1>6, <1>7

LEMMA ReaderKeeps ==
  ASSUME InboxInv, NEW u \in Recipient, I!SetPreference(u) \/ I!MarkRead(u)
  PROVE  InboxInv'
<1> USE DEF InboxInv
<1>1. UNCHANGED <<note, job, mails, digest, digests, faults>> /\ started' \in Nat
  BY DEF I!SetPreference, I!MarkRead, I!Change, I!TypeOK
<1>2. pref' \in [Recipient -> I!Pref]
  <2>1. CASE I!SetPreference(u)
    <3>1. pref \in [Recipient -> I!Pref] /\ pref[u] \in I!Pref
      BY DEF I!TypeOK
    <3>2. /\ [pref[u] EXCEPT !.email = ~@] \in I!Pref /\ [pref[u] EXCEPT !.digest = ~@] \in I!Pref
          /\ \A k \in I!Mutable : [pref[u] EXCEPT !.muted = (@ \ {k}) \cup ({k} \ @)] \in I!Pref
      BY <3>1 DEF I!Pref
    <3>3. PICK x \in I!Pref : pref' = [pref EXCEPT ![u] = x]
      BY <2>1, <3>1, <3>2 DEF I!SetPreference
    <3>4. QED
      BY <3>1, <3>3
  <2>2. CASE I!MarkRead(u)
    BY <2>2 DEF I!MarkRead, I!TypeOK
  <2>3. QED
    BY <2>1, <2>2
<1>3. /\ inbox' \in [Recipient -> [Req -> {"none", "unread", "read"}]]
      /\ \A v \in Recipient, n \in Req : inbox'[v][n] = "none" <=> inbox[v][n] = "none"
  <2>1. CASE I!SetPreference(u)
    BY <2>1 DEF I!SetPreference, I!TypeOK
  <2>2. CASE I!MarkRead(u)
    <3>1. PICK ns \in SUBSET Req :
            inbox' = [inbox EXCEPT ![u] =
              [n \in Req |-> IF n \in ns /\ inbox[u][n] = "unread" THEN "read" ELSE inbox[u][n]]]
      BY <2>2 DEF I!MarkRead
    <3> DEFINE x == [n \in Req |-> IF n \in ns /\ inbox[u][n] = "unread" THEN "read" ELSE inbox[u][n]]
    <3>2. inbox' = [inbox EXCEPT ![u] = x]
      BY <3>1
    <3>3. x \in [Req -> {"none", "unread", "read"}] /\ \A n \in Req : x[n] = "none" <=> inbox[u][n] = "none"
      BY DEF I!TypeOK
    <3> HIDE DEF x
    <3>4. QED
      BY <3>2, <3>3 DEF I!TypeOK
  <2>3. QED
    BY <2>1, <2>2
<1>4. \A n \in Req : Noted(n)' /\ Mailed(n)'
  <2> SUFFICES ASSUME NEW n \in Req
               PROVE  Noted(n)' /\ Mailed(n)'
    OBVIOUS
  <2>1. Noted(n) /\ Mailed(n) /\ note[n].to \subseteq Recipient /\ job[n].to \subseteq Recipient
    BY DEF I!TypeOK, I!NoteReq, I!MailJob
  <2>2. Noted(n)'
    BY <1>1, <1>3, <2>1 DEF Noted
  <2>3. Mailed(n)'
    BY <1>1, <1>3, <2>1 DEF Mailed
  <2>4. QED
    BY <2>2, <2>3
<1>5. QED
  BY <1>1, <1>2, <1>3, <1>4 DEF I!TypeOK

LEMMA InboxStep ==
  ASSUME InboxInv, [I!Next]_(I!vars)
  PROVE  InboxInv'
<1>1. CASE UNCHANGED I!vars
  BY <1>1 DEF I!vars, InboxInv, I!TypeOK, Noted, Mailed
<1>2. CASE I!Next
  BY <1>2, NotifyStarts, NotifyGoesOn, NoticesKeep, EnqueueKeeps, FailNotifyKeeps, MailJobKeeps,
     DigestKeeps, ReaderKeeps DEF I!Next
<1>3. QED
  BY <1>1, <1>2

InboxSafe == focus = "inbox" => InboxInv

LEMMA InboxAlways == FocusSpec => []InboxSafe
<1>1. FocusInit => InboxSafe
  BY InboxInit DEF FocusInit, InboxSafe
<1>2. InboxSafe /\ [FocusNext]_focusVars => InboxSafe'
  BY InboxStep, FocusStays DEF InboxSafe
<1>3. QED
  BY <1>1, <1>2, PTL DEF FocusSpec

\* The mails of a document-email job (emailWatchers) go to those who have the
\* notification and not to its author, to each at most once per attempt; a comment
\* tells nobody twice (addComment), and without a failure everybody it mentions.
THEOREM MailsSafe == FocusSpec => []MailsMatch
<1>1. InboxInv => I!MailsMatch
  <2> SUFFICES ASSUME InboxInv
               PROVE  I!MailsSent /\ I!CommentsTold
    BY DEF I!MailsMatch
  <2> USE DEF InboxInv
  <2>1. \A n \in Req : /\ Noted(n) /\ Mailed(n) /\ note[n].to \subseteq Recipient /\ job[n].to \subseteq Recipient
                      /\ \A u \in Recipient : mails[n][u] \in Nat
    BY DEF I!TypeOK, I!NoteReq, I!MailJob
  <2>2. I!MailsSent
    <3> SUFFICES ASSUME NEW n \in Req, NEW u \in Recipient
                 PROVE  /\ mails[n][u] <= job[n].attempts
                        /\ mails[n][u] > 0 => inbox[u][n] # "none" /\ u # note[n].actor
                        /\ job[n].state = "completed" /\ u \in job[n].to => mails[n][u] >= 1
      BY DEF I!MailsSent
    <3>1. mails[n][u] > 0 => u \in job[n].to /\ job[n].state # "none"
      BY <2>1 DEF Mailed, I!NoJob
    <3>2. QED
      BY <2>1, <3>1 DEF Mailed, Noted
  <2>3. I!CommentsTold
    <3> SUFFICES ASSUME NEW n \in Req, NEW m \in Req, note[m].after = n, n # m
                 PROVE  /\ \A u \in Recipient : inbox[u][n] = "none" \/ inbox[u][m] = "none"
                        /\ I!At(m, "done") /\ faults = 0 =>
                             \A u \in Recipient : u \in note[m].to => inbox[u][m] # "none"
      BY DEF I!CommentsTold
    <3>1. Noted(n) /\ Noted(m) /\ note[n].to \cap note[m].to = {}
      BY <2>1 DEF Noted
    <3>2. QED
      BY <3>1 DEF Noted, I!At
  <2>4. QED
    BY <2>2, <2>3
<1>2. InboxSafe => MailsMatch
  BY <1>1 DEF InboxSafe, MailsMatch
<1>3. QED
  BY <1>2, InboxAlways, PTL

-----------------------------------------------------------------------------
(* Access: what the page shows, and the rules of groups. *)

Busy(x) == x.pc # "idle"

\* What a request of the page carries.
Carries(x) ==
  /\ x.op \in {"rename", "delete", "members"} /\ x.pc \in {"find", "rules", "write"} => x.group \in Group
  /\ x.op \in {"create", "rename"} /\ x.pc \in {"find", "write"} => x.name \in GroupName
  /\ x.op \in A!RuleOps /\ x.pc \in {"find", "write"} => x.rule \in A!Rule
  /\ x.pc = "answer" => IF x.op \in A!RuleOps THEN x.rs \subseteq A!Rule ELSE x.gs \in [Group -> A!GroupDoc]

\* A rule about to be written names a group that exists, and a group about to go
\* is named by no rule.
Subjects(x, g, rs) ==
  /\ x.op = "setRule" /\ x.pc = "write" /\ x.rule.subject[1] = "group" => g[x.rule.subject[2]].name # None
  /\ x.op = "delete" /\ x.pc = "write" => \A y \in rs : y.subject # <<"group", x.group>>

\* How far the page pg lags behind the groups and rules while x is under way.
Lags(x, g, rs, pg) ==
  /\ x.pc \in {"find", "rules", "write", "list"} => x.gs = None /\ x.rs = None
  /\ x.pc \in {"find", "rules"} => pg = [groups |-> g, rules |-> rs]
  /\ x.pc = "write" => pg.groups = g /\ (x.op # "delete" => pg.rules = rs)
  /\ x.pc = "list" => IF x.op \in A!RuleOps THEN pg.groups = g ELSE x.op = "delete" \/ pg.rules = rs
  /\ x.pc = "answer" => IF x.op \in A!RuleOps THEN x.gs = None /\ x.rs = rs /\ pg.groups = g
                        ELSE x.rs = None /\ x.gs = g /\ (x.op = "delete" \/ pg.rules = rs)
  /\ x.pc = "load" => x.gs \in {None, g} /\ x.rs \in {None, rs}
  /\ x.pc # "show"

Lists == [groups |-> group, rules |-> rules]

AccessInv ==
  /\ A!TypeOK /\ A!RulesHaveGroup /\ A!PageCurrent
  /\ page = [groups |-> page.groups, rules |-> page.rules]
  /\ \A r \in Req : Carries(task[r])
  /\ ~tangled => /\ \A r, q \in Req : Busy(task[r]) /\ Busy(task[q]) => r = q
                 /\ \A r \in Req : Subjects(task[r], group, rules)
  /\ ~tangled /\ faults = 0 => \A r \in Req : Busy(task[r]) => Lags(task[r], group, rules, page)

LEMMA IdleIsRequest ==
  /\ A!Idle \in A!Request /\ A!Idle.pc = "idle" /\ A!Idle.op = "none" /\ A!Idle.gs = None /\ A!Idle.rs = None
  /\ A!Unmade \in A!GroupDoc /\ A!Gone \in A!GroupDoc /\ A!Unmade.name = None /\ A!Gone.name = None
  /\ \A g \in A!GroupDoc : g.name # None => g \in [name: GroupName, members: SUBSET Viewer, v: Nat]
  /\ \A g \in A!GroupDoc : g.members \subseteq Viewer
<1>1. A!Unmade \in A!GroupDoc /\ A!Gone \in A!GroupDoc /\ A!Unmade.name = None /\ A!Gone.name = None
  BY DEF A!GroupDoc, A!Unmade, A!Gone
<1>2. A!Idle \in A!Request /\ A!Idle.pc = "idle" /\ A!Idle.op = "none" /\ A!Idle.gs = None /\ A!Idle.rs = None
  BY <1>1 DEF A!Idle, A!Request
<1>3. \A g \in A!GroupDoc : /\ g.name # None => g \in [name: GroupName, members: SUBSET Viewer, v: Nat]
                            /\ g.members \subseteq Viewer
  BY DEF A!GroupDoc, A!Unmade, A!Gone
<1>4. QED
  BY <1>1, <1>2, <1>3

LEMMA AccessInit ==
  ASSUME A!Init
  PROVE  AccessInv
<1> USE DEF A!Init
<1>1. group \in [Group -> A!GroupDoc]
  BY AccessAssumption DEF A!GroupDoc
<1>2. A!TypeOK
  <2>1. tangled \in BOOLEAN
    <3>1. tangled = FALSE
      OBVIOUS
    <3>2. QED
      BY <3>1, Zenon
  <2>2. QED
    BY <1>1, <2>1, IdleIsRequest DEF A!TypeOK
<1>3. A!RulesHaveGroup /\ A!PageCurrent
  BY DEF A!RulesHaveGroup, A!PageCurrent
<1>4. QED
  BY <1>2, <1>3, IdleIsRequest DEF AccessInv, Carries, Busy, Subjects

\* A request that is alone goes on or ends.
LEMMA GoesOn ==
  ASSUME AccessInv, NEW r \in Req, NEW x \in A!Request, Busy(task[r]), Carries(x),
         task' = [task EXCEPT ![r] = x], UNCHANGED <<people_, tangled, started>>, faults' \in Nat,
         faults' = 0 => faults = 0,
         group' \in [Group -> A!GroupDoc], rules' \subseteq A!Rule,
         page'.groups \in [Group -> A!GroupDoc], page'.rules \subseteq A!Rule,
         page' = [groups |-> page'.groups, rules |-> page'.rules],
         ~tangled => /\ \A y \in rules' : y.subject[1] = "group" => group'[y.subject[2]].name # None
                     /\ Subjects(x, group', rules'),
         ~tangled /\ faults' = 0 => IF Busy(x) THEN Lags(x, group', rules', page')
                                    ELSE page' = [groups |-> group', rules |-> rules']
  PROVE  AccessInv'
<1> USE DEF AccessInv
<1>1. A!TypeOK'
  BY DEF A!TypeOK
<1>2. task \in [Req -> A!Request] /\ tangled' = tangled
  BY DEF A!TypeOK
<1>3. A!RulesHaveGroup'
  BY <1>2 DEF A!RulesHaveGroup, A!Exists
<1>4. \A q \in Req : Carries(task'[q])
  BY <1>2
<1>5. ~tangled => \A q \in Req : q # r => ~Busy(task[q])
  OBVIOUS
<1>6. \A q \in Req : task'[q] = IF q = r THEN x ELSE task[q]
  BY <1>2
<1>7. ~tangled => /\ \A s, q \in Req : Busy(task'[s]) /\ Busy(task'[q]) => s = q
                  /\ \A q \in Req : Subjects(task'[q], group', rules')
  BY <1>5, <1>6 DEF Busy, Subjects
<1>8. ~tangled /\ faults' = 0 => \A q \in Req : Busy(task'[q]) => Lags(task'[q], group', rules', page')
  BY <1>5, <1>6
<1>9. A!PageCurrent'
  <2>1. Busy(task'[r]) => Busy(x)
    BY <1>6
  <2>2. QED
    BY <1>2, <1>6 DEF A!PageCurrent, Busy
<1>10. QED
  BY <1>1, <1>2, <1>3, <1>4, <1>7, <1>8, <1>9

LEMMA BeginKeeps ==
  ASSUME AccessInv, NEW r \in Req, NEW s \in A!Request, A!Begin(r, s), Carries(s), s.gs = None, s.rs = None,
         s.pc \in {"find", "write"}, s.pc = "write" => s.op \in {"rename", "dropRule"}
  PROVE  AccessInv'
<1> USE DEF AccessInv
<1>1. /\ ~Busy(task[r]) /\ started \in Nat /\ started' = started + 1 /\ task' = [task EXCEPT ![r] = s]
      /\ UNCHANGED <<group, rules, people_, page, faults>>
      /\ tangled' = (tangled \/ \E o \in Req \ {r} : Busy(task[o]))
  BY DEF A!Begin, A!server, Busy, A!TypeOK
<1>2. task \in [Req -> A!Request] /\ \A q \in Req : task'[q] = IF q = r THEN s ELSE task[q]
  BY <1>1 DEF A!TypeOK
<1>3. tangled' \in BOOLEAN
  <2>1. tangled \in BOOLEAN
    BY DEF A!TypeOK
  <2>2. QED
    BY <1>1, <2>1, Zenon
<1>4. A!TypeOK'
  BY <1>1, <1>3 DEF A!TypeOK
<1>5. Busy(s)
  BY DEF Busy
<1>6. ~tangled' => ~tangled /\ \A q \in Req \ {r} : ~Busy(task[q])
  BY <1>1, Zenon
<1>7. A!RulesHaveGroup'
  BY <1>1, <1>6 DEF A!RulesHaveGroup, A!Exists
<1>8. A!PageCurrent'
  BY <1>2, <1>5 DEF A!PageCurrent, Busy
<1>9. \A q \in Req : Carries(task'[q])
  BY <1>2
<1>10. ~tangled' => /\ \A p, q \in Req : Busy(task'[p]) /\ Busy(task'[q]) => p = q
                    /\ \A q \in Req : Subjects(task'[q], group', rules')
  BY <1>1, <1>2, <1>6 DEF Subjects
<1>11. ~tangled' /\ faults' = 0 => \A q \in Req : Busy(task'[q]) => Lags(task'[q], group', rules', page')
  <2>1. ~tangled' /\ faults' = 0 => page = Lists
    BY <1>1, <1>6 DEF A!PageCurrent, Busy, Lists
  <2>2. page = Lists => Lags(s, group, rules, page)
    BY DEF Lags, Lists, A!RuleOps
  <2>3. QED
    BY <1>1, <1>2, <1>6, <2>1, <2>2
<1>12. QED
  BY <1>1, <1>4, <1>7, <1>8, <1>9, <1>10, <1>11

LEMMA AccessStarts ==
  ASSUME AccessInv, NEW r \in Req, A!Start(r)
  PROVE  AccessInv'
<1> USE DEF AccessInv
<1>1. A!Idle \in A!Request
  BY IdleIsRequest
<1>2. /\ page.groups \in [Group -> A!GroupDoc] /\ page.rules \subseteq A!Rule /\ people_ \subseteq Viewer
      /\ started \in Nat /\ A!Shown \subseteq Group
  BY DEF A!TypeOK, A!Shown
<1>3. CASE A!StartCreate(r)
  <2>1. PICK n \in GroupName : A!Begin(r, [A!Idle EXCEPT !.op = "create", !.pc = "find", !.name = n])
    BY <1>3 DEF A!StartCreate
  <2> DEFINE s == [A!Idle EXCEPT !.op = "create", !.pc = "find", !.name = n]
  <2>2. s \in A!Request /\ s.gs = None /\ s.rs = None /\ s.op = "create" /\ s.pc = "find" /\ s.name = n
    BY <1>1, IdleIsRequest DEF A!Request
  <2> HIDE DEF s
  <2>3. QED
    BY <2>1, <2>2, BeginKeeps DEF Carries, A!RuleOps, s
<1>4. CASE A!StartDelete(r)
  <2>1. PICK g \in Group : A!Begin(r, [A!Idle EXCEPT !.op = "delete", !.pc = "find", !.group = g])
    BY <1>2, <1>4 DEF A!StartDelete
  <2> DEFINE s == [A!Idle EXCEPT !.op = "delete", !.pc = "find", !.group = g]
  <2>2. s \in A!Request /\ s.gs = None /\ s.rs = None /\ s.op = "delete" /\ s.pc = "find" /\ s.group = g
    BY <1>1, IdleIsRequest DEF A!Request
  <2>3. A!Begin(r, s)
    BY <2>1
  <2> HIDE DEF s
  <2>4. QED
    BY <2>2, <2>3, BeginKeeps DEF Carries, A!RuleOps
<1>5. CASE A!StartToggle(r)
  <2>1. PICK g \in Group, u \in people_ :
          A!Begin(r, [A!Idle EXCEPT !.op = "members", !.pc = "find", !.group = g,
                                    !.users = A!Toggled(page.groups[g].members, u)])
    BY <1>2, <1>5 DEF A!StartToggle
  <2> DEFINE s == [A!Idle EXCEPT !.op = "members", !.pc = "find", !.group = g,
                                 !.users = A!Toggled(page.groups[g].members, u)]
  <2>2. A!Toggled(page.groups[g].members, u) \subseteq Viewer
    BY <1>2, IdleIsRequest DEF A!Toggled
  <2>3. s \in A!Request /\ s.gs = None /\ s.rs = None /\ s.op = "members" /\ s.pc = "find" /\ s.group = g
    BY <1>1, <2>2, IdleIsRequest DEF A!Request
  <2>4. A!Begin(r, s)
    BY <2>1
  <2> HIDE DEF s
  <2>5. QED
    BY <2>3, <2>4, BeginKeeps DEF Carries, A!RuleOps
<1>6. CASE A!StartSetRule(r)
  <2>1. PICK p \in RulePath, t \in A!Pickable, l \in A!Levels :
          A!Begin(r, [A!Idle EXCEPT !.op = "setRule", !.pc = "find",
                                    !.rule = [path |-> p, subject |-> t, level |-> l, id |-> started + 1]])
    BY <1>6 DEF A!StartSetRule
  <2> DEFINE x == [path |-> p, subject |-> t, level |-> l, id |-> started + 1]
             s == [A!Idle EXCEPT !.op = "setRule", !.pc = "find", !.rule = x]
  <2>2. x \in A!Rule
    BY <1>2 DEF A!Rule, A!Pickable, A!Subject
  <2>3. A!Begin(r, s)
    BY <2>1
  <2> HIDE DEF x
  <2>4. s \in A!Request /\ s.gs = None /\ s.rs = None /\ s.op = "setRule" /\ s.pc = "find" /\ s.rule = x
    BY <1>1, <2>2, IdleIsRequest DEF A!Request
  <2> HIDE DEF s
  <2>5. QED
    BY <2>2, <2>3, <2>4, BeginKeeps DEF Carries, A!RuleOps
<1>7. CASE A!StartDropRule(r)
  <2>1. PICK x \in A!Rule : A!Begin(r, [A!Idle EXCEPT !.op = "dropRule", !.pc = "write", !.rule = x])
    BY <1>2, <1>7 DEF A!StartDropRule
  <2> DEFINE s == [A!Idle EXCEPT !.op = "dropRule", !.pc = "write", !.rule = x]
  <2>2. s \in A!Request /\ s.gs = None /\ s.rs = None /\ s.op = "dropRule" /\ s.pc = "write" /\ s.rule = x
    BY <1>1, IdleIsRequest DEF A!Request
  <2>3. A!Begin(r, s)
    BY <2>1
  <2> HIDE DEF s
  <2>4. QED
    BY <2>2, <2>3, BeginKeeps DEF Carries, A!RuleOps
<1>8. CASE A!StartRename(r)
  <2>1. PICK g \in Group, n \in GroupName :
          A!Begin(r, [A!Idle EXCEPT !.op = "rename", !.pc = "write", !.group = g, !.name = n])
    BY <1>2, <1>8 DEF A!StartRename
  <2> DEFINE s == [A!Idle EXCEPT !.op = "rename", !.pc = "write", !.group = g, !.name = n]
  <2>2. s \in A!Request /\ s.gs = None /\ s.rs = None /\ s.op = "rename" /\ s.pc = "write" /\ s.group = g /\ s.name = n
    BY <1>1, IdleIsRequest DEF A!Request
  <2>3. A!Begin(r, s)
    BY <2>1
  <2> HIDE DEF s
  <2>4. QED
    BY <2>2, <2>3, BeginKeeps DEF Carries, A!RuleOps
<1>9. QED
  BY <1>3, <1>4, <1>5, <1>6, <1>7, <1>8 DEF A!Start

\* A request that is refused has changed nothing.
LEMMA RefuseKeeps ==
  ASSUME AccessInv, NEW r \in Req, A!Refuse(r),
         task[r].pc = "find" \/ (task[r].pc = "write" /\ task[r].op # "delete")
  PROVE  AccessInv'
<1> USE DEF AccessInv
<1>1. Busy(task[r])
  BY DEF Busy
<1>2. /\ task' = [task EXCEPT ![r] = A!Idle]
      /\ UNCHANGED <<group, rules, people_, page, started, faults, tangled>>
  BY DEF A!Refuse, A!Finish, A!server, A!bounds
<1>3. A!Idle \in A!Request /\ Carries(A!Idle) /\ ~Busy(A!Idle) /\ \A g, rs : Subjects(A!Idle, g, rs)
  BY IdleIsRequest DEF Carries, Busy, Subjects
<1>4. ~tangled /\ faults = 0 => page = [groups |-> group, rules |-> rules]
  BY <1>1 DEF Lags
<1>5. ~tangled => \A y \in rules : y.subject[1] = "group" => group[y.subject[2]].name # None
  BY DEF A!RulesHaveGroup, A!Exists
<1>6. QED
  BY <1>1, <1>2, <1>3, <1>4, <1>5, GoesOn DEF A!TypeOK

\* What holds whenever a request is under way.
LEMMA AccessFacts ==
  ASSUME AccessInv, NEW r \in Req
  PROVE  /\ task[r] \in A!Request /\ group \in [Group -> A!GroupDoc] /\ rules \subseteq A!Rule
         /\ page.groups \in [Group -> A!GroupDoc] /\ page.rules \subseteq A!Rule
         /\ page = [groups |-> page.groups, rules |-> page.rules]
         /\ faults \in Nat /\ started \in Nat /\ Carries(task[r])
         /\ ~tangled => /\ \A y \in rules : y.subject[1] = "group" => group[y.subject[2]].name # None
                        /\ Subjects(task[r], group, rules)
         /\ ~tangled /\ faults = 0 /\ Busy(task[r]) => Lags(task[r], group, rules, page)
BY DEF AccessInv, A!TypeOK, A!RulesHaveGroup, A!Exists

\* A request that goes on to its next await.
LEMMA NextAwait ==
  ASSUME NEW x \in A!Request, NEW pc \in {"find", "rules", "write", "list", "answer"}
  PROVE  LET y == [x EXCEPT !.pc = pc] IN
         /\ y \in A!Request /\ y.pc = pc /\ y.op = x.op /\ y.group = x.group /\ y.name = x.name /\ y.rule = x.rule
         /\ y.gs = x.gs /\ y.rs = x.rs
BY DEF A!Request

LEMMA NewMembers ==
  ASSUME NEW old \in [name: GroupName, members: SUBSET Viewer, v: Nat], NEW users \in SUBSET Viewer
  PROVE  LET new == [old EXCEPT !.members = users, !.v = @ + 1] IN new \in A!GroupDoc /\ new.name = old.name
<1> DEFINE n == old.v + 1
           new == [old EXCEPT !.members = users, !.v = n]
<1>1. n \in Nat
  OBVIOUS
<1> HIDE DEF n
<1>2. new \in [name: GroupName, members: SUBSET Viewer, v: Nat] /\ new.name = old.name
  BY <1>1
<1>3. QED
  BY <1>2 DEF A!GroupDoc, n

LEMMA GroupsServed ==
  ASSUME AccessInv, NEW r \in Req,
         \/ A!FindName(r) \/ A!CreateGroup(r) \/ A!RenameGroup(r) \/ A!FindGroup(r) \/ A!SaveMembers(r) \/ A!DropGroup(r)
  PROVE  AccessInv'
<1>1. /\ task[r] \in A!Request /\ group \in [Group -> A!GroupDoc] /\ rules \subseteq A!Rule
      /\ page.groups \in [Group -> A!GroupDoc] /\ page.rules \subseteq A!Rule
      /\ page = [groups |-> page.groups, rules |-> page.rules]
      /\ faults \in Nat /\ started \in Nat /\ Carries(task[r])
      /\ ~tangled => /\ \A y \in rules : y.subject[1] = "group" => group[y.subject[2]].name # None
                     /\ Subjects(task[r], group, rules)
      /\ ~tangled /\ faults = 0 /\ Busy(task[r]) => Lags(task[r], group, rules, page)
  BY AccessFacts
<1>2. \A y \in rules : y.subject[1] = "group" => y.subject[2] \in Group
  BY <1>1 DEF A!Rule, A!Subject
<1> DEFINE listing == [task[r] EXCEPT !.pc = "list"]
<1>3. /\ listing \in A!Request /\ listing.pc = "list" /\ listing.op = task[r].op /\ listing.group = task[r].group
      /\ listing.name = task[r].name /\ listing.rule = task[r].rule /\ listing.gs = task[r].gs /\ listing.rs = task[r].rs
  BY <1>1, NextAwait
<1>4. Busy(listing) /\ Carries(listing) /\ \A g, rs : Subjects(listing, g, rs)
  BY <1>3 DEF Busy, Carries, Subjects
<1> HIDE DEF listing
\* Groups change, and those that rules name stay.
<1>5. ASSUME group' \in [Group -> A!GroupDoc], task' = [task EXCEPT ![r] = listing],
             UNCHANGED <<rules, people_, page, started, faults, tangled>>,
             task[r].pc = "write", task[r].op \notin A!RuleOps,
             ~tangled => \A y \in rules : y.subject[1] = "group" => group'[y.subject[2]].name # None
      PROVE  AccessInv'
  <2>1. Busy(task[r])
    BY <1>5 DEF Busy
  <2>2. ~tangled /\ faults = 0 => Lags(listing, group', rules, page)
    BY <1>1, <1>3, <1>5, <2>1 DEF Lags
  <2>3. QED
    BY <1>1, <1>3, <1>4, <1>5, <2>1, <2>2, GoesOn
<1>6. CASE A!FindName(r)
  <2> DEFINE x == [task[r] EXCEPT !.pc = "write"]
  <2>1. /\ x \in A!Request /\ x.pc = "write" /\ x.op = task[r].op /\ x.group = task[r].group
        /\ x.name = task[r].name /\ x.rule = task[r].rule /\ x.gs = task[r].gs /\ x.rs = task[r].rs
    BY <1>1, NextAwait
  <2>2. task[r].op = "create" /\ task[r].pc = "find"
    BY <1>6 DEF A!FindName, A!At
  <2>3. CASE A!Refuse(r)
    BY <2>2, <2>3, RefuseKeeps
  <2>4. CASE task' = [task EXCEPT ![r] = x] /\ UNCHANGED <<group, rules, people_, page, started, faults, tangled>>
    <3> HIDE DEF x
    <3>1. Busy(task[r]) /\ Busy(x) /\ Carries(x) /\ Subjects(x, group, rules)
      BY <1>1, <2>1, <2>2 DEF Busy, Carries, Subjects, A!RuleOps
    <3>2. ~tangled /\ faults = 0 => Lags(x, group, rules, page)
      BY <1>1, <2>1, <2>2, <3>1 DEF Lags
    <3>3. QED
      BY <1>1, <2>1, <2>4, <3>1, <3>2, GoesOn
  <2>5. QED
    BY <1>6, <2>3, <2>4 DEF A!FindName, A!Go, A!server, A!bounds
<1>7. CASE A!CreateGroup(r)
  <2>1. task[r].op = "create" /\ task[r].pc = "write" /\ task[r].name \in GroupName
    BY <1>1, <1>7 DEF A!CreateGroup, A!At, Carries
  <2>2. CASE A!Refuse(r)
    BY <2>1, <2>2, RefuseKeeps
  <2>3. CASE ~A!Refuse(r)
    <3> DEFINE new == [name |-> task[r].name, members |-> {}, v |-> 0]
    <3>1. PICK g \in Group : group[g] = A!Unmade /\ group' = [group EXCEPT ![g] = new]
      BY <1>7, <2>3 DEF A!CreateGroup
    <3>2. new \in A!GroupDoc /\ new.name # None
      BY <2>1, AccessAssumption DEF A!GroupDoc
    <3> HIDE DEF new
    <3>3. UNCHANGED <<rules, people_, page, started, faults, tangled>> /\ task' = [task EXCEPT ![r] = listing]
      BY <1>7, <2>3 DEF A!CreateGroup, A!Go, A!bounds, listing
    <3>4. ~tangled => \A y \in rules : y.subject[1] = "group" => group'[y.subject[2]].name # None
      BY <1>1, <1>2, <3>1, <3>2
    <3>5. group' \in [Group -> A!GroupDoc]
      BY <1>1, <3>1, <3>2
    <3>6. QED
      BY <1>5, <2>1, <3>3, <3>4, <3>5 DEF A!RuleOps
  <2>4. QED
    BY <2>2, <2>3
<1>8. CASE A!RenameGroup(r)
  <2> DEFINE g == task[r].group
  <2>1. task[r].op = "rename" /\ task[r].pc = "write" /\ task[r].name \in GroupName /\ g \in Group
    BY <1>1, <1>8 DEF A!RenameGroup, A!At, Carries
  <2>2. CASE A!Refuse(r)
    BY <2>1, <2>2, RefuseKeeps
  <2>3. CASE ~A!Refuse(r)
    <3> DEFINE new == [group[g] EXCEPT !.name = task[r].name]
    <3>1. group[g].name # None /\ group' = [group EXCEPT ![g] = new]
      BY <1>8, <2>3 DEF A!RenameGroup, A!Exists
    <3>2. new \in A!GroupDoc /\ new.name # None
      <4>1. group[g] \in [name: GroupName, members: SUBSET Viewer, v: Nat]
        BY <1>1, <2>1, <3>1, IdleIsRequest
      <4>2. QED
        BY <2>1, <4>1, AccessAssumption DEF A!GroupDoc
    <3>3. UNCHANGED <<rules, people_, page, started, faults, tangled>> /\ task' = [task EXCEPT ![r] = listing]
      BY <1>8, <2>3 DEF A!RenameGroup, A!Go, A!bounds, listing
    <3> HIDE DEF new, g
    <3>4. ~tangled => \A y \in rules : y.subject[1] = "group" => group'[y.subject[2]].name # None
      BY <1>1, <1>2, <2>1, <3>1, <3>2
    <3>5. group' \in [Group -> A!GroupDoc]
      BY <1>1, <2>1, <3>1, <3>2
    <3>6. QED
      BY <1>5, <2>1, <3>3, <3>4, <3>5 DEF A!RuleOps
  <2>4. QED
    BY <2>2, <2>3
<1>9. CASE A!SaveMembers(r)
  <2> DEFINE g == task[r].group
  <2>1. task[r].op = "members" /\ task[r].pc = "write" /\ g \in Group
    BY <1>1, <1>9 DEF A!SaveMembers, A!At, Carries
  <2>2. CASE A!Refuse(r)
    BY <2>1, <2>2, RefuseKeeps
  <2>3. CASE ~A!Refuse(r)
    <3> DEFINE new == [group[g] EXCEPT !.members = task[r].users, !.v = @ + 1]
    <3>1. group[g].name # None /\ group' = [group EXCEPT ![g].members = task[r].users, ![g].v = @ + 1]
      BY <1>9, <2>3 DEF A!SaveMembers, A!Exists
    <3>2. group[g] \in [name: GroupName, members: SUBSET Viewer, v: Nat]
      BY <1>1, <2>1, <3>1, IdleIsRequest
    <3>3. group' = [group EXCEPT ![g] = new]
      BY <1>1, <2>1, <3>1, <3>2
    <3>4. task[r].users \subseteq Viewer
      BY <1>1 DEF A!Request
    <3>5. new \in A!GroupDoc /\ new.name = group[g].name
      BY <3>2, <3>4, NewMembers
    <3>6. UNCHANGED <<rules, people_, page, started, faults, tangled>> /\ task' = [task EXCEPT ![r] = listing]
      BY <1>9, <2>3 DEF A!SaveMembers, A!Go, A!bounds, listing
    <3> HIDE DEF new, g
    <3>7. ~tangled => \A y \in rules : y.subject[1] = "group" => group'[y.subject[2]].name # None
      BY <1>1, <1>2, <2>1, <3>1, <3>3, <3>5
    <3>8. group' \in [Group -> A!GroupDoc]
      BY <1>1, <2>1, <3>3, <3>5
    <3>9. QED
      BY <1>5, <2>1, <3>6, <3>7, <3>8 DEF A!RuleOps
  <2>4. QED
    BY <2>2, <2>3
<1>10. CASE A!DropGroup(r)
  <2> DEFINE g == task[r].group
  <2>1. task[r].op = "delete" /\ task[r].pc = "write" /\ g \in Group /\ group' = [group EXCEPT ![g] = A!Gone]
        /\ UNCHANGED <<rules, people_, page, started, faults, tangled>> /\ task' = [task EXCEPT ![r] = listing]
    BY <1>1, <1>10 DEF A!DropGroup, A!At, Carries, A!Go, A!bounds, listing
  <2>2. ~tangled => \A y \in rules : y.subject # <<"group", g>>
    BY <1>1, <2>1 DEF Subjects
  <2>3. \A y \in rules : y.subject[1] = "group" => y.subject = <<"group", y.subject[2]>>
    BY <1>1 DEF A!Rule, A!Subject
  <2> HIDE DEF g
  <2>4. ~tangled => \A y \in rules : y.subject[1] = "group" => group'[y.subject[2]].name # None
    BY <1>1, <1>2, <2>1, <2>2, <2>3
  <2>5. group' \in [Group -> A!GroupDoc]
    BY <1>1, <2>1, IdleIsRequest
  <2>6. QED
    BY <1>5, <2>1, <2>4, <2>5 DEF A!RuleOps
<1>11. CASE A!FindGroup(r)
  <2>1. task[r].op \in {"delete", "members"} /\ task[r].pc = "find" /\ task[r].group \in Group
    BY <1>1, <1>11 DEF A!FindGroup, A!At, Carries
  <2>2. CASE A!Refuse(r)
    BY <2>1, <2>2, RefuseKeeps
  <2>3. CASE ~A!Refuse(r)
    <3> DEFINE pc == IF task[r].op = "delete" THEN "rules" ELSE "write"
               x == [task[r] EXCEPT !.seen = group[task[r].group], !.users = @ \cap people_, !.pc = pc]
    <3>1. task' = [task EXCEPT ![r] = x] /\ UNCHANGED <<group, rules, people_, page, started, faults, tangled>>
      <4>1. /\ task' = [task EXCEPT ![r].seen = group[task[r].group], ![r].users = @ \cap people_, ![r].pc = pc]
            /\ UNCHANGED <<group, rules, people_, page, started, faults, tangled>>
        BY <1>11, <2>3 DEF A!FindGroup, A!server, A!bounds
      <4>2. task \in [Req -> A!Request]
        BY DEF AccessInv, A!TypeOK
      <4>3. QED
        BY <4>1, <4>2 DEF A!Request
    <3>2. pc \in {"rules", "write"} /\ (task[r].op = "delete" => pc = "rules")
      OBVIOUS
    <3>3. /\ x \in A!Request /\ x.pc = pc /\ x.op = task[r].op /\ x.group = task[r].group
          /\ x.gs = task[r].gs /\ x.rs = task[r].rs
      BY <1>1, <2>1, <3>2 DEF A!Request
    <3> HIDE DEF x, pc
    <3>4. Busy(task[r]) /\ Busy(x) /\ Carries(x) /\ Subjects(x, group, rules)
      BY <1>1, <2>1, <3>2, <3>3 DEF Busy, Carries, Subjects, A!RuleOps
    <3>5. ~tangled /\ faults = 0 => Lags(x, group, rules, page)
      BY <1>1, <2>1, <3>2, <3>3, <3>4 DEF Lags
    <3>6. QED
      BY <1>1, <3>1, <3>3, <3>4, <3>5, GoesOn
  <2>4. QED
    BY <2>2, <2>3
<1>12. QED
  BY <1>6, <1>7, <1>8, <1>9, <1>10, <1>11

LEMMA RulesServed ==
  ASSUME AccessInv, NEW r \in Req, A!DropGroupRules(r) \/ A!FindSubject(r) \/ A!WriteRule(r) \/ A!DropRule(r)
  PROVE  AccessInv'
<1>1. /\ task[r] \in A!Request /\ group \in [Group -> A!GroupDoc] /\ rules \subseteq A!Rule
      /\ page.groups \in [Group -> A!GroupDoc] /\ page.rules \subseteq A!Rule
      /\ page = [groups |-> page.groups, rules |-> page.rules]
      /\ faults \in Nat /\ started \in Nat /\ Carries(task[r])
      /\ ~tangled => /\ \A y \in rules : y.subject[1] = "group" => group[y.subject[2]].name # None
                     /\ Subjects(task[r], group, rules)
      /\ ~tangled /\ faults = 0 /\ Busy(task[r]) => Lags(task[r], group, rules, page)
  BY AccessFacts
<1>2. Busy(task[r])
  BY DEF A!DropGroupRules, A!FindSubject, A!WriteRule, A!DropRule, A!At, Busy
<1> DEFINE writing == [task[r] EXCEPT !.pc = "write"]
           listing == [task[r] EXCEPT !.pc = "list"]
<1>3. /\ writing \in A!Request /\ writing.pc = "write" /\ writing.op = task[r].op /\ writing.group = task[r].group
      /\ writing.name = task[r].name /\ writing.rule = task[r].rule /\ writing.gs = task[r].gs /\ writing.rs = task[r].rs
  BY <1>1, NextAwait
<1>4. /\ listing \in A!Request /\ listing.pc = "list" /\ listing.op = task[r].op /\ listing.group = task[r].group
      /\ listing.name = task[r].name /\ listing.rule = task[r].rule /\ listing.gs = task[r].gs /\ listing.rs = task[r].rs
  BY <1>1, NextAwait
<1>5. /\ Busy(writing) /\ Busy(listing)
      /\ Carries(listing) /\ (task[r].op = "delete" \/ task[r].pc = "find" => Carries(writing))
      /\ \A g, rs : Subjects(listing, g, rs)
  <2> HIDE DEF writing, listing
  <2>1. task[r].pc \in {"find", "rules", "write"}
    BY DEF A!DropGroupRules, A!FindSubject, A!WriteRule, A!DropRule, A!At
  <2>2. QED
    BY <1>1, <1>3, <1>4, <2>1 DEF Busy, Carries, Subjects, A!RuleOps
<1>6. CASE A!DropGroupRules(r)
  <2>1. /\ task[r].op = "delete" /\ task[r].pc = "rules" /\ rules' = {x \in rules : x.subject # <<"group", task[r].group>>}
        /\ UNCHANGED <<group, people_, page, started, faults, tangled>> /\ task' = [task EXCEPT ![r] = writing]
    BY <1>6 DEF A!DropGroupRules, A!At, A!Go, A!bounds
  <2> HIDE DEF writing, listing
  <2>2. Subjects(writing, group, rules')
    BY <1>3, <2>1 DEF Subjects
  <2>3. ~tangled /\ faults = 0 => Lags(writing, group, rules', page)
    BY <1>1, <1>2, <1>3, <2>1 DEF Lags
  <2>4. ~tangled => \A y \in rules' : y.subject[1] = "group" => group[y.subject[2]].name # None
    BY <1>1, <2>1
  <2>5. rules' \subseteq A!Rule
    BY <1>1, <2>1
  <2>6. QED
    BY <1>1, <1>2, <1>3, <1>5, <2>1, <2>2, <2>3, <2>4, <2>5, GoesOn
<1>7. CASE A!FindSubject(r)
  <2>1. task[r].op = "setRule" /\ task[r].pc = "find" /\ task[r].rule \in A!Rule
    BY <1>1, <1>7 DEF A!FindSubject, A!At, Carries, A!RuleOps
  <2>2. CASE A!Refuse(r)
    BY <2>1, <2>2, RefuseKeeps
  <2>3. CASE ~A!Refuse(r)
    <3>1. /\ UNCHANGED <<group, rules, people_, page, started, faults, tangled>> /\ task' = [task EXCEPT ![r] = writing]
          /\ task[r].rule.subject[1] = "group" => group[task[r].rule.subject[2]].name # None
      BY <1>7, <2>3 DEF A!FindSubject, A!Go, A!bounds, A!server, A!Exists
    <3> HIDE DEF writing, listing
    <3>2. Subjects(writing, group, rules)
      BY <1>3, <2>1, <3>1 DEF Subjects
    <3>3. ~tangled /\ faults = 0 => Lags(writing, group, rules, page)
      BY <1>1, <1>2, <1>3, <2>1 DEF Lags, A!RuleOps
    <3>4. QED
      BY <1>1, <1>2, <1>3, <1>5, <2>1, <3>1, <3>2, <3>3, GoesOn
  <2>4. QED
    BY <2>2, <2>3
\* The rules change, and those of groups that exist stay.
<1>8. ASSUME task[r].op \in A!RuleOps, task[r].pc = "write", rules' \subseteq A!Rule, task' = [task EXCEPT ![r] = listing],
             UNCHANGED <<group, people_, page, started, faults, tangled>>,
             ~tangled => \A y \in rules' : y.subject[1] = "group" => group[y.subject[2]].name # None
      PROVE  AccessInv'
  <2> HIDE DEF writing, listing
  <2>1. ~tangled /\ faults = 0 => Lags(listing, group, rules', page)
    BY <1>1, <1>2, <1>4, <1>8 DEF Lags, A!RuleOps
  <2>2. QED
    BY <1>1, <1>2, <1>4, <1>5, <1>8, <2>1, GoesOn
<1>9. CASE A!WriteRule(r)
  <2> DEFINE new == task[r].rule
             old == {x \in rules : x.path = new.path /\ x.subject = new.subject}
  <2>1. /\ task[r].op = "setRule" /\ task[r].pc = "write" /\ new \in A!Rule
        /\ UNCHANGED <<group, people_, page, started, faults, tangled>> /\ task' = [task EXCEPT ![r] = listing]
        /\ rules' = IF old = {} THEN rules \cup {new}
                    ELSE (rules \ old) \cup {[x EXCEPT !.level = new.level] : x \in old}
    BY <1>1, <1>9 DEF A!WriteRule, A!At, A!Go, A!bounds, Carries, A!RuleOps
  <2>2. \A x \in old : [x EXCEPT !.level = new.level] \in A!Rule /\ [x EXCEPT !.level = new.level].subject = x.subject
    BY <1>1, <2>1 DEF A!Rule
  <2>3. ~tangled => (new.subject[1] = "group" => group[new.subject[2]].name # None)
    BY <1>1, <2>1 DEF Subjects
  <2>4. rules' \subseteq A!Rule
    BY <1>1, <2>1, <2>2
  <2>5. \A y \in rules' : y.subject = new.subject \/ y \in rules
    BY <2>1, <2>2
  <2>6. QED
    BY <1>1, <1>8, <2>1, <2>3, <2>4, <2>5 DEF A!RuleOps
<1>10. CASE A!DropRule(r)
  <2>1. task[r].op = "dropRule" /\ task[r].pc = "write"
    BY <1>10 DEF A!DropRule, A!At
  <2>2. CASE A!Refuse(r)
    BY <2>1, <2>2, RefuseKeeps
  <2>3. CASE ~A!Refuse(r)
    <3>1. /\ UNCHANGED <<group, people_, page, started, faults, tangled>> /\ task' = [task EXCEPT ![r] = listing]
          /\ rules' \subseteq rules
      BY <1>10, <2>3 DEF A!DropRule, A!Go, A!bounds
    <3>2. QED
      BY <1>1, <1>8, <2>1, <3>1 DEF A!RuleOps
  <2>4. QED
    BY <2>2, <2>3
<1>11. QED
  BY <1>6, <1>7, <1>9, <1>10

LEMMA ListsServed ==
  ASSUME AccessInv, NEW r \in Req, A!ListGroups(r) \/ A!ListRules(r)
  PROVE  AccessInv'
<1>1. /\ task[r] \in A!Request /\ group \in [Group -> A!GroupDoc] /\ rules \subseteq A!Rule
      /\ page.groups \in [Group -> A!GroupDoc] /\ page.rules \subseteq A!Rule
      /\ page = [groups |-> page.groups, rules |-> page.rules]
      /\ faults \in Nat /\ started \in Nat /\ Carries(task[r])
      /\ ~tangled => /\ \A y \in rules : y.subject[1] = "group" => group[y.subject[2]].name # None
                     /\ Subjects(task[r], group, rules)
      /\ ~tangled /\ faults = 0 /\ Busy(task[r]) => Lags(task[r], group, rules, page)
  BY AccessFacts
<1>2. Busy(task[r]) /\ task[r].pc = "list" /\ task \in [Req -> A!Request]
      /\ UNCHANGED <<group, rules, people_, page, started, faults, tangled>>
  BY DEF A!ListGroups, A!ListRules, Busy, A!server, A!bounds, AccessInv, A!TypeOK
<1>3. ASSUME NEW x \in A!Request, task' = [task EXCEPT ![r] = x], x.op = task[r].op, x.pc = "answer",
             IF x.op \in A!RuleOps THEN x.gs = task[r].gs /\ x.rs = rules ELSE x.gs = group /\ x.rs = task[r].rs
      PROVE  AccessInv'
  <2>1. Busy(x) /\ Carries(x) /\ Subjects(x, group, rules)
    BY <1>1, <1>3 DEF Busy, Carries, Subjects
  <2>2. ~tangled /\ faults = 0 => Lags(x, group, rules, page)
    BY <1>1, <1>2, <1>3 DEF Lags
  <2>3. QED
    BY <1>1, <1>2, <1>3, <2>1, <2>2, GoesOn
<1>4. CASE A!ListGroups(r)
  <2> DEFINE x == [task[r] EXCEPT !.gs = group, !.pc = "answer"]
  <2>1. x \in A!Request /\ x.op = task[r].op /\ x.pc = "answer" /\ x.gs = group /\ x.rs = task[r].rs
    BY <1>1 DEF A!Request
  <2>2. task' = [task EXCEPT ![r] = x] /\ task[r].op \notin A!RuleOps
    BY <1>1, <1>2, <1>4 DEF A!ListGroups, A!Request, A!RuleOps
  <2> HIDE DEF x
  <2>3. QED
    BY <1>3, <2>1, <2>2
<1>5. CASE A!ListRules(r)
  <2> DEFINE x == [task[r] EXCEPT !.rs = rules, !.pc = "answer"]
  <2>1. x \in A!Request /\ x.op = task[r].op /\ x.pc = "answer" /\ x.gs = task[r].gs /\ x.rs = rules
    BY <1>1 DEF A!Request
  <2>2. task' = [task EXCEPT ![r] = x] /\ task[r].op \in A!RuleOps
    BY <1>1, <1>2, <1>5 DEF A!ListRules, A!Request, A!RuleOps
  <2> HIDE DEF x
  <2>3. QED
    BY <1>3, <2>1, <2>2
<1>6. QED
  BY <1>4, <1>5

LEMMA AnswersRendered ==
  ASSUME AccessInv, NEW r \in Req, A!Render(r)
  PROVE  AccessInv'
<1>1. /\ task[r] \in A!Request /\ group \in [Group -> A!GroupDoc] /\ rules \subseteq A!Rule
      /\ page.groups \in [Group -> A!GroupDoc] /\ page.rules \subseteq A!Rule
      /\ page = [groups |-> page.groups, rules |-> page.rules]
      /\ faults \in Nat /\ started \in Nat /\ Carries(task[r])
      /\ ~tangled => /\ \A y \in rules : y.subject[1] = "group" => group[y.subject[2]].name # None
                     /\ Subjects(task[r], group, rules)
      /\ ~tangled /\ faults = 0 /\ Busy(task[r]) => Lags(task[r], group, rules, page)
  BY AccessFacts
<1>2. Busy(task[r]) /\ UNCHANGED <<group, rules, people_, started, faults, tangled>> /\ task \in [Req -> A!Request]
  BY DEF A!Render, A!TakeAnswer, A!LoadList, A!ShowLists, Busy, A!server, A!bounds, AccessInv, A!TypeOK
<1>3. A!Idle \in A!Request /\ A!Idle.pc = "idle" /\ A!Idle.gs = None /\ A!Idle.rs = None
  BY IdleIsRequest
<1>4. \A x \in A!Request : x.pc \in {"idle", "load"} => Carries(x) /\ \A g, rs : Subjects(x, g, rs)
  BY DEF Carries, Subjects
<1>5. CASE A!TakeAnswer(r)
  <2> DEFINE loading == [A!Idle EXCEPT !.op = "delete", !.pc = "load"]
             gs == IF task[r].op \in A!RuleOps THEN page.groups ELSE task[r].gs
             rs == IF task[r].op \in A!RuleOps THEN task[r].rs ELSE page.rules
  <2>1. loading \in A!Request /\ loading.pc = "load" /\ loading.gs = None /\ loading.rs = None
    BY <1>3 DEF A!Request
  <2>2. PICK x \in A!Request : /\ task' = [task EXCEPT ![r] = x] /\ x.gs = None /\ x.rs = None
                               /\ x.pc = IF task[r].op = "delete" THEN "load" ELSE "idle"
    BY <1>3, <1>5, <2>1 DEF A!TakeAnswer
  <2> HIDE DEF loading
  <2>3. page' = [groups |-> gs, rules |-> rs] /\ task[r].pc = "answer"
    BY <1>1, <1>5 DEF A!TakeAnswer
  <2>4. gs \in [Group -> A!GroupDoc] /\ rs \subseteq A!Rule
    BY <1>1, <2>3 DEF Carries
  <2>5. ~tangled /\ faults = 0 /\ task[r].op # "delete" => gs = group /\ rs = rules
    BY <1>1, <1>2, <2>3 DEF Lags
  <2> HIDE DEF gs, rs
  <2>6. page'.groups = gs /\ page'.rules = rs /\ page' = [groups |-> page'.groups, rules |-> page'.rules]
    BY <2>3
  <2>7. ~tangled /\ faults = 0 => IF Busy(x) THEN Lags(x, group, rules, page') ELSE page' = [groups |-> group, rules |-> rules]
    BY <2>2, <2>3, <2>5 DEF Lags, Busy
  <2>8. QED
    BY <1>1, <1>2, <1>4, <2>2, <2>4, <2>6, <2>7, GoesOn
<1>6. CASE A!LoadList(r)
  <2>1. task[r].pc = "load" /\ page' = page
    BY <1>6 DEF A!LoadList
  <2> DEFINE x == [task[r] EXCEPT !.gs = group]
             y == [task[r] EXCEPT !.rs = rules]
  <2>2. /\ x \in A!Request /\ x.pc = "load" /\ x.gs = group /\ x.rs = task[r].rs
        /\ y \in A!Request /\ y.pc = "load" /\ y.gs = task[r].gs /\ y.rs = rules
    BY <1>1, <2>1 DEF A!Request
  <2>3. PICK z \in A!Request : /\ task' = [task EXCEPT ![r] = z] /\ z.pc = "load"
                               /\ z.gs \in {group, task[r].gs} /\ z.rs \in {rules, task[r].rs}
    <3>1. task' = [task EXCEPT ![r] = x] \/ task' = [task EXCEPT ![r] = y]
      BY <1>2, <1>6 DEF A!LoadList, A!Request
    <3> HIDE DEF x, y
    <3>2. QED
      BY <2>2, <3>1
  <2> HIDE DEF x, y
  <2>4. Busy(z) /\ (~tangled /\ faults = 0 => Lags(z, group, rules, page))
    BY <1>1, <1>2, <2>1, <2>3 DEF Lags, Busy
  <2>5. QED
    BY <1>1, <1>2, <1>4, <2>1, <2>3, <2>4, GoesOn
<1>7. CASE A!ShowLists(r)
  <2>1. /\ task[r].pc = "load" /\ task[r].gs # None /\ task[r].rs # None
        /\ page' = [groups |-> task[r].gs, rules |-> task[r].rs] /\ task' = [task EXCEPT ![r] = A!Idle]
    BY <1>7 DEF A!ShowLists, A!Finish
  <2>2. page'.groups = task[r].gs /\ page'.rules = task[r].rs /\ page' = [groups |-> page'.groups, rules |-> page'.rules]
        /\ task[r].gs \in [Group -> A!GroupDoc] /\ task[r].rs \subseteq A!Rule
    BY <1>1, <2>1 DEF A!Request
  <2>3. ~tangled /\ faults = 0 => page' = [groups |-> group, rules |-> rules]
    BY <1>1, <1>2, <2>1 DEF Lags
  <2>4. ~Busy(A!Idle)
    BY <1>3 DEF Busy
  <2>5. QED
    BY <1>1, <1>2, <1>3, <1>4, <2>1, <2>2, <2>3, <2>4, GoesOn
<1>8. QED
  BY <1>5, <1>6, <1>7 DEF A!Render

LEMMA AccessStep ==
  ASSUME AccessInv, [A!Next]_(A!vars)
  PROVE  AccessInv'
<1>1. ASSUME NEW r \in Req, A!Fail(r)
      PROVE  AccessInv'
  <2>1. /\ Busy(task[r]) /\ faults' = faults + 1 /\ task' = [task EXCEPT ![r] = A!Idle]
        /\ UNCHANGED <<group, rules, people_, page, started, tangled>>
    BY <1>1 DEF A!Fail, A!Finish, A!server, Busy
  <2>2. A!Idle \in A!Request /\ Carries(A!Idle) /\ ~Busy(A!Idle) /\ \A g, rs : Subjects(A!Idle, g, rs)
    BY IdleIsRequest DEF Carries, Busy, Subjects
  <2>3. faults' \in Nat /\ faults' # 0
    BY <2>1, AccessFacts
  <2>4. QED
    BY <2>1, <2>2, <2>3, AccessFacts, GoesOn
<1>2. CASE (\E u \in Viewer : A!LeaveWorkspace(u)) \/ UNCHANGED A!vars
  <2>1. UNCHANGED <<group, rules, page, task, started, faults, tangled>>
    BY <1>2 DEF A!LeaveWorkspace, A!vars, A!server, A!bounds
  <2>2. people_' \subseteq Viewer
    BY <1>2 DEF A!LeaveWorkspace, A!vars, A!server, AccessInv, A!TypeOK
  <2>3. A!TypeOK'
    BY <2>1, <2>2 DEF AccessInv, A!TypeOK
  <2>4. A!RulesHaveGroup' /\ A!PageCurrent'
    BY <2>1 DEF AccessInv, A!RulesHaveGroup, A!PageCurrent, A!Exists
  <2>5. QED
    BY <2>1, <2>3, <2>4 DEF AccessInv
<1>3. QED
  BY <1>1, <1>2, AccessStarts, GroupsServed, RulesServed, ListsServed, AnswersRendered DEF A!Next, A!Serve

\* The level found, in whatever order the store lists the rules.

\* One turn of the loop of buildChecker, for user u and file f.
Turn(u, f, best, rule) ==
  IF A!Matches(rule, u) /\ A!Applies(rule, f) THEN A!Better(best, rule) ELSE best

\* The recursion behind FoldLeft: a function on the subsets of the positions.
Looping(u, f, order, S, g) ==
  g = [s \in SUBSET S |-> IF s = {} THEN None ELSE Turn(u, f, g[s \ {A!Max(s)}], order[A!Max(s)])]
Loop(u, f, order, S) == CHOOSE g : Looping(u, f, order, S, g)

LEMMA LevelIsLoop ==
  \A order, u, f :
    A!LevelIn(order, u, f) =
      LET best == Loop(u, f, order, DOMAIN order)[DOMAIN order]
      IN  CASE RoleOf[u] = "owner" -> "write"
            [] RoleOf[u] # "owner" /\ best = None -> A!Base(u)
            [] OTHER -> best.level
BY DEF A!LevelIn, A!FoldLeft, A!MapThenFoldSet, Loop, Looping, Turn

\* Positions of which any have a last one.
Ordered(S) == IsFiniteSet(S) /\ \A s \in SUBSET S : s # {} => A!Max(s) \in s

LEMMA PositionsOrdered ==
  ASSUME NEW n \in Nat
  PROVE  Ordered(1..n)
<1>1. IsFiniteSet(1..n)
  BY FS_Interval
<1>2. ASSUME NEW s \in SUBSET (1..n), s # {}
      PROVE  A!Max(s) \in s
  <2> DEFINE D == {n - i : i \in s}
  <2>1. \A i \in s : i \in Nat /\ n - i \in Nat
    BY <1>2
  <2>2. D \in SUBSET Nat /\ D # {}
    BY <1>2, <2>1
  <2>3. PICK d \in D : \A m \in D : d <= m
    BY <2>2, LeastNumber
  <2>4. PICK i \in s : d = n - i
    BY <2>3
  <2>5. ASSUME NEW j \in s PROVE i >= j
    <3>1. n - i <= n - j
      BY <2>3, <2>4
    <3>2. QED
      BY <2>1, <3>1
  <2>6. QED
    BY <2>5 DEF A!Max
<1>3. QED
  BY <1>1, <1>2 DEF Ordered

LEMMA LoopsAgree ==
  ASSUME NEW u, NEW f, NEW order, NEW S, NEW T, NEW g, NEW h, Ordered(S),
         Looping(u, f, order, S, g), Looping(u, f, order, T, h), NEW w \in SUBSET S, w \in SUBSET T
  PROVE  g[w] = h[w]
<1> DEFINE Good == {x \in SUBSET w : g[x] = h[x]}
<1>1. IsFiniteSet(w) /\ \A x \in SUBSET w : x # {} => A!Max(x) \in x
  BY FS_Subset DEF Ordered
<1>2. ASSUME NEW x \in SUBSET w, \A y \in SUBSET x : y # x => y \in Good
      PROVE  x \in Good
  <2>1. CASE x = {}
    BY <2>1 DEF Looping
  <2>2. CASE x # {}
    <3> DEFINE k == A!Max(x)
    <3>1. k \in x
      BY <1>1, <2>2
    <3>2. x \ {k} \in Good
      BY <1>2, <3>1
    <3>3. x \in SUBSET S /\ x \in SUBSET T
      OBVIOUS
    <3>4. g[x] = Turn(u, f, g[x \ {k}], order[k]) /\ h[x] = Turn(u, f, h[x \ {k}], order[k])
      BY <2>2, <3>3 DEF Looping
    <3>5. QED
      BY <3>2, <3>4
  <2>3. QED
    BY <2>1, <2>2
<1> HIDE DEF Good
<1>3. w \in Good
  BY <1>1, <1>2, SubsetInduction
<1>4. QED
  BY <1>3 DEF Good

LEMMA LoopExists ==
  ASSUME NEW u, NEW f, NEW order, NEW S, Ordered(S)
  PROVE  Looping(u, f, order, S, Loop(u, f, order, S))
<1> DEFINE Run(T) == Loop(u, f, order, T)
           Good == {T \in SUBSET S : Looping(u, f, order, T, Run(T))}
<1> USE DEF Ordered
<1>1. ASSUME NEW T \in SUBSET S, \A U \in SUBSET T : U # T => U \in Good
      PROVE  T \in Good
  <2> DEFINE Rest(s) == s \ {A!Max(s)}
             g == [s \in SUBSET T |-> IF s = {} THEN None ELSE Turn(u, f, Run(Rest(s))[Rest(s)], order[A!Max(s)])]
  <2>1. ASSUME NEW x \in SUBSET T, x # T
        PROVE  g[x] = Run(x)[x]
    <3>1. Looping(u, f, order, x, Run(x))
      BY <1>1, <2>1
    <3>2. CASE x = {}
      BY <3>1, <3>2 DEF Looping
    <3>3. CASE x # {}
      <4>1. A!Max(x) \in x /\ Rest(x) \in SUBSET x /\ Rest(x) # T
        BY <2>1, <3>3
      <4>2. Looping(u, f, order, Rest(x), Run(Rest(x)))
        BY <1>1, <4>1
      <4>3. Ordered(x) /\ Rest(x) \in SUBSET Rest(x)
        BY FS_Subset DEF Ordered
      <4>4. Run(x)[Rest(x)] = Run(Rest(x))[Rest(x)]
        BY <3>1, <4>1, <4>2, <4>3, LoopsAgree
      <4>5. Run(x)[x] = Turn(u, f, Run(x)[Rest(x)], order[A!Max(x)])
        BY <3>1, <3>3 DEF Looping
      <4>6. QED
        BY <3>3, <4>4, <4>5
    <3>4. QED
      BY <3>2, <3>3
  <2>2. ASSUME NEW s \in SUBSET T, s # {}
        PROVE  g[Rest(s)] = Run(Rest(s))[Rest(s)]
    <3>1. A!Max(s) \in s
      BY <2>2
    <3>2. QED
      BY <2>1, <3>1
  <2>3. g = [s \in SUBSET T |-> IF s = {} THEN None ELSE Turn(u, f, g[Rest(s)], order[A!Max(s)])]
    <3> DEFINE h == [s \in SUBSET T |-> IF s = {} THEN None ELSE Turn(u, f, g[Rest(s)], order[A!Max(s)])]
    <3>1. \A s \in SUBSET T : g[s] = h[s]
      BY <2>2
    <3>2. QED
      BY <3>1, Zenon
  <2>4. Looping(u, f, order, T, g)
    BY <2>3 DEF Looping
  <2>5. Looping(u, f, order, T, Run(T))
    BY <2>4 DEF Loop
  <2>6. QED
    BY <2>5
<1> HIDE DEF Good
<1>2. IsFiniteSet(S)
  BY DEF Ordered
<1>3. S \in Good
  BY <1>1, <1>2, SubsetInduction
<1>4. QED
  BY <1>3 DEF Good

\* The rules among xs that speak of f to u, and the one that prevails.
Mine(xs, u, f) == {x \in xs : A!Matches(x, u) /\ A!Applies(x, f)}

Prevails(best, xs) ==
  IF xs = {} THEN best = None
  ELSE /\ best \in xs
       /\ \A y \in xs : \/ Length[y.path] < Length[best.path]
                        \/ Length[y.path] = Length[best.path] /\ A!Rank(y.level) <= A!Rank(best.level)

LEMMA RuleFacts ==
  ASSUME NEW x \in A!Rule
  PROVE  x # None /\ Length[x.path] \in Nat /\ A!Rank(x.level) \in 0..2
<1>1. x # None /\ x.path \in RulePath /\ x.level \in {"none", "read", "write"}
  BY AccessAssumption DEF A!Rule, A!Levels
<1>2. QED
  BY <1>1, LengthAssumption DEF A!Rank

LEMMA TurnPrevails ==
  ASSUME NEW xs \in SUBSET A!Rule, NEW x \in A!Rule, NEW best, NEW u, NEW f, Prevails(best, Mine(xs, u, f))
  PROVE  Prevails(Turn(u, f, best, x), Mine(xs \cup {x}, u, f))
<1>1. CASE ~(A!Matches(x, u) /\ A!Applies(x, f))
  <2>1. Mine(xs \cup {x}, u, f) = Mine(xs, u, f)
    BY <1>1 DEF Mine
  <2>2. QED
    BY <1>1, <2>1 DEF Turn
<1>2. CASE A!Matches(x, u) /\ A!Applies(x, f)
  <2> DEFINE M == Mine(xs, u, f)
  <2>1. Mine(xs \cup {x}, u, f) = M \cup {x} /\ Turn(u, f, best, x) = A!Better(best, x)
    BY <1>2 DEF Mine, Turn
  <2>2. \A y \in M \cup {x} : y # None /\ Length[y.path] \in Nat /\ A!Rank(y.level) \in 0..2
    BY RuleFacts DEF Mine
  <2>3. Prevails(best, M)
    OBVIOUS
  <2> HIDE DEF M
  <2>4. CASE M = {}
    <3>1. best = None /\ M \cup {x} = {x}
      BY <2>3, <2>4 DEF Prevails
    <3>2. A!Better(best, x) = x
      BY <3>1 DEF A!Better
    <3>3. Prevails(x, {x})
      BY <2>2 DEF Prevails
    <3>4. QED
      BY <2>1, <3>1, <3>2, <3>3
  <2>5. CASE M # {}
    <3>1. best \in M /\ \A y \in M : \/ Length[y.path] < Length[best.path]
                                     \/ Length[y.path] = Length[best.path] /\ A!Rank(y.level) <= A!Rank(best.level)
      BY <2>3, <2>5 DEF Prevails
    <3>2. best # None
      BY <2>2, <3>1
    <3>3. CASE \/ Length[x.path] > Length[best.path]
               \/ Length[x.path] = Length[best.path] /\ A!Rank(x.level) > A!Rank(best.level)
      <4>1. A!Better(best, x) = x
        BY <3>3 DEF A!Better
      <4>2. \A y \in M \cup {x} : \/ Length[y.path] < Length[x.path]
                                  \/ Length[y.path] = Length[x.path] /\ A!Rank(y.level) <= A!Rank(x.level)
        BY <2>2, <3>1, <3>3
      <4>3. QED
        BY <2>1, <4>1, <4>2 DEF Prevails
    <3>4. CASE ~(\/ Length[x.path] > Length[best.path]
                 \/ Length[x.path] = Length[best.path] /\ A!Rank(x.level) > A!Rank(best.level))
      <4>1. A!Better(best, x) = best
        BY <3>2, <3>4 DEF A!Better
      <4>2. \A y \in M \cup {x} : \/ Length[y.path] < Length[best.path]
                                  \/ Length[y.path] = Length[best.path] /\ A!Rank(y.level) <= A!Rank(best.level)
        BY <2>2, <3>1, <3>4
      <4>3. QED
        BY <2>1, <3>1, <4>1, <4>2 DEF Prevails
    <3>5. QED
      BY <3>3, <3>4
  <2>6. QED
    BY <2>4, <2>5
<1>3. QED
  BY <1>1, <1>2

\* After the loop, the rule that prevails among those listed is the best.
LEMMA LoopPrevails ==
  ASSUME NEW u, NEW f, NEW S, Ordered(S), NEW order \in [S -> A!Rule]
  PROVE  Prevails(Loop(u, f, order, S)[S], Mine({order[i] : i \in S}, u, f))
<1> DEFINE g == Loop(u, f, order, S)
           Listed(s) == {order[i] : i \in s}
           Good == {s \in SUBSET S : Prevails(g[s], Mine(Listed(s), u, f))}
<1>1. Looping(u, f, order, S, g)
  BY LoopExists
<1> HIDE DEF g
<1>2. ASSUME NEW s \in SUBSET S, \A t \in SUBSET s : t # s => t \in Good
      PROVE  s \in Good
  <2>1. CASE s = {}
    <3>1. Mine(Listed(s), u, f) = {}
      BY <2>1 DEF Mine
    <3>2. g[s] = None
      BY <1>1, <2>1 DEF Looping
    <3>3. QED
      BY <3>1, <3>2 DEF Prevails
  <2>2. CASE s # {}
    <3> DEFINE k == A!Max(s)
               t == s \ {k}
    <3>1. k \in s
      BY <2>2 DEF Ordered
    <3>2. t \in Good
      BY <1>2, <3>1
    <3>3. g[s] = Turn(u, f, g[t], order[k])
      BY <1>1, <2>2 DEF Looping
    <3>4. Listed(s) = Listed(t) \cup {order[k]} /\ Listed(t) \in SUBSET A!Rule /\ order[k] \in A!Rule
      BY <3>1
    <3>5. Prevails(g[t], Mine(Listed(t), u, f))
      BY <3>2
    <3> HIDE DEF k, t, Listed
    <3>6. Prevails(Turn(u, f, g[t], order[k]), Mine(Listed(t) \cup {order[k]}, u, f))
      BY <3>4, <3>5, TurnPrevails
    <3>7. QED
      BY <3>3, <3>4, <3>6
  <2>3. QED
    BY <2>1, <2>2
<1> HIDE DEF Good
<1>3. IsFiniteSet(S)
  BY DEF Ordered
<1>4. S \in Good
  BY <1>2, <1>3, SubsetInduction
<1>5. QED
  BY <1>4 DEF Good, g

\* A listing of a finite set lists all of it.
LEMMA ListedAll ==
  ASSUME NEW S, IsFiniteSet(S), NEW order \in A!SetToSeqs(S)
  PROVE  LET n == Cardinality(S)
         IN  n \in Nat /\ order \in [1..n -> S] /\ DOMAIN order = 1..n /\ {order[i] : i \in 1..n} = S
<1> DEFINE n == Cardinality(S)
<1>1. A!Cardinality(S) = n
  BY DEF A!Cardinality, Cardinality
<1>2. n \in Nat
  BY FS_CardinalityType
<1>3. order \in [1..n -> S] /\ \A i, j \in 1..n : i # j => order[i] # order[j]
  BY <1>1 DEF A!SetToSeqs
<1>4. IsFiniteSet(1..n) /\ Cardinality(1..n) = n
  BY <1>2, FS_Interval
<1> HIDE DEF n
<1>5. order \in Injection(1..n, S)
  BY <1>3 DEF Injection, IsInjective
<1>6. Cardinality(S) = n
  BY DEF n
<1>7. order \in Surjection(1..n, S)
  BY <1>4, <1>5, <1>6, FS_Injection
<1>8. {order[i] : i \in 1..n} = S
  BY <1>3, <1>7 DEF Surjection
<1>9. QED
  BY <1>2, <1>3, <1>8 DEF n

LEMMA LevelExact ==
  ASSUME rules \subseteq A!Rule, IsFiniteSet(rules)
  PROVE  A!AccessExact
<1> SUFFICES ASSUME NEW u \in Viewer, NEW f \in File, NEW order \in A!SetToSeqs(rules)
             PROVE  LET mine == {x \in rules : A!Matches(x, u) /\ A!Applies(x, f)}
                        top  == {x \in mine : \A y \in mine : Length[y.path] <= Length[x.path]}
                        l    == A!LevelIn(order, u, f)
                    IN  CASE RoleOf[u] = "owner" -> l = "write"
                          [] RoleOf[u] # "owner" /\ mine = {} -> l = A!Base(u)
                          [] OTHER -> /\ \E x \in top : x.level = l
                                      /\ \A x \in top : A!Rank(x.level) <= A!Rank(l)
  BY DEF A!AccessExact
<1> DEFINE mine == Mine(rules, u, f)
           top  == {x \in mine : \A y \in mine : Length[y.path] <= Length[x.path]}
           n    == Cardinality(rules)
           best == Loop(u, f, order, 1..n)[1..n]
           l    == A!LevelIn(order, u, f)
<1>1. n \in Nat /\ order \in [1..n -> rules] /\ DOMAIN order = 1..n /\ {order[i] : i \in 1..n} = rules
  BY ListedAll
<1>2. l = CASE RoleOf[u] = "owner" -> "write"
            [] RoleOf[u] # "owner" /\ best = None -> A!Base(u)
            [] OTHER -> best.level
  BY <1>1, LevelIsLoop
<1>3. Prevails(best, mine)
  <2>1. order \in [1..n -> A!Rule]
    BY <1>1
  <2> HIDE DEF n
  <2>2. Ordered(1..n)
    BY <1>1, PositionsOrdered
  <2> DEFINE S == 1..n
  <2>3. Ordered(S) /\ order \in [S -> A!Rule]
    BY <2>1, <2>2
  <2> HIDE DEF S
  <2>4. Prevails(Loop(u, f, order, S)[S], Mine({order[i] : i \in S}, u, f))
    BY <2>3, LoopPrevails
  <2>5. {order[i] : i \in S} = rules /\ best = Loop(u, f, order, S)[S]
    BY <1>1 DEF S
  <2> HIDE DEF best
  <2>6. QED
    BY <2>4, <2>5
<1>4. \A x \in mine : x # None /\ Length[x.path] \in Nat /\ A!Rank(x.level) \in 0..2
  BY RuleFacts DEF Mine
<1>5. mine = {x \in rules : A!Matches(x, u) /\ A!Applies(x, f)}
  BY DEF Mine
<1> HIDE DEF mine, best, l
<1>6. CASE RoleOf[u] = "owner"
  BY <1>2, <1>6 DEF l
<1>7. CASE RoleOf[u] # "owner" /\ mine = {}
  <2>1. best = None
    BY <1>3, <1>7 DEF Prevails
  <2>2. l = A!Base(u)
    BY <1>2, <1>7, <2>1
  <2>3. QED
    BY <1>5, <1>7, <2>2 DEF l
<1>8. CASE RoleOf[u] # "owner" /\ mine # {}
  <2>1. best \in mine /\ \A y \in mine : \/ Length[y.path] < Length[best.path]
                                         \/ Length[y.path] = Length[best.path] /\ A!Rank(y.level) <= A!Rank(best.level)
    BY <1>3, <1>8 DEF Prevails
  <2>2. l = best.level
    BY <1>2, <1>4, <1>8, <2>1
  <2>3. best \in top
    BY <1>4, <2>1
  <2>4. \A x \in top : A!Rank(x.level) <= A!Rank(best.level)
    BY <1>4, <2>1
  <2>5. (\E x \in top : x.level = l) /\ \A x \in top : A!Rank(x.level) <= A!Rank(l)
    BY <2>2, <2>3, <2>4
  <2>6. QED
    BY <1>5, <1>8, <2>5 DEF l
<1>9. QED
  BY <1>6, <1>7, <1>8

\* There are finitely many rules, so their listings have an end.
LEMMA RulesInit == A!Init => IsFiniteSet(rules)
BY FS_EmptySet DEF A!Init

LEMMA RulesStep ==
  ASSUME IsFiniteSet(rules), [A!Next]_(A!vars)
  PROVE  IsFiniteSet(rules')
<1>1. ASSUME NEW r \in Req, A!WriteRule(r)
      PROVE  IsFiniteSet(rules')
  <2> DEFINE new  == task[r].rule
             old  == {x \in rules : x.path = new.path /\ x.subject = new.subject}
             Levelled(x) == [x EXCEPT !.level = new.level]
  <2>1. rules' = rules \cup {new} \/ rules' = (rules \ old) \cup {Levelled(x) : x \in old}
    BY <1>1 DEF A!WriteRule
  <2>2. IsFiniteSet(rules \cup {new})
    BY FS_AddElement
  <2>3. IsFiniteSet(rules \ old) /\ IsFiniteSet(old)
    BY FS_Subset
  <2> HIDE DEF Levelled, old
  <2>4. IsFiniteSet({Levelled(x) : x \in old})
    <3> DEFINE image == {Levelled(x) : x \in old}
               h     == [x \in old |-> Levelled(x)]
    <3>1. h \in Surjection(old, image)
      BY DEF Surjection
    <3>2. QED
      BY <2>3, <3>1, FS_Surjection
  <2>5. IsFiniteSet((rules \ old) \cup {Levelled(x) : x \in old})
    BY <2>3, <2>4, FS_Union
  <2>6. QED
    BY <2>1, <2>2, <2>5
<1>2. ASSUME NEW r \in Req, A!DropGroupRules(r) \/ A!DropRule(r)
      PROVE  rules' \subseteq rules
  BY <1>2 DEF A!DropGroupRules, A!DropRule, A!Refuse, A!server
<1>3. \/ UNCHANGED rules
      \/ \E r \in Req : A!WriteRule(r) \/ A!DropGroupRules(r) \/ A!DropRule(r)
  BY DEF A!Next, A!vars, A!server, A!Start, A!Serve, A!Render, A!Fail, A!LeaveWorkspace, A!StartCreate, A!StartRename,
         A!StartDelete, A!StartToggle, A!StartSetRule, A!StartDropRule, A!Begin, A!FindName, A!CreateGroup, A!RenameGroup,
         A!FindGroup, A!DropGroup, A!SaveMembers, A!FindSubject, A!ListGroups, A!ListRules, A!TakeAnswer, A!LoadList,
         A!ShowLists, A!Refuse
<1>4. QED
  BY <1>1, <1>2, <1>3, FS_Subset

AccessSafe == focus = "access" => AccessInv /\ IsFiniteSet(rules)

LEMMA AccessAlways == FocusSpec => []AccessSafe
<1>1. FocusInit => AccessSafe
  BY AccessInit, RulesInit DEF FocusInit, AccessSafe
<1>2. AccessSafe /\ [FocusNext]_focusVars => AccessSafe'
  BY AccessStep, RulesStep, FocusStays DEF AccessSafe
<1>3. QED
  BY <1>1, <1>2, PTL DEF FocusSpec

\* Once its requests are answered, the page of access/page.tsx shows the groups and
\* rules the server has, unless requests overlapped or one failed.
THEOREM PageSafe == FocusSpec => []PageCurrent
<1>1. AccessSafe => PageCurrent
  BY DEF AccessSafe, AccessInv, PageCurrent
<1>2. QED
  BY <1>1, AccessAlways, PTL

\* buildChecker of access.service.ts gives every user and file the level that the
\* schema of the rules promises, in whatever order the store lists the rules; and
\* deleteGroup leaves no rule that names the group, also when it is interrupted.
THEOREM AccessRight == FocusSpec => []AccessSound
<1>1. AccessSafe => AccessSound
  BY LevelExact DEF AccessSafe, AccessInv, AccessSound, A!TypeOK
<1>2. QED
  BY <1>1, AccessAlways, PTL

-----------------------------------------------------------------------------
(* Paging: what a list read page by page shows. *)

LEMMA MinIsLeast ==
  ASSUME NEW S \in SUBSET Nat, S # {}
  PROVE  P!Min(S) \in S /\ \A m \in S : P!Min(S) <= m
BY LeastNumber DEF P!Min

\* The newest entries are all of them, or a full page as new as the rest.
LEMMA NewestPage ==
  ASSUME NEW s, IsFiniteSet(s), s \subseteq P!Entry, NEW t \in P!Newest(s), NEW x \in s
  PROVE  t \subseteq s /\ (x \in t \/ (P!Cardinality(t) = PageSize /\ \A y \in t : y.at >= x.at))
<1>1. PageSize \in Nat /\ Cardinality(s) \in Nat
  BY BoundsAssumption, FS_CardinalityType
<1>2. t \subseteq s /\ P!Cardinality(t) = P!Min({PageSize, P!Cardinality(s)}) /\ \A z \in t, y \in s \ t : z.at >= y.at
  BY DEF P!Newest
<1>3. \A S : P!Cardinality(S) = Cardinality(S)
  BY DEF P!Cardinality, Cardinality
<1>4. Cardinality(t) \in {PageSize, Cardinality(s)}
  <2>1. {PageSize, Cardinality(s)} \in SUBSET Nat
    BY <1>1
  <2>2. QED
    BY <1>2, <1>3, <2>1, MinIsLeast
<1>5. Cardinality(t) = Cardinality(s) => t = s
  BY <1>2, FS_Subset
<1>6. QED
  BY <1>2, <1>3, <1>4, <1>5

Held == IF items = None THEN {} ELSE items

\* Entries keep their time; what was loaded or is on its way was logged once.
TimesKept ==
  /\ IsFiniteSet(log)
  /\ \A x \in log \cup Held \cup fetch.answer : x.id <= made
  /\ \A i \in begun : i <= made
  /\ \A x, y \in log \cup Held \cup fetch.answer : x.id = y.id => x.at = y.at

\* What is fetched is older than what the page has.
FetchedOlder ==
  /\ fetch.pc = "first" => fetch.before = None
  /\ fetch.pc = "older" => fetch.before \in Nat
  /\ fetch.pc \in {"first", "answered"} /\ fetch.before = None => items = None
  /\ fetch.pc \in {"older", "answered"} /\ fetch.before # None => more /\ \A x \in Held : fetch.before <= x.at
  /\ fetch.pc = "older" => items # None
  /\ fetch.pc = "answered" /\ fetch.before # None => \A y \in fetch.answer : y.at < fetch.before
  /\ fetch.pc # "answered" => fetch.answer = {}

\* An entry is shown, by its time, or older than all that is, with more to come.
Reached(x, shown, further) == (\E y \in shown : y.at = x.at) \/ (further /\ \A y \in shown : y.at > x.at)

Coming == IF fetch.pc = "answered" THEN P!Cardinality(fetch.answer) = PageSize ELSE more

NothingSkipped ==
  /\ fetch.pc = "first" => begun = {}
  /\ fetch.pc = "older" => \E y \in items : y.at = fetch.before
  /\ faults = 0 /\ muted = {} /\ (items # None \/ fetch.pc = "answered") =>
       \A x \in log : x.id \in begun /\ ~x.read => Reached(x, Held \cup fetch.answer, Coming)

PagingInv == P!TypeOK /\ TimesKept /\ FetchedOlder /\ NothingSkipped /\ ~repeated

LEMMA PagingInit ==
  ASSUME P!Init
  PROVE  PagingInv
<1> USE DEF P!Init
<1>1. P!Quiet \in P!Ask /\ P!Quiet.pc = "idle" /\ P!Quiet.answer = {} /\ P!Quiet.before = None
  BY DEF P!Quiet, P!Ask
<1>2. P!TypeOK
  <2>1. more = FALSE /\ repeated = FALSE
    OBVIOUS
  <2>2. more \in BOOLEAN /\ repeated \in BOOLEAN
    BY <2>1, Zenon
  <2>3. muted \subseteq Nat
    OBVIOUS
  <2>4. QED
    BY <1>1, <2>2, <2>3 DEF P!TypeOK
<1>3. TimesKept /\ Held = {}
  BY <1>1, FS_EmptySet DEF TimesKept, Held
<1>4. FetchedOlder /\ NothingSkipped
  BY <1>1, <1>3 DEF FetchedOlder, NothingSkipped
<1>5. QED
  BY <1>2, <1>3, <1>4 DEF PagingInv

\* The log gains entries with new identities, loses some, or has some marked.
LEMMA LogKeeps ==
  ASSUME PagingInv, IsFiniteSet(log'), log' \subseteq P!Entry, made' \in Nat, made <= made', clock' \in Nat,
         faults' \in Nat, faults' = 0 => faults = 0,
         UNCHANGED <<kind, muted, items, more, filter, fetch, begun, repeated, started>>,
         \A x \in log' : (x.id > made /\ x.id <= made') \/ \E y \in log : y.id = x.id /\ y.at = x.at /\ (~x.read => ~y.read),
         \A x, y \in log' : x.id > made /\ x.id = y.id => x.at = y.at
  PROVE  PagingInv'
<1> USE DEF PagingInv
<1>1. P!TypeOK'
  BY DEF P!TypeOK
<1>2. Held' = Held /\ Coming' = Coming
  BY DEF Held, Coming
<1>3. made \in Nat /\ (\A x \in log' : x.id \in Nat /\ x.at \in Nat) /\ begun \subseteq Nat
      /\ (\A x \in Held \cup fetch.answer : x.id \in Nat /\ x.at \in Nat)
  BY DEF P!TypeOK, P!Entry, P!Id, P!Ask, Held
<1>4. TimesKept'
  <2>1. \A x \in log' \cup Held \cup fetch.answer : x.id <= made'
    BY <1>3 DEF TimesKept
  <2>2. \A x, y \in log' \cup Held \cup fetch.answer : x.id = y.id => x.at = y.at
    <3> SUFFICES ASSUME NEW x \in log' \cup Held \cup fetch.answer, NEW y \in log' \cup Held \cup fetch.answer, x.id = y.id
                 PROVE  x.at = y.at
      OBVIOUS
    <3>1. CASE x.id > made
      <4>1. x \in log' /\ y \in log'
        BY <1>3, <3>1 DEF TimesKept
      <4>2. QED
        BY <3>1, <4>1
    <3>2. CASE ~(x.id > made)
      <4>1. PICK a \in log \cup Held \cup fetch.answer : a.id = x.id /\ a.at = x.at
        BY <3>2
      <4>2. PICK b \in log \cup Held \cup fetch.answer : b.id = y.id /\ b.at = y.at
        BY <3>2
      <4>3. QED
        BY <4>1, <4>2 DEF TimesKept
    <3>3. QED
      BY <3>1, <3>2
  <2>3. \A i \in begun : i <= made'
    BY <1>3 DEF TimesKept
  <2>4. QED
    BY <1>2, <2>1, <2>2, <2>3 DEF TimesKept
<1>5. FetchedOlder'
  BY <1>2 DEF FetchedOlder
<1>6. NothingSkipped'
  <2> SUFFICES ASSUME faults = 0, muted = {}, items # None \/ fetch.pc = "answered",
                      NEW x \in log', x.id \in begun, ~x.read
               PROVE  Reached(x, Held \cup fetch.answer, Coming)
    BY <1>2 DEF NothingSkipped, Reached
  <2>1. PICK y \in log : y.id = x.id /\ y.at = x.at /\ ~y.read
    BY <1>3 DEF TimesKept
  <2>2. Reached(y, Held \cup fetch.answer, Coming)
    BY <2>1 DEF NothingSkipped
  <2>3. QED
    BY <2>1, <2>2 DEF Reached
<1>7. QED
  BY <1>1, <1>4, <1>5, <1>6

LEMMA LogChanges ==
  ASSUME PagingInv, \/ P!Log \/ P!LoseEntry \/ P!Forget \/ P!DropAsset
                    \/ (\E status \in {404, 500} : P!Catch(status))
                    \/ (\E ids \in {{i} : i \in P!Id} \cup {P!Id} : P!MarkRead(ids))
  PROVE  PagingInv'
<1> USE DEF PagingInv
<1>1. /\ IsFiniteSet(log) /\ log \subseteq P!Entry /\ made \in Nat /\ clock \in Nat /\ faults \in Nat
      /\ \A x \in log : x.id \in Nat /\ x.id <= made
  BY DEF P!TypeOK, TimesKept, P!Entry, P!Id
<1>2. ASSUME P!Append, UNCHANGED <<kind, muted, items, more, filter, fetch, begun, repeated, started, faults>>
      PROVE  PagingInv'
  <2>1. PICK at \in {clock, clock + 1} :
          /\ made < MaxEntries /\ made' = made + 1 /\ clock' = at
          /\ log' = log \cup {[id |-> made + 1, at |-> at, read |-> FALSE]}
    BY <1>2 DEF P!Append
  <2>2. MaxEntries \in Nat
    BY BoundsAssumption
  <2> DEFINE e == [id |-> made + 1, at |-> at, read |-> FALSE]
  <2>3. e \in P!Entry /\ e.id = made + 1
    BY <1>1, <2>1, <2>2 DEF P!Entry, P!Id
  <2>4. log' = log \cup {e}
    BY <2>1
  <2> HIDE DEF e
  <2>5. IsFiniteSet(log')
    BY <1>1, <2>4, FS_AddElement
  <2>6. QED
    BY <1>1, <1>2, <2>1, <2>3, <2>4, <2>5, LogKeeps
<1>3. ASSUME log' \subseteq log, clock' \in Nat, faults' \in {faults, faults + 1},
             UNCHANGED <<kind, made, muted, items, more, filter, fetch, begun, repeated, started>>
      PROVE  PagingInv'
  <2>1. IsFiniteSet(log')
    BY <1>1, <1>3, FS_Subset
  <2>2. QED
    BY <1>1, <1>3, <2>1, LogKeeps
<1>4. CASE P!Log \/ \E status \in {404, 500} : P!Catch(status)
  BY <1>2, <1>4 DEF P!Log, P!Catch
<1>5. CASE P!LoseEntry \/ P!Forget \/ P!DropAsset
  <2>1. CASE P!LoseEntry
    BY <1>1, <1>3, <2>1 DEF P!LoseEntry
  <2>2. CASE P!Forget
    <3>1. log' \subseteq log
      BY <2>2 DEF P!Forget
    <3>2. UNCHANGED <<kind, made, clock, muted, items, more, filter, fetch, begun, repeated, started, faults>>
      BY <2>2 DEF P!Forget
    <3>3. QED
      BY <1>1, <1>3, <3>1, <3>2
  <2>3. CASE P!DropAsset
    BY <1>1, <1>3, <2>3 DEF P!DropAsset
  <2>4. QED
    BY <1>5, <2>1, <2>2, <2>3
<1>6. CASE \E ids \in {{i} : i \in P!Id} \cup {P!Id} : P!MarkRead(ids)
  <2>1. PICK ids : P!MarkRead(ids)
    BY <1>6
  <2> DEFINE Marked(x) == [x EXCEPT !.read = @ \/ x.id \in ids]
  <2>2. log' = {Marked(x) : x \in log} /\ UNCHANGED <<kind, made, clock, muted, items, more, filter, fetch, begun, repeated, started, faults>>
    BY <2>1 DEF P!MarkRead
  <2>3. ASSUME NEW x \in log
        PROVE  Marked(x) \in P!Entry /\ Marked(x).id = x.id /\ Marked(x).at = x.at /\ (~Marked(x).read => ~x.read)
    <3>1. x \in P!Entry /\ (x.read \/ x.id \in ids) \in BOOLEAN
      BY <1>1
    <3>2. QED
      BY <3>1 DEF P!Entry
  <2> HIDE DEF Marked
  <2>4. IsFiniteSet(log')
    <3> DEFINE g == [x \in log |-> Marked(x)]
    <3>1. g \in Surjection(log, log')
      BY <2>2 DEF Surjection
    <3>2. QED
      BY <1>1, <3>1, FS_Surjection
  <2>5. \A x, y \in log' : x.id > made /\ x.id = y.id => x.at = y.at
    BY <1>1, <2>2, <2>3
  <2>6. QED
    BY <1>1, <2>2, <2>3, <2>4, <2>5, LogKeeps
<1>7. QED
  BY <1>4, <1>5, <1>6

LEMMA PageAsks ==
  ASSUME PagingInv, P!LoadMore \/ \E f \in {"all", "unread"} : P!Load(f)
  PROVE  PagingInv'
<1> USE DEF PagingInv
<1>1. P!Quiet \in P!Ask /\ P!Quiet.pc = "idle" /\ P!Quiet.before = None /\ P!Quiet.answer = {}
  BY DEF P!Quiet, P!Ask
<1>2. CASE P!LoadMore
  <2> DEFINE times == {x.at : x \in items}
             a == [P!Quiet EXCEPT !.pc = "older", !.before = P!Min(times)]
  <2>1. /\ fetch.pc = "idle" /\ more /\ items # None /\ items # {} /\ fetch' = a
        /\ UNCHANGED <<kind, made, log, clock, muted, items, more, filter, begun, repeated, started, faults>>
    BY <1>2 DEF P!LoadMore
  <2>2. items \subseteq P!Entry
    BY <2>1 DEF P!TypeOK
  <2>3. times \in SUBSET Nat /\ times # {}
    BY <2>1, <2>2 DEF P!Entry
  <2>4. P!Min(times) \in times /\ \A m \in times : P!Min(times) <= m
    BY <2>3, MinIsLeast
  <2>5. a \in P!Ask /\ a.pc = "older" /\ a.before = P!Min(times) /\ a.answer = {}
    BY <1>1, <2>3, <2>4 DEF P!Ask
  <2>6. \E y \in items : y.at = a.before
    BY <2>4, <2>5
  <2>7. \A y \in items : a.before <= y.at
    BY <2>4, <2>5
  <2>8. a.before \in Nat /\ a.before # None
    BY <2>3, <2>4, <2>5, PagingAssumption
  <2> HIDE DEF a, times
  <2>9. P!TypeOK'
    BY <2>1, <2>5 DEF P!TypeOK
  <2>10. Held' = items /\ Held = items /\ fetch.answer = {}
    BY <2>1 DEF Held, FetchedOlder
  <2>11. TimesKept'
    BY <2>1, <2>5, <2>10 DEF TimesKept
  <2>12. FetchedOlder'
    BY <2>1, <2>5, <2>7, <2>8, <2>10 DEF FetchedOlder
  <2>13. Coming' = Coming
    BY <2>1, <2>5 DEF Coming
  <2>14. NothingSkipped'
    BY <2>1, <2>5, <2>6, <2>10, <2>13 DEF NothingSkipped
  <2>15. QED
    BY <2>1, <2>9, <2>11, <2>12, <2>14
<1>3. ASSUME NEW f \in {"all", "unread"}, P!Load(f)
      PROVE  PagingInv'
  <2> DEFINE a == [P!Quiet EXCEPT !.pc = "first"]
  <2>1. a \in P!Ask /\ a.pc = "first" /\ a.before = None /\ a.answer = {}
    BY <1>1 DEF P!Ask
  <2>2. /\ fetch.pc = "idle" /\ fetch' = a /\ items' = None /\ begun' = {} /\ repeated' = FALSE /\ filter' = f
        /\ started' = started + 1 /\ UNCHANGED <<kind, made, log, clock, muted, more, faults>>
    BY <1>3 DEF P!Load
  <2> HIDE DEF a
  <2>13. repeated' \in BOOLEAN
    BY <2>2, Zenon
  <2>3. P!TypeOK'
    BY <2>1, <2>2, <2>13 DEF P!TypeOK
  <2>4. Held' = {}
    BY <2>2 DEF Held
  <2>5. TimesKept'
    BY <2>1, <2>2, <2>4 DEF TimesKept
  <2>6. FetchedOlder' /\ NothingSkipped'
    BY <2>1, <2>2, <2>4, PagingAssumption DEF FetchedOlder, NothingSkipped
  <2>7. QED
    BY <2>2, <2>3, <2>5, <2>6
<1>4. QED
  BY <1>2, <1>3

LEMMA StoreAnswers ==
  ASSUME PagingInv, P!Answer
  PROVE  PagingInv'
<1> USE DEF PagingInv
<1> DEFINE s == P!Matching(fetch.before)
<1>1. PICK t \in P!Answers(fetch.before) : fetch' = [fetch EXCEPT !.pc = "answered", !.answer = t]
  BY DEF P!Answer
<1>2. /\ fetch.pc \in {"first", "older"} /\ begun' = IF fetch.pc = "first" THEN {x.id : x \in P!Matching(None)} ELSE begun
      /\ UNCHANGED <<kind, made, log, clock, muted, items, more, filter, repeated, started, faults>>
  BY DEF P!Answer
<1>3. /\ fetch \in P!Ask /\ fetch.answer = {} /\ log \subseteq P!Entry /\ IsFiniteSet(log) /\ made \in Nat
      /\ \A x \in log : x.id \in Nat /\ x.at \in Nat
  BY <1>2 DEF P!TypeOK, FetchedOlder, TimesKept, P!Entry, P!Id
<1>4. s \subseteq log /\ IsFiniteSet(s) /\ s \subseteq P!Entry
  <2>1. s \subseteq log
    BY DEF P!Matching
  <2>2. QED
    BY <1>3, <2>1, FS_Subset
<1>5. PICK n \in P!Newest(s) : t \subseteq n /\ (muted = {} => t = n)
  <2>1. CASE kind = "notices"
    <3>1. PICK n \in P!Newest(s) : t = {x \in n : x.id \notin muted}
      BY <1>1, <2>1 DEF P!Answers, P!Notices
    <3>2. QED
      BY <3>1
  <2>2. CASE kind # "notices"
    BY <1>1, <2>2 DEF P!Answers, P!Revisions, P!Assets
  <2>3. QED
    BY <2>1, <2>2
<1>6. t \subseteq log /\ n \subseteq s
  BY <1>4, <1>5 DEF P!Newest
<1> DEFINE a == [fetch EXCEPT !.pc = "answered", !.answer = t]
<1>7. a \in P!Ask /\ a.pc = "answered" /\ a.before = fetch.before /\ a.answer = t /\ fetch' = a
  BY <1>1, <1>3, <1>6 DEF P!Ask
<1> HIDE DEF a, s
<1>8. begun' \subseteq P!Id /\ \A i \in begun' : i <= made
  <2>1. P!Matching(None) \subseteq log
    BY DEF P!Matching
  <2>2. QED
    BY <1>2, <1>3, <2>1 DEF TimesKept, P!TypeOK, P!Entry
<1>9. P!TypeOK'
  BY <1>2, <1>7, <1>8 DEF P!TypeOK
<1>10. Held' = Held
  BY <1>2 DEF Held
<1>11. TimesKept'
  <2>1. log' \cup Held' \cup fetch'.answer \subseteq log \cup Held \cup fetch.answer
    BY <1>2, <1>6, <1>7, <1>10
  <2>2. QED
    BY <1>2, <1>8, <2>1 DEF TimesKept
<1>12. \A y \in t : fetch.before # None => y.at < fetch.before
  BY <1>5, <1>6 DEF P!Matching, s
<1>13. FetchedOlder'
  <2>1. fetch.pc = "first" => fetch.before = None /\ items = None
    BY DEF FetchedOlder
  <2>2. fetch.pc = "older" => more /\ \A x \in Held : fetch.before <= x.at
    BY PagingAssumption DEF FetchedOlder
  <2>3. CASE fetch.pc = "first"
    <3>1. fetch'.before = None /\ items' = None
      BY <1>2, <1>7, <2>1, <2>3
    <3>2. QED
      BY <1>7, <3>1, PagingAssumption DEF FetchedOlder
  <2>4. CASE fetch.pc = "older"
    <3>1. fetch.before # None
      BY <2>4, PagingAssumption DEF FetchedOlder
    <3>2. QED
      BY <1>2, <1>7, <1>10, <1>12, <2>2, <2>4, <3>1 DEF FetchedOlder
  <2>5. QED
    BY <1>2, <2>3, <2>4
<1>14. NothingSkipped'
  <2> SUFFICES ASSUME faults = 0, muted = {}, NEW x \in log, x.id \in begun', ~x.read
               PROVE  Reached(x, Held \cup t, P!Cardinality(t) = PageSize)
    BY <1>2, <1>7, <1>10 DEF NothingSkipped, Coming
  <2>1. t = n
    BY <1>5
  <2>2. ASSUME x \in s
        PROVE  (\E y \in t : y.at = x.at) \/ (P!Cardinality(t) = PageSize /\ \A y \in t : y.at > x.at)
    <3>1. x \in t \/ (P!Cardinality(t) = PageSize /\ \A y \in t : y.at >= x.at)
      BY <1>4, <1>5, <2>1, <2>2, NewestPage
    <3>2. QED
      BY <1>3, <1>6, <3>1
  <2>3. CASE fetch.pc = "first"
    <3>1. fetch.before = None /\ Held = {}
      BY <2>3 DEF FetchedOlder, Held
    <3>2. PICK z \in P!Matching(None) : z.id = x.id
      BY <1>2, <2>3
    <3>3. x \in s
      BY <3>1 DEF P!Matching, s
    <3>4. QED
      BY <2>2, <3>1, <3>3 DEF Reached
  <2>4. CASE fetch.pc = "older"
    <3>1. x.id \in begun /\ items # None /\ fetch.before \in Nat /\ fetch.before # None
      BY <1>2, <2>4, PagingAssumption DEF FetchedOlder
    <3>2. Held = items /\ more /\ (\A y \in items : fetch.before <= y.at) /\ \E y \in items : y.at = fetch.before
      BY <2>4, <3>1 DEF FetchedOlder, NothingSkipped, Held
    <3>3. (\E y \in Held : y.at = x.at) \/ \A y \in Held : y.at > x.at
      BY <1>3, <2>4, <3>1 DEF NothingSkipped, Reached
    <3>4. CASE \A y \in Held : y.at > x.at
      <4>1. x.at < fetch.before
        BY <3>2, <3>4
      <4>2. x \in s
        BY <3>1, <4>1 DEF P!Matching, s
      <4>3. QED
        BY <2>2, <3>4, <4>2 DEF Reached
    <3>5. QED
      BY <3>3, <3>4 DEF Reached
  <2>5. QED
    BY <1>2, <2>3, <2>4
<1>15. QED
  BY <1>2, <1>9, <1>11, <1>13, <1>14

LEMMA PageTakes ==
  ASSUME PagingInv, P!Arrive \/ P!Fail
  PROVE  PagingInv'
<1> USE DEF PagingInv
<1>1. P!Quiet \in P!Ask /\ P!Quiet.pc = "idle" /\ P!Quiet.before = None /\ P!Quiet.answer = {}
  BY DEF P!Quiet, P!Ask
<1>2. fetch \in P!Ask /\ Held \subseteq P!Entry /\ fetch.answer \subseteq P!Entry /\ repeated = FALSE
  BY DEF P!TypeOK, P!Ask, Held
<1>3. CASE P!Arrive
  <2>1. /\ fetch.pc = "answered" /\ items' = Held \cup fetch.answer /\ fetch' = P!Quiet
        /\ more' = (P!Cardinality(fetch.answer) = PageSize)
        /\ repeated' = (repeated \/ \E x \in Held, y \in fetch.answer : x.id = y.id)
        /\ UNCHANGED <<kind, made, log, clock, muted, filter, begun, started, faults>>
    BY <1>3 DEF P!Arrive, Held
  <2>2. ASSUME NEW x \in Held, NEW y \in fetch.answer, x.id = y.id
        PROVE  FALSE
    <3>1. x.at = y.at /\ x.at \in Nat
      BY <1>2, <2>2 DEF TimesKept, P!Entry
    <3>2. fetch.before # None
      BY <2>1, <2>2 DEF FetchedOlder, Held
    <3>3. fetch.before <= x.at /\ y.at < fetch.before /\ fetch.before \in Nat
      BY <1>2, <2>1, <3>2 DEF FetchedOlder, P!Ask
    <3>4. QED
      BY <3>1, <3>3
  <2>3. repeated' = FALSE
    BY <1>2, <2>1, <2>2, Zenon
  <2>4. P!TypeOK'
    <3>1. repeated' \in BOOLEAN /\ more' \in BOOLEAN
      BY <2>1, <2>3
    <3>2. QED
      BY <1>1, <1>2, <2>1, <3>1 DEF P!TypeOK
  <2>5. Held' \subseteq Held \cup fetch.answer /\ (items' # None => Held' = Held \cup fetch.answer)
    BY <2>1 DEF Held
  <2>6. TimesKept'
    BY <1>1, <2>1, <2>5 DEF TimesKept
  <2>7. FetchedOlder'
    BY <1>1, <2>1 DEF FetchedOlder
  <2>8. Coming' <=> Coming
    BY <1>1, <2>1 DEF Coming
  <2>9. NothingSkipped'
    BY <1>1, <2>1, <2>5, <2>8 DEF NothingSkipped, Reached
  <2>10. QED
    BY <2>3, <2>4, <2>6, <2>7, <2>9
<1>4. CASE P!Fail
  <2>1. /\ faults \in Nat /\ faults' = faults + 1 /\ fetch' = P!Quiet
        /\ items' = IF fetch.before = None THEN {} ELSE items
        /\ more' = IF fetch.before = None THEN FALSE ELSE more
        /\ UNCHANGED <<kind, made, log, clock, muted, filter, begun, repeated, started>>
    BY <1>4 DEF P!Fail, P!TypeOK
  <2>2. more' \in BOOLEAN
    <3>1. more \in BOOLEAN /\ FALSE \in BOOLEAN
      BY DEF P!TypeOK
    <3>2. QED
      BY <2>1, <3>1, Zenon
  <2>10. items' \in (SUBSET P!Entry) \cup {None}
    <3>1. {} \in SUBSET P!Entry
      OBVIOUS
    <3>2. items \in (SUBSET P!Entry) \cup {None}
      BY DEF P!TypeOK
    <3>3. QED
      BY <2>1, <3>1, <3>2
  <2>11. fetch' \in P!Ask
    BY <2>1 DEF P!Ask, P!Quiet
  <2>12. started' \in Nat /\ faults' \in Nat
    BY <2>1 DEF P!TypeOK
  <2>3. P!TypeOK'
    BY <2>1, <2>2, <2>10, <2>11, <2>12 DEF P!TypeOK
  <2>4. Held' \subseteq Held
    BY <2>1 DEF Held
  <2>5. TimesKept'
    BY <1>1, <2>1, <2>4 DEF TimesKept
  <2>6. FetchedOlder' /\ NothingSkipped'
    BY <1>1, <2>1 DEF FetchedOlder, NothingSkipped
  <2>7. QED
    BY <2>1, <2>3, <2>5, <2>6
<1>5. QED
  BY <1>3, <1>4

LEMMA PagingStep ==
  ASSUME PagingInv, [P!Next]_(P!vars)
  PROVE  PagingInv'
<1>1. CASE UNCHANGED P!vars
  <2>1. UNCHANGED <<kind, made, log, clock, muted, items, more, filter, fetch, begun, repeated, started, faults>>
    BY <1>1 DEF P!vars
  <2>2. P!TypeOK'
    BY <2>1 DEF PagingInv, P!TypeOK
  <2>3. Held' = Held /\ Coming' = Coming
    BY <2>1 DEF Held, Coming
  <2>4. TimesKept'
    BY <2>1, <2>3 DEF PagingInv, TimesKept
  <2>5. FetchedOlder'
    BY <2>1, <2>3 DEF PagingInv, FetchedOlder
  <2>6. NothingSkipped'
    BY <2>1, <2>3 DEF PagingInv, NothingSkipped, Reached
  <2>7. QED
    BY <2>1, <2>2, <2>4, <2>5, <2>6 DEF PagingInv
<1>2. QED
  BY <1>1, LogChanges, PageAsks, StoreAnswers, PageTakes DEF P!Next

PagingSafe == focus = "paging" => PagingInv

LEMMA PagingAlways == FocusSpec => []PagingSafe
<1>1. FocusInit => PagingSafe
  BY PagingInit DEF FocusInit, PagingSafe
<1>2. PagingSafe /\ [FocusNext]_focusVars => PagingSafe'
  BY PagingStep, FocusStays DEF PagingSafe
<1>3. QED
  BY <1>1, <1>2, PTL DEF FocusSpec

\* A list read to its end by pages shows every entry that was there when it was
\* loaded, or one of the same millisecond, and nothing twice, though the cursor of
\* audit.service.ts, error-log.service.ts and listNotifications is a time.
THEOREM ListSafe == FocusSpec => []ListComplete
<1>1. PagingInv => P!ListComplete
  <2> SUFFICES ASSUME PagingInv, fetch.pc = "idle", items # None, ~more, faults = 0, muted = {},
                      NEW x \in log, x.id \in begun, ~x.read
               PROVE  \E y \in items : y.at = x.at
    BY DEF P!ListComplete, PagingInv
  <2>1. Held = items /\ fetch.answer = {} /\ ~Coming
    BY DEF PagingInv, FetchedOlder, Held, Coming
  <2>2. Reached(x, items, Coming)
    BY <2>1 DEF PagingInv, NothingSkipped
  <2>3. QED
    BY <2>1, <2>2 DEF Reached
<1>2. PagingSafe => ListComplete
  BY <1>1 DEF PagingSafe, ListComplete
<1>3. QED
  BY <1>2, PagingAlways, PTL

-----------------------------------------------------------------------------
\* The state of every service has its types.
THEOREM TypesSafe == FocusSpec => []Types
<1>1. LibrarySafe /\ AccountSafe /\ VersionSafe /\ RecordsSafe /\ InboxSafe /\ AccessSafe /\ PagingSafe => Types
  BY DEF LibrarySafe, LibraryInv, AccountSafe, AccountInv, VersionSafe, VersionInv, RecordsSafe,
     InboxSafe, InboxInv, AccessSafe, AccessInv, PagingSafe, PagingInv, Types
<1>2. QED
  BY <1>1, LibraryAlways, AccountAlways, VersionAlways, RecordsAlways, InboxAlways, AccessAlways, PagingAlways, PTL

=============================================================================
