-------------------------- MODULE DocumentsProofs --------------------------
(***************************************************************************)
(* Theorems about the document pipeline, for any paths, contents, users,   *)
(* number of requests in flight and number of faults.                      *)
(*                                                                         *)
(*   TypeSafe          variables keep their types and every request in     *)
(*                     flight has the local variables its pc needs         *)
(*   MirrorSafe        file and record agree on every path that no         *)
(*                     interleaving or fault has touched in between        *)
(*   SequentialMirror  without faults and overlap they always agree        *)
(*   HistorySafe       a resolved save is never lost from the history      *)
(*                                                                         *)
(* and, as long as requests come one at a time and none fails,             *)
(*                                                                         *)
(*   BacklinksSafe     backlinks are exactly the links of the documents    *)
(*   HeadSafe          the newest revision is the current content          *)
(*   FollowersSafe     nothing is left at a path without a document        *)
(*   RetargetSafe      a move leaves no link to the old path               *)
(*   WatchSafe         nobody loses a watch unheard                        *)
(*                                                                         *)
(* They rest on four inductive invariants (Typed, MirrorInv, HistoryInv    *)
(* and, for the last five, SerialInv) and on one lemma per action or group *)
(* of actions.                                                             *)
(***************************************************************************)
EXTENDS Documents, TLAPS

(***************************************************************************)
(* Types.  TypeOK is not inductive: IndexDocument puts req[r].draft into   *)
(* the index, so draft must be a content, not None, at that pc.            *)
(***************************************************************************)

UpsertPC  == {"write", "index", "addLinks", "pullLinks", "readLinkers",
              "setLinks", "readLatest", "snapshot", "notifyChanged"}
DeletePC  == {"notifyDeleted", "dropHistory", "dropComments", "dropWatches"}
RemovePC  == {"removeFile", "removeDoc", "unlink"}
MovePC    == {"clash", "readInbound", "moveHistory", "moveComments",
              "readWatchers", "moveWatch", "notifyMoved"}

WellFormed(s) ==
  /\ s.pc \in UpsertPC \cup {"readPaths"} => s.path \in Path /\ s.draft \in Content
  /\ s.pc = "readPaths" => s.to \in Path
  /\ s.pc \in DeletePC => s.op = "delete"
  /\ s.pc \in RemovePC => s.op \in {"delete", "move"}
  /\ s.pc \in MovePC \/ s.ret = "moveHistory" => s.op = "move"
  /\ s.op \in {"delete", "move"} => s.from \in Path
  /\ s.op = "move" => s.to \in Path
  /\ s.op = "move" /\ s.pc \in RemovePC \cup {"clash", "readInbound"} =>
       s.draft \in Content

Typed == TypeOK /\ \A r \in Req : WellFormed(req[r])

LEMMA IdleOK == Idle \in Request /\ WellFormed(Idle)
  BY DEF Idle, Request, WellFormed, PC, UpsertPC, DeletePC, RemovePC, MovePC

LEMMA ReqStep ==
  ASSUME Typed, NEW r \in Req, NEW s \in Request, WellFormed(s),
         req' = [req EXCEPT ![r] = s]
  PROVE  req' \in [Req -> Request] /\ \A q \in Req : WellFormed(req'[q])
  BY DEF Typed, TypeOK

LEMMA ReqIn == ASSUME Typed, NEW r \in Req
               PROVE  req[r] \in Request /\ WellFormed(req[r])
  BY DEF Typed, TypeOK

LEMMA PcField ==
  ASSUME NEW s \in Request, NEW pc \in PC
  PROVE  [s EXCEPT !.pc = pc] \in Request
  BY DEF Request

LEMMA NextFields ==
  ASSUME NEW s \in Request, NEW pc \in PC, NEW ret \in {"next", "moveHistory"}
  PROVE  [s EXCEPT !.pc = pc, !.ret = ret, !.back = {}, !.last = None] \in Request
  BY DEF Request

LEMMA TargetFields ==
  ASSUME NEW s \in Request, NEW pc \in PC, NEW p \in Path,
         NEW ret \in {"next", "moveHistory"}
  PROVE  [s EXCEPT !.pc = pc, !.path = p, !.ret = ret] \in Request
  BY DEF Request

LEMMA DoneFields ==
  ASSUME NEW s \in Request, NEW pc \in PC
  PROVE  [s EXCEPT !.pc = pc, !.path = None, !.draft = None, !.back = {},
                   !.last = None] \in Request
  BY DEF Request

LEMMA GotoStep ==
  ASSUME Typed, NEW r \in Req, NEW pc \in PC, Goto(r, pc),
         WellFormed([req[r] EXCEPT !.pc = pc])
  PROVE  req' \in [Req -> Request] /\ \A q \in Req : WellFormed(req'[q])
<1>1. [req[r] EXCEPT !.pc = pc] \in Request
  BY ReqIn, PcField
<1>2. req' = [req EXCEPT ![r] = [req[r] EXCEPT !.pc = pc]]
  BY DEF Goto
<1>3. QED BY <1>1, <1>2, ReqStep

LEMMA FinishStep ==
  ASSUME Typed, NEW r \in Req, Finish(r)
  PROVE  req' \in [Req -> Request] /\ \A q \in Req : WellFormed(req'[q])
  BY IdleOK, ReqStep DEF Finish

LEMMA UpsertingOK ==
  ASSUME NEW s \in Request, WellFormed(s), NEW d \in s.todo,
         s.ret = "moveHistory" => s.op = "move"
  PROVE  Upserting(s, d) \in Request /\ WellFormed(Upserting(s, d))
<1>1. d \in [path : Path, draft : Content]
  BY DEF Request
<1>2. d.path \in Path /\ d.draft \in Content
  BY <1>1
<1>3. Upserting(s, d) \in Request
  BY ZenonT(60), <1>2 DEF Upserting, Request, PC
<1>4. /\ Upserting(s, d).pc = "write"
      /\ Upserting(s, d).op = s.op
      /\ Upserting(s, d).ret = s.ret
      /\ Upserting(s, d).from = s.from
      /\ Upserting(s, d).to = s.to
      /\ Upserting(s, d).path = d.path
      /\ Upserting(s, d).draft = d.draft
  BY DEF Upserting, Request
<1>5. WellFormed(Upserting(s, d))
  BY <1>2, <1>4 DEF WellFormed, UpsertPC, DeletePC, RemovePC, MovePC
<1>6. QED BY <1>3, <1>5

LEMMA NextUpsertOK ==
  ASSUME NEW s \in Request, WellFormed(s), NEW n \in NextUpsert(s)
  PROVE  n \in Request /\ WellFormed(n)
<1>1. CASE s.todo # {}
  BY <1>1, UpsertingOK DEF NextUpsert, WellFormed
<1>2. CASE s.todo = {} /\ s.op # "move"
  BY <1>2, IdleOK DEF NextUpsert
<1>3. CASE s.todo = {} /\ s.op = "move"
  <2>1. n = [s EXCEPT !.pc = "readWatchers", !.path = None, !.draft = None,
                      !.back = {}, !.last = None]
    BY <1>3 DEF NextUpsert
  <2>2. n \in Request
    <3>1. "readWatchers" \in PC
      BY DEF PC
    <3>2. QED BY <2>1, <3>1, DoneFields
  <2>3. n.pc = "readWatchers" /\ n.op = s.op /\ n.from = s.from /\ n.to = s.to
    BY <2>1 DEF Request
  <2>4. WellFormed(n)
    BY <1>3, <2>3 DEF WellFormed, UpsertPC, DeletePC, RemovePC, MovePC
  <2>5. QED BY <2>2, <2>4
<1>4. QED BY <1>1, <1>2, <1>3

LEMMA ResolveStep ==
  ASSUME Typed, NEW r \in Req, Resolve(r), req[r].pc \in UpsertPC
  PROVE  /\ req' \in [Req -> Request]
         /\ \A q \in Req : WellFormed(req'[q])
         /\ settled' \in [Path -> Content \cup {None}]
<1> DEFINE s == req[r]
<1>1. s \in Request /\ WellFormed(s)
  BY ReqIn
<1>2. s.draft \in Content
  BY <1>1 DEF WellFormed
<1>3. settled' \in [Path -> Content \cup {None}]
  BY <1>2 DEF Resolve, Typed, TypeOK
<1>4. CASE s.ret = "moveHistory"
  <2> DEFINE n == [s EXCEPT !.pc = "moveHistory", !.ret = "next",
                            !.back = {}, !.last = None]
  <2>1. req' = [req EXCEPT ![r] = n]
    BY <1>4 DEF Resolve
  <2>2. n \in Request
    <3>1. "moveHistory" \in PC
      BY DEF PC
    <3>2. QED BY <1>1, <3>1, NextFields
  <2>3. /\ n.pc = "moveHistory"
        /\ n.op = s.op
        /\ n.from = s.from
        /\ n.to = s.to
    BY <1>1 DEF Request
  <2>4. WellFormed(n)
    BY <1>1, <1>4, <2>3 DEF WellFormed, UpsertPC, DeletePC, RemovePC, MovePC
  <2>5. QED BY <2>1, <2>2, <2>4, <1>3, ReqStep
<1>5. CASE s.ret # "moveHistory"
  BY <1>1, <1>3, <1>5, NextUpsertOK, ReqStep DEF Resolve
<1>6. QED BY <1>4, <1>5

(***************************************************************************)
(* Type correctness: one lemma per group of actions.                       *)
(***************************************************************************)
LEMMA BeginTyped ==
  ASSUME Typed, NEW r \in Req, NEW s \in Request, WellFormed(s), Begin(r, s),
         settled' \in [Path -> Content \cup {None}]
  PROVE  Typed'
<1>1. req' \in [Req -> Request] /\ \A q \in Req : WellFormed(req'[q])
  BY ReqStep DEF Begin
<1>2. started' \in Nat /\ tangled' \in BOOLEAN
  BY DEF Begin, Typed, TypeOK, Quiet, Busy
<1>3. UNCHANGED <<stores, satellites, faults, erased, suspect>>
  BY DEF Begin
<1>4. QED
  BY <1>1, <1>2, <1>3 DEF Typed, TypeOK, stores, satellites

StartPC == {"idle", "write", "readPaths", "notifyDeleted", "clash", "readWatchers"}

LEMMA NextUpsertPC ==
  ASSUME NEW s \in Request, NEW n \in NextUpsert(s)
  PROVE  n.pc \in {"idle", "write", "readWatchers"}
<1>1. CASE s.todo # {}
  <2>1. PICK d \in s.todo : n = Upserting(s, d)
    BY <1>1 DEF NextUpsert
  <2>2. n.pc = "write"
    BY <2>1 DEF Upserting, Request
  <2>3. QED BY <2>2
<1>2. CASE s.todo = {} /\ s.op = "move"
  <2>1. n = [s EXCEPT !.pc = "readWatchers", !.path = None, !.draft = None,
                      !.back = {}, !.last = None]
    BY <1>2 DEF NextUpsert
  <2>2. n.pc = "readWatchers"
    BY <2>1 DEF Request
  <2>3. QED BY <2>2
<1>3. CASE s.todo = {} /\ s.op # "move"
  <2>1. n.pc = "idle"
    BY <1>3 DEF NextUpsert, Idle
  <2>2. QED BY <2>1
<1>4. QED BY <1>1, <1>2, <1>3

\* Whatever request starts, it starts well formed and before its first store
\* access or read.
LEMMA StartBegins ==
  ASSUME Typed, NEW r \in Req, Start(r)
  PROVE  /\ \E s \in Request : WellFormed(s) /\ s.pc \in StartPC /\ Begin(r, s)
         /\ settled' = settled \/ \E p \in Path : settled' = [settled EXCEPT ![p] = None]
<1> USE DEF Indexed
<1>0. /\ index \in [Path -> Content \cup {None}]
      /\ settled \in [Path -> Content \cup {None}]
  BY DEF Typed, TypeOK
<1>1. CASE StartSave(r)
  <2>1. PICK p \in Path, c \in Drafts, u \in Actor :
          Begin(r, [Idle EXCEPT !.op = "save", !.pc = "write", !.by = u,
                                !.path = p, !.draft = c])
    BY <1>1 DEF StartSave
  <2> DEFINE s == [Idle EXCEPT !.op = "save", !.pc = "write", !.by = u,
                               !.path = p, !.draft = c]
  <2>2. c \in Content /\ u \in User \cup {None}
    BY DraftsAssumption, ActorAssumption
  <2>3. s \in Request
    BY <2>2 DEF Idle, Request, PC
  <2>4. WellFormed(s)
    BY <2>2 DEF Idle, WellFormed, UpsertPC, DeletePC, RemovePC, MovePC
  <2>5. s.pc \in StartPC
    BY DEF Idle, StartPC
  <2>6. QED BY <1>1, <2>1, <2>3, <2>4, <2>5 DEF StartSave
<1>2. CASE StartImport(r)
  <2>1. PICK files \in SUBSET [path: Path, draft: Drafts], u \in Actor :
          \E s \in NextUpsert([Idle EXCEPT !.op = "import", !.by = u,
                                           !.todo = files]) : Begin(r, s)
    BY <1>2 DEF StartImport
  <2> DEFINE s == [Idle EXCEPT !.op = "import", !.by = u, !.todo = files]
  <2>2. files \subseteq [path: Path, draft: Content] /\ u \in User \cup {None}
    BY DraftsAssumption, ActorAssumption
  <2>3. s \in Request
    BY <2>2 DEF Idle, Request, PC
  <2>4. WellFormed(s)
    BY <2>2 DEF Idle, WellFormed, UpsertPC, DeletePC, RemovePC, MovePC
  <2>5. QED BY <1>2, <2>1, <2>3, <2>4, NextUpsertOK, NextUpsertPC
            DEF StartImport, StartPC
<1>3. CASE StartTag(r)
  <2>1. PICK p \in Indexed, t \in Text, u \in Actor :
          Begin(r, [Idle EXCEPT !.op = "tag", !.pc = "write", !.by = u,
                        !.path = p, !.draft = [index[p] EXCEPT !.text = t]])
    BY <1>3 DEF StartTag
  <2> DEFINE d == [index[p] EXCEPT !.text = t]
             s == [Idle EXCEPT !.op = "tag", !.pc = "write", !.by = u,
                               !.path = p, !.draft = d]
  <2>2. d \in Content /\ u \in User \cup {None} /\ p \in Path
    BY <1>0, ActorAssumption DEF Content
  <2> HIDE DEF d
  <2>3. s \in Request
    BY <2>2 DEF Idle, Request, PC
  <2>4. WellFormed(s)
    BY <2>2 DEF Idle, WellFormed, UpsertPC, DeletePC, RemovePC, MovePC
  <2>5. Begin(r, s)
    BY <2>1 DEF d
  <2>6. s.pc \in StartPC
    BY DEF Idle, StartPC
  <2>7. QED BY <1>3, <2>3, <2>4, <2>5, <2>6 DEF StartTag
<1>4. CASE StartFix(r)
  <2>1. PICK p \in Indexed, u \in Actor : \E l \in index[p].links :
          Begin(r, [Idle EXCEPT !.op = "fix", !.pc = "readPaths", !.by = u,
                                !.path = p, !.draft = index[p], !.to = l])
    BY <1>4 DEF StartFix
  <2>2. PICK l \in index[p].links :
          Begin(r, [Idle EXCEPT !.op = "fix", !.pc = "readPaths", !.by = u,
                                !.path = p, !.draft = index[p], !.to = l])
    BY <2>1
  <2> DEFINE s == [Idle EXCEPT !.op = "fix", !.pc = "readPaths", !.by = u,
                               !.path = p, !.draft = index[p], !.to = l]
  <2>3. /\ index[p] \in Content
        /\ u \in User \cup {None}
        /\ p \in Path
    BY <1>0, ActorAssumption
  <2>4. l \in Path
    BY <2>3 DEF Content
  <2>5. s \in Request
    BY <2>3, <2>4 DEF Idle, Request, PC
  <2>6. WellFormed(s)
    BY <2>3, <2>4 DEF Idle, WellFormed, UpsertPC, DeletePC, RemovePC, MovePC
  <2>7. s.pc \in StartPC
    BY DEF Idle, StartPC
  <2>8. QED BY <1>4, <2>2, <2>5, <2>6, <2>7 DEF StartFix
<1>5. CASE StartFixAll(r)
  <2> DEFINE repairs == {[path |-> q, draft |-> Repaired(q)] :
                           q \in {x \in Indexed : Repaired(x) # index[x]}}
  <2>1. PICK u \in Actor :
          \E s \in NextUpsert([Idle EXCEPT !.op = "fixAll", !.by = u,
                                           !.todo = repairs]) : Begin(r, s)
    BY <1>5 DEF StartFixAll
  <2>2. ASSUME NEW q \in Indexed
        PROVE  Repaired(q) \in Content
    <3>1. index[q] \in Content
      BY <1>0
    <3>2. \A l \in index[q].links : Namesakes(l, Indexed \ {q}) # {} =>
            Suggest(l, Indexed \ {q}) \in Path
      BY DEF Namesakes, Suggest
    <3>3. {IF l \in Indexed \/ Namesakes(l, Indexed \ {q}) = {}
             THEN l ELSE Suggest(l, Indexed \ {q}) : l \in index[q].links}
            \subseteq Path
      BY <3>1, <3>2 DEF Content
    <3>4. QED BY <3>1, <3>3 DEF Repaired, Content
  <2>3. repairs \subseteq [path: Path, draft: Content]
    BY <2>2
  <2>4. u \in User \cup {None}
    BY ActorAssumption
  <2> DEFINE s == [Idle EXCEPT !.op = "fixAll", !.by = u, !.todo = repairs]
  <2> HIDE DEF repairs
  <2>5. s \in Request
    BY <2>3, <2>4 DEF Idle, Request, PC
  <2>6. WellFormed(s)
    BY DEF Idle, WellFormed, UpsertPC, DeletePC, RemovePC, MovePC
  <2>7. QED BY <1>5, <2>1, <2>5, <2>6, NextUpsertOK, NextUpsertPC
            DEF StartFixAll, StartPC
<1>6. CASE StartDelete(r)
  <2>1. PICK p \in Indexed, u \in Actor :
          /\ Begin(r, [Idle EXCEPT !.op = "delete", !.pc = "notifyDeleted",
                                   !.by = u, !.from = p])
          /\ settled' = [settled EXCEPT ![p] = None]
    BY <1>6 DEF StartDelete
  <2> DEFINE s == [Idle EXCEPT !.op = "delete", !.pc = "notifyDeleted",
                               !.by = u, !.from = p]
  <2>2. u \in User \cup {None} /\ p \in Path
    BY ActorAssumption
  <2>3. s \in Request
    BY <2>2 DEF Idle, Request, PC
  <2>4. WellFormed(s)
    BY <2>2 DEF Idle, WellFormed, UpsertPC, DeletePC, RemovePC, MovePC
  <2>5. s.pc \in StartPC
    BY DEF Idle, StartPC
  <2>6. QED BY <2>1, <2>2, <2>3, <2>4, <2>5
<1>7. CASE StartMove(r)
  <2>1. PICK p \in Indexed, u \in Actor : \E q \in Path \ {p} :
          Begin(r, [Idle EXCEPT !.op = "move", !.pc = "clash", !.by = u,
                                !.from = p, !.to = q, !.draft = index[p]])
    BY <1>7 DEF StartMove
  <2>2. PICK q \in Path \ {p} :
          Begin(r, [Idle EXCEPT !.op = "move", !.pc = "clash", !.by = u,
                                !.from = p, !.to = q, !.draft = index[p]])
    BY <2>1
  <2> DEFINE s == [Idle EXCEPT !.op = "move", !.pc = "clash", !.by = u,
                               !.from = p, !.to = q, !.draft = index[p]]
  <2>3. index[p] \in Content /\ u \in User \cup {None} /\ p \in Path
    BY <1>0, ActorAssumption
  <2>4. s \in Request
    BY <2>3 DEF Idle, Request, PC
  <2>5. WellFormed(s)
    BY <2>3 DEF Idle, WellFormed, UpsertPC, DeletePC, RemovePC, MovePC
  <2>6. s.pc \in StartPC
    BY DEF Idle, StartPC
  <2>7. QED BY <1>7, <2>2, <2>4, <2>5, <2>6 DEF StartMove
<1>8. QED
  BY <1>1, <1>2, <1>3, <1>4, <1>5, <1>6, <1>7 DEF Start

LEMMA StartTyped ==
  ASSUME Typed, NEW r \in Req, Start(r)
  PROVE  Typed'
<1>1. settled' \in [Path -> Content \cup {None}]
  BY StartBegins DEF Typed, TypeOK
<1>2. QED BY <1>1, StartBegins, BeginTyped

\* The steps that only move the program counter of r besides their effect.
LEMMA GotoOK ==
  ASSUME Typed, NEW r \in Req, NEW from, NEW pc \in PC, At(r, from), Goto(r, pc),
         \/ from \in UpsertPC /\ pc \in UpsertPC
         \/ req[r].op = "delete" /\ pc \in DeletePC \cup RemovePC
         \/ req[r].op = "move" /\ from \in MovePC \cup RemovePC /\ pc \in MovePC
              /\ (pc \in {"clash", "readInbound"} => from \in {"clash", "readInbound"})
         \/ req[r].op = "move" /\ from \in RemovePC /\ pc \in RemovePC
  PROVE  req' \in [Req -> Request] /\ \A q \in Req : WellFormed(req'[q])
<1> DEFINE s == req[r]
           n == [s EXCEPT !.pc = pc]
<1>1. s \in Request /\ WellFormed(s)
  BY ReqIn
<1>2. /\ n.pc = pc
      /\ n.op = s.op
      /\ n.ret = s.ret
      /\ n.path = s.path
      /\ n.draft = s.draft
      /\ n.from = s.from
      /\ n.to = s.to
  BY <1>1 DEF Request
<1>3. WellFormed(n)
  BY <1>1, <1>2 DEF At, WellFormed, UpsertPC, DeletePC, RemovePC, MovePC
<1>4. QED BY <1>3, GotoStep

LEMMA NoticesOK ==
  ASSUME NEW p \in Path, NEW by,
         NEW kind \in {"changed", "deleted", "moved", "comment"}
  PROVE  Notices(p, kind, by) \subseteq Notice
<1>1. ASSUME NEW u \in User
      PROVE  [user |-> u, path |-> p, kind |-> kind] \in Notice
  BY <1>1 DEF Notice
<1>2. QED BY <1>1 DEF Notices

LEMMA UpsertTyped ==
  ASSUME Typed, NEW r \in Req, Upsert(r)
  PROVE  Typed'
<1> DEFINE s == req[r]
<1>0. TypeOK /\ s \in Request /\ WellFormed(s)
  BY ReqIn DEF Typed
<1> SUFFICES TypeOK' /\ \A q \in Req : WellFormed(req'[q])
  BY DEF Typed
<1>1. CASE WriteFile(r)
  <2>1. s.path \in Path /\ s.draft \in Content
    BY <1>0, <1>1 DEF WriteFile, At, WellFormed, UpsertPC
  <2>2. req' \in [Req -> Request] /\ \A q \in Req : WellFormed(req'[q])
    BY <1>1, GotoOK DEF WriteFile, UpsertPC, PC
  <2>3. disk' \in [Path -> Content \cup {None}] /\ suspect' \subseteq Path
    BY <1>0, <1>1, <2>1 DEF WriteFile, Claim, TypeOK
  <2>4. QED BY <1>0, <1>1, <2>2, <2>3 DEF WriteFile, TypeOK, satellites, bounds
<1>2. CASE IndexDocument(r)
  <2>1. s.path \in Path /\ s.draft \in Content
    BY <1>0, <1>2 DEF IndexDocument, At, WellFormed, UpsertPC
  <2>2. req' \in [Req -> Request] /\ \A q \in Req : WellFormed(req'[q])
    BY <1>2, GotoOK DEF IndexDocument, UpsertPC, PC
  <2>3. index' \in [Path -> Content \cup {None}]
    BY <1>0, <1>2, <2>1 DEF IndexDocument, TypeOK
  <2>4. QED BY <1>0, <1>2, <2>2, <2>3
            DEF IndexDocument, TypeOK, satellites, ghosts, bounds
<1>3. CASE AddLinks(r)
  <2>1. s.path \in Path
    BY <1>0, <1>3 DEF AddLinks, At, WellFormed, UpsertPC
  <2>2. req' \in [Req -> Request] /\ \A q \in Req : WellFormed(req'[q])
    BY <1>3, GotoOK DEF AddLinks, UpsertPC, PC
  <2>3. incoming' \in [Path -> SUBSET Path]
    BY <1>0, <1>3, <2>1 DEF AddLinks, TypeOK
  <2>4. QED BY <1>0, <1>3, <2>2, <2>3
            DEF AddLinks, TypeOK, satellites, ghosts, bounds
<1>4. CASE PullLinks(r)
  <2>2. req' \in [Req -> Request] /\ \A q \in Req : WellFormed(req'[q])
    BY <1>4, GotoOK DEF PullLinks, UpsertPC, PC
  <2>3. incoming' \in [Path -> SUBSET Path]
    BY <1>0, <1>4 DEF PullLinks, TypeOK
  <2>4. QED BY <1>0, <1>4, <2>2, <2>3
            DEF PullLinks, TypeOK, satellites, ghosts, bounds
<1>5. CASE ReadLinkers(r)
  <2> DEFINE n == [s EXCEPT !.pc = "setLinks", !.back = Linkers(s.path)]
  <2>1. Linkers(s.path) \subseteq Path
    BY DEF Linkers, Indexed
  <2>2. n \in Request
    BY ZenonT(60), <1>0, <2>1 DEF Request, PC
  <2>3. /\ n.pc = "setLinks" /\ n.op = s.op /\ n.ret = s.ret /\ n.path = s.path
        /\ n.draft = s.draft /\ n.from = s.from /\ n.to = s.to
    BY <1>0 DEF Request
  <2>4. WellFormed(n)
    BY <1>0, <1>5, <2>3 DEF ReadLinkers, At, WellFormed, UpsertPC, DeletePC,
                            RemovePC, MovePC
  <2>5. req' = [req EXCEPT ![r] = n]
    BY <1>0, <1>5 DEF ReadLinkers, TypeOK
  <2>6. req' \in [Req -> Request] /\ \A q \in Req : WellFormed(req'[q])
    BY <2>2, <2>4, <2>5, ReqStep
  <2>7. QED BY <1>0, <1>5, <2>6
            DEF ReadLinkers, TypeOK, stores, satellites, ghosts, bounds
<1>6. CASE SetLinks(r)
  <2>1. s.back \subseteq Path
    BY <1>0 DEF Request
  <2>2. req' \in [Req -> Request] /\ \A q \in Req : WellFormed(req'[q])
    BY <1>6, GotoOK DEF SetLinks, UpsertPC, PC
  <2>3. incoming' \in [Path -> SUBSET Path]
    BY <1>0, <1>6, <2>1 DEF SetLinks, TypeOK
  <2>4. QED BY <1>0, <1>6, <2>2, <2>3
            DEF SetLinks, TypeOK, satellites, ghosts, bounds
<1>7. CASE ReadLatest(r)
  <2>1. PICK c \in Latest(s.path) :
          req' = [req EXCEPT ![r].pc = "snapshot", ![r].last = c]
    BY <1>7 DEF ReadLatest
  <2> DEFINE n == [s EXCEPT !.pc = "snapshot", !.last = c]
  <2>2. c \in Content \cup {None}
    BY <1>0, <2>1 DEF Latest, Newest, History, TypeOK, Revision
  <2>3. n \in Request
    BY ZenonT(60), <1>0, <2>2 DEF Request, PC
  <2>4. /\ n.pc = "snapshot" /\ n.op = s.op /\ n.ret = s.ret /\ n.path = s.path
        /\ n.draft = s.draft /\ n.from = s.from /\ n.to = s.to
    BY <1>0 DEF Request
  <2>5. WellFormed(n)
    BY <1>0, <1>7, <2>4 DEF ReadLatest, At, WellFormed, UpsertPC, DeletePC,
                            RemovePC, MovePC
  <2>6. req' = [req EXCEPT ![r] = n]
    BY <1>0, <2>1 DEF TypeOK
  <2>7. req' \in [Req -> Request] /\ \A q \in Req : WellFormed(req'[q])
    BY <2>3, <2>5, <2>6, ReqStep
  <2>8. QED BY <1>0, <1>7, <2>7
            DEF ReadLatest, TypeOK, stores, satellites, ghosts, bounds
<1>8. CASE Snapshot(r)
  <2>1. s.pc \in UpsertPC /\ s.path \in Path /\ s.draft \in Content
    BY <1>0, <1>8 DEF Snapshot, At, WellFormed, UpsertPC
  <2>2. revisions' \subseteq Revision /\ clock' \in Nat
    BY <1>0, <1>8, <2>1 DEF Snapshot, TypeOK, Revision
  <2>3. CASE Resolve(r)
    BY <1>0, <1>8, <2>1, <2>2, <2>3, ResolveStep
       DEF Snapshot, TypeOK, stores, bounds
  <2>4. CASE Goto(r, "notifyChanged") /\ UNCHANGED settled
    <3>1. req' \in [Req -> Request] /\ \A q \in Req : WellFormed(req'[q])
      BY <1>8, <2>4, GotoOK DEF Snapshot, UpsertPC, PC
    <3>2. QED BY <1>0, <1>8, <2>2, <2>4, <3>1
              DEF Snapshot, TypeOK, stores, bounds
  <2>5. QED BY <1>8, <2>3, <2>4 DEF Snapshot
<1>9. CASE NotifyChanged(r)
  <2>1. s.pc \in UpsertPC /\ s.path \in Path
    BY <1>0, <1>9 DEF NotifyChanged, At, WellFormed, UpsertPC
  <2>2. inbox' \subseteq Notice
    BY <1>0, <1>9, <2>1, NoticesOK DEF NotifyChanged, TypeOK
  <2>3. QED BY <1>0, <1>9, <2>1, <2>2, ResolveStep
            DEF NotifyChanged, TypeOK, stores, bounds
<1>10. QED
  BY <1>1, <1>2, <1>3, <1>4, <1>5, <1>6, <1>7, <1>8, <1>9 DEF Upsert

LEMMA RemovalTyped ==
  ASSUME Typed, NEW r \in Req, Removal(r)
  PROVE  Typed'
<1> DEFINE s == req[r]
<1>0. TypeOK /\ s \in Request /\ WellFormed(s)
  BY ReqIn DEF Typed
<1> SUFFICES TypeOK' /\ \A q \in Req : WellFormed(req'[q])
  BY DEF Typed
<1>1. CASE NotifyDeleted(r)
  <2>1. s.op = "delete" /\ s.from \in Path
    BY <1>0, <1>1 DEF NotifyDeleted, At, WellFormed, DeletePC
  <2>2. req' \in [Req -> Request] /\ \A q \in Req : WellFormed(req'[q])
    BY <1>1, <2>1, GotoOK DEF NotifyDeleted, RemovePC, PC
  <2>3. inbox' \subseteq Notice
    BY <1>0, <1>1, <2>1, NoticesOK DEF NotifyDeleted, TypeOK
  <2>4. QED BY <1>0, <1>1, <2>2, <2>3
            DEF NotifyDeleted, TypeOK, stores, ghosts, bounds
<1>2. CASE RemoveFile(r)
  <2>1. s.op \in {"delete", "move"} /\ s.from \in Path
    BY <1>0, <1>2 DEF RemoveFile, At, WellFormed, RemovePC
  <2>2. req' \in [Req -> Request] /\ \A q \in Req : WellFormed(req'[q])
    BY <1>2, <2>1, GotoOK DEF RemoveFile, RemovePC, PC
  <2>3. disk' \in [Path -> Content \cup {None}] /\ suspect' \subseteq Path
    BY <1>0, <1>2, <2>1 DEF RemoveFile, Claim, TypeOK
  <2>4. QED BY <1>0, <1>2, <2>2, <2>3 DEF RemoveFile, TypeOK, satellites, bounds
<1>3. CASE RemoveDoc(r)
  <2>1. s.op \in {"delete", "move"} /\ s.from \in Path
    BY <1>0, <1>3 DEF RemoveDoc, At, WellFormed, RemovePC
  <2>2. req' \in [Req -> Request] /\ \A q \in Req : WellFormed(req'[q])
    <3>1. CASE s.op = "delete"
      BY <1>3, <3>1, GotoOK DEF RemoveDoc, DeletePC, PC
    <3>2. CASE s.op = "move"
      BY <1>3, <3>2, GotoOK DEF RemoveDoc, RemovePC, PC
    <3>3. QED BY <2>1, <3>1, <3>2
  <2>3. /\ index' \in [Path -> Content \cup {None}]
        /\ incoming' \in [Path -> SUBSET Path]
    BY <1>0, <1>3, <2>1 DEF RemoveDoc, TypeOK
  <2>4. QED BY <1>0, <1>3, <2>2, <2>3
            DEF RemoveDoc, TypeOK, satellites, ghosts, bounds
<1>4. CASE Unlink(r)
  <2>1. incoming' \in [Path -> SUBSET Path]
    BY <1>0, <1>4 DEF Unlink, TypeOK
  <2>2. req' \in [Req -> Request] /\ \A q \in Req : WellFormed(req'[q])
    <3>1. CASE Finish(r)
      BY <3>1, FinishStep
    <3>2. CASE s.op = "move" /\
               req' = [req EXCEPT ![r].pc = "write", ![r].path = s.to,
                                  ![r].ret = "moveHistory"]
      <4> DEFINE n == [s EXCEPT !.pc = "write", !.path = s.to,
                                !.ret = "moveHistory"]
      <4>1. s.to \in Path /\ s.draft \in Content /\ s.from \in Path
        BY <1>0, <1>4, <3>2 DEF Unlink, At, WellFormed, RemovePC
      <4>2. n \in Request
        <5>1. "write" \in PC
          BY DEF PC
        <5>2. QED BY <1>0, <4>1, <5>1, TargetFields
      <4>3. /\ n.pc = "write" /\ n.op = s.op /\ n.path = s.to
            /\ n.draft = s.draft /\ n.from = s.from /\ n.to = s.to
        BY <1>0 DEF Request
      <4>4. WellFormed(n)
        BY <3>2, <4>1, <4>3 DEF WellFormed, UpsertPC, DeletePC, RemovePC, MovePC
      <4>5. req' = [req EXCEPT ![r] = n]
        BY <1>0, <3>2 DEF TypeOK
      <4>6. QED BY <4>2, <4>4, <4>5, ReqStep
    <3>3. QED BY <1>4, <3>1, <3>2 DEF Unlink
  <2>3. QED BY <1>0, <1>4, <2>1, <2>2
            DEF Unlink, TypeOK, satellites, ghosts, bounds
<1>5. CASE DropHistory(r)
  <2>1. s.op = "delete"
    BY <1>0, <1>5 DEF DropHistory, At, WellFormed, DeletePC
  <2>2. req' \in [Req -> Request] /\ \A q \in Req : WellFormed(req'[q])
    BY <1>5, <2>1, GotoOK DEF DropHistory, DeletePC, PC
  <2>3. revisions' \subseteq Revision /\ erased' \subseteq Content
    BY <1>0, <1>5 DEF DropHistory, History, TypeOK, Revision
  <2>4. QED BY <1>0, <1>5, <2>2, <2>3 DEF DropHistory, TypeOK, stores, bounds
<1>6. CASE DropComments(r)
  <2>1. s.op = "delete"
    BY <1>0, <1>6 DEF DropComments, At, WellFormed, DeletePC
  <2>2. req' \in [Req -> Request] /\ \A q \in Req : WellFormed(req'[q])
    BY <1>6, <2>1, GotoOK DEF DropComments, DeletePC, PC
  <2>3. QED BY <1>0, <1>6, <2>2 DEF DropComments, TypeOK, stores, ghosts, bounds
<1>7. CASE DropWatches(r)
  <2>1. s.op = "delete"
    BY <1>0, <1>7 DEF DropWatches, At, WellFormed, DeletePC
  <2>2. req' \in [Req -> Request] /\ \A q \in Req : WellFormed(req'[q])
    BY <1>7, <2>1, GotoOK DEF DropWatches, RemovePC, PC
  <2>3. QED BY <1>0, <1>7, <2>2 DEF DropWatches, TypeOK, stores, ghosts, bounds
<1>8. QED
  BY <1>1, <1>2, <1>3, <1>4, <1>5, <1>6, <1>7 DEF Removal

LEMMA RelocationTyped ==
  ASSUME Typed, NEW r \in Req, Relocation(r)
  PROVE  Typed'
<1> DEFINE s == req[r]
<1>0. TypeOK /\ s \in Request /\ WellFormed(s)
  BY ReqIn DEF Typed
<1> SUFFICES TypeOK' /\ \A q \in Req : WellFormed(req'[q])
  BY DEF Typed
<1>1. s.op = "move" /\ s.from \in Path /\ s.to \in Path
  BY <1>0 DEF Relocation, Clash, ReadInbound, MoveHistory, MoveComments,
              ReadWatchers, MoveWatch, NotifyMoved, At, WellFormed, MovePC
<1>2. CASE Clash(r)
  <2>1. req' \in [Req -> Request] /\ \A q \in Req : WellFormed(req'[q])
    BY <1>1, <1>2, GotoOK, FinishStep DEF Clash, MovePC, PC
  <2>2. QED BY <1>0, <1>2, <2>1
            DEF Clash, TypeOK, stores, satellites, ghosts, bounds
<1>3. CASE ReadInbound(r)
  <2> DEFINE todo == {[path |-> q, draft |-> Redirect(index[q], s.from, s.to)] :
                        q \in Linkers(s.from) \ {s.from}}
             n == [s EXCEPT !.pc = "removeFile", !.todo = todo]
  <2>1. ASSUME NEW q \in Linkers(s.from)
        PROVE  q \in Path /\ Redirect(index[q], s.from, s.to) \in Content
    <3>1. q \in Path /\ index[q] \in Content
      BY <1>0 DEF Linkers, Indexed, TypeOK
    <3>2. QED BY <1>1, <3>1 DEF Redirect, Content
  <2>2. todo \subseteq [path : Path, draft : Content]
    BY <2>1
  <2>3. s.draft \in Content
    BY <1>0, <1>1, <1>3 DEF ReadInbound, At, WellFormed
  <2> HIDE DEF todo
  <2>4. n \in Request
    BY ZenonT(60), <1>0, <2>2 DEF Request, PC
  <2>5. /\ n.pc = "removeFile" /\ n.op = s.op /\ n.ret = s.ret
        /\ n.draft = s.draft /\ n.from = s.from /\ n.to = s.to
    BY <1>0 DEF Request
  <2>6. WellFormed(n)
    BY <1>0, <1>1, <2>3, <2>5 DEF WellFormed, UpsertPC, DeletePC, RemovePC, MovePC
  <2>7. req' = [req EXCEPT ![r] = n]
    BY <1>0, <1>3 DEF ReadInbound, TypeOK, todo
  <2>8. req' \in [Req -> Request] /\ \A q \in Req : WellFormed(req'[q])
    BY <2>4, <2>6, <2>7, ReqStep
  <2>9. QED BY <1>0, <1>3, <2>8
            DEF ReadInbound, TypeOK, stores, satellites, ghosts, bounds
<1>4. CASE MoveHistory(r)
  <2>1. req' \in [Req -> Request] /\ \A q \in Req : WellFormed(req'[q])
    BY <1>1, <1>4, GotoOK DEF MoveHistory, MovePC, PC
  <2>2. revisions' \subseteq Revision
    BY <1>0, <1>1, <1>4 DEF MoveHistory, Rehomed, TypeOK, Revision
  <2>3. QED BY <1>0, <1>4, <2>1, <2>2
            DEF MoveHistory, TypeOK, stores, ghosts, bounds
<1>5. CASE MoveComments(r)
  <2>1. req' \in [Req -> Request] /\ \A q \in Req : WellFormed(req'[q])
    BY <1>0, <1>5, NextUpsertOK, ReqStep DEF MoveComments
  <2>2. comments' \subseteq Thread \X Path
    BY <1>0, <1>1, <1>5 DEF MoveComments, TypeOK
  <2>3. QED BY <1>0, <1>5, <2>1, <2>2
            DEF MoveComments, TypeOK, stores, ghosts, bounds
<1>6. CASE ReadWatchers(r)
  <2> DEFINE mine == {u \in User : <<u, s.from>> \in watches}
             n    == [s EXCEPT !.pc = "moveWatch", !.users = mine]
  <2>1. n \in Request
    BY ZenonT(60), <1>0 DEF Request, PC
  <2>2. /\ n.pc = "moveWatch" /\ n.op = s.op /\ n.ret = s.ret
        /\ n.from = s.from /\ n.to = s.to
    BY <1>0 DEF Request
  <2>3. WellFormed(n)
    BY <1>0, <1>1, <2>2 DEF WellFormed, UpsertPC, DeletePC, RemovePC, MovePC
  <2>4. \/ Finish(r)
        \/ req' = [req EXCEPT ![r] = n]
    BY <1>0, <1>6 DEF ReadWatchers, TypeOK
  <2>5. req' \in [Req -> Request] /\ \A q \in Req : WellFormed(req'[q])
    BY <2>1, <2>3, <2>4, ReqStep, FinishStep
  <2>6. QED BY <1>0, <1>6, <2>5
            DEF ReadWatchers, TypeOK, stores, satellites, ghosts, bounds
<1>7. CASE MoveWatch(r)
  <2>1. PICK u \in s.users :
           /\ watches' \subseteq watches \cup {<<u, s.to>>}
           /\ req' = [req EXCEPT ![r].users = @ \ {u},
                ![r].pc = IF s.users = {u} THEN "notifyMoved" ELSE "moveWatch"]
    BY <1>7 DEF MoveWatch
  <2> DEFINE pc == IF s.users = {u} THEN "notifyMoved" ELSE "moveWatch"
             n  == [s EXCEPT !.users = @ \ {u}, !.pc = pc]
  <2>2. u \in User /\ pc \in PC /\ pc \in MovePC \ {"clash", "readInbound"}
    BY <1>0 DEF Request, PC, MovePC
  <2> HIDE DEF pc
  <2>3. n \in Request
    BY <1>0, <2>2 DEF Request
  <2>4. /\ n.pc = pc /\ n.op = s.op /\ n.ret = s.ret
        /\ n.from = s.from /\ n.to = s.to
    BY <1>0 DEF Request
  <2>5. WellFormed(n)
    BY <1>0, <1>1, <2>2, <2>4 DEF WellFormed, UpsertPC, DeletePC, RemovePC, MovePC
  <2>6. req' = [req EXCEPT ![r] = n]
    BY <1>0, <2>1 DEF TypeOK, pc
  <2>7. req' \in [Req -> Request] /\ \A q \in Req : WellFormed(req'[q])
    BY <2>3, <2>5, <2>6, ReqStep
  <2>8. watches' \subseteq User \X Path
    BY <1>0, <1>1, <2>1, <2>2 DEF TypeOK
  <2>9. faults' \in Nat /\ tangled' \in BOOLEAN
    <3>1. faults' \in {faults, faults + 1}
      BY <1>7 DEF MoveWatch
    <3>2. tangled' \in {tangled, TRUE}
      BY <1>7 DEF MoveWatch
    <3>3. faults \in Nat /\ tangled \in BOOLEAN
      BY <1>0 DEF TypeOK
    <3>4. faults' \in Nat
      BY <3>1, <3>3
    <3>5. tangled' \in BOOLEAN
      BY <3>2, <3>3, Zenon
    <3>6. QED BY <3>4, <3>5
  <2>10. UNCHANGED <<stores, revisions, clock, comments, inbox, settled, erased,
                     suspect, started>>
    BY <1>7 DEF MoveWatch
  <2>11. TypeOK'
    BY <1>0, <2>7, <2>8, <2>9, <2>10 DEF TypeOK, stores
  <2>12. QED BY <2>7, <2>11
<1>8. CASE NotifyMoved(r)
  <2>1. inbox' \subseteq Notice
    BY <1>0, <1>1, <1>8, NoticesOK DEF NotifyMoved, TypeOK
  <2>2. QED BY <1>0, <1>8, <2>1, FinishStep
            DEF NotifyMoved, TypeOK, stores, ghosts, bounds
<1>9. QED
  BY <1>2, <1>3, <1>4, <1>5, <1>6, <1>7, <1>8 DEF Relocation

LEMMA ReadPathsTyped ==
  ASSUME Typed, NEW r \in Req, ReadPaths(r)
  PROVE  Typed'
<1> DEFINE s      == req[r]
           others == Indexed \ {s.path}
           d      == Redirect(s.draft, s.to, Suggest(s.to, others))
           n      == [s EXCEPT !.pc = "write", !.draft = d]
<1>0. TypeOK /\ s \in Request /\ WellFormed(s)
  BY ReqIn DEF Typed
<1>1. s.path \in Path /\ s.draft \in Content /\ s.to \in Path
  BY <1>0 DEF ReadPaths, At, WellFormed
<1>2. CASE Finish(r)
  BY <1>0, <1>2, FinishStep
     DEF ReadPaths, Typed, TypeOK, stores, satellites, ghosts, bounds
<1>3. CASE ~Finish(r)
  <2>1. Suggest(s.to, others) \in Path
    BY <1>3 DEF ReadPaths, Suggest, Namesakes, Indexed
  <2>2. d \in Content
    BY <1>1, <2>1 DEF Redirect, Content
  <2>3. req' = [req EXCEPT ![r] = n]
    BY <1>0, <1>3 DEF ReadPaths, TypeOK
  <2> HIDE DEF d
  <2>4. n \in Request
    BY ZenonT(60), <1>0, <2>2 DEF Request, PC
  <2>5. /\ n.pc = "write" /\ n.op = s.op /\ n.ret = s.ret /\ n.path = s.path
        /\ n.draft = d /\ n.from = s.from /\ n.to = s.to
    BY <1>0 DEF Request
  <2>6. WellFormed(n)
    BY <1>0, <1>1, <2>2, <2>5 DEF WellFormed, UpsertPC, DeletePC, RemovePC, MovePC
  <2>7. req' \in [Req -> Request] /\ \A q \in Req : WellFormed(req'[q])
    BY <2>3, <2>4, <2>6, ReqStep
  <2>8. QED
    BY <1>0, <2>7 DEF ReadPaths, Typed, TypeOK, stores, satellites, ghosts, bounds
<1>4. QED BY <1>2, <1>3

LEMMA FaultTyped ==
  ASSUME Typed, Crash \/ \E r \in Req : Fail(r)
  PROVE  Typed'
<1>0. TypeOK
  BY DEF Typed
<1>1. CASE Crash
  <2>1. req' \in [Req -> Request] /\ \A q \in Req : WellFormed(req'[q])
    BY <1>1, IdleOK DEF Crash
  <2>2. QED
    BY <1>0, <1>1, <2>1 DEF Crash, Typed, TypeOK, stores, satellites
<1>2. ASSUME NEW r \in Req, Fail(r)
      PROVE  Typed'
  <2>1. req[r] \in Request /\ WellFormed(req[r])
    BY ReqIn
  <2>2. req' \in [Req -> Request] /\ \A q \in Req : WellFormed(req'[q])
    BY <1>2, <2>1, IdleOK, NextUpsertOK, ReqStep DEF Fail
  <2>3. QED
    BY <1>0, <1>2, <2>2 DEF Fail, Typed, TypeOK, stores, satellites
<1>3. QED BY <1>1, <1>2

LEMMA ReaderTyped ==
  ASSUME Typed,
         \/ \E t \in Thread, p \in Path, u \in Actor, m \in SUBSET User :
              AddComment(t, p, u, m)
         \/ \E u \in User, p \in Path : Watch(u, p) \/ Unwatch(u, p)
  PROVE  Typed'
<1>1. ASSUME NEW t \in Thread, NEW p \in Path, NEW u \in Actor,
             NEW m \in SUBSET User, AddComment(t, p, u, m)
      PROVE  Typed'
  <2>1. Notices(p, "comment", u) \subseteq Notice
    BY NoticesOK
  <2>2. [user: m \ {u}, path: {p}, kind: {"mention"}] \subseteq Notice
    BY DEF Notice
  <2>3. inbox' \subseteq Notice /\ comments' \subseteq Thread \X Path
    BY <1>1, <2>1, <2>2 DEF AddComment, Typed, TypeOK
  <2>4. QED
    BY <1>1, <2>3 DEF AddComment, Typed, TypeOK, stores, ghosts, bounds
<1>2. ASSUME NEW u \in User, NEW p \in Path, Watch(u, p)
      PROVE  Typed'
  BY <1>2 DEF Watch, Typed, TypeOK, stores, bounds, Quiet, Busy
<1>3. ASSUME NEW u \in User, NEW p \in Path, Unwatch(u, p)
      PROVE  Typed'
  BY <1>3 DEF Unwatch, Typed, TypeOK, stores, ghosts, bounds
<1>4. QED BY <1>1, <1>2, <1>3

LEMMA InitTyped == Init => Typed
<1> SUFFICES ASSUME Init
             PROVE  Typed
  OBVIOUS
<1>1. \A p \in {q \in Path : Seed[q] # None} : Seed[p] \in Content
  BY SeedAssumption
<1>2. revisions \subseteq Revision
  BY <1>1 DEF Init, Revision
<1>3. req \in [Req -> Request] /\ \A r \in Req : WellFormed(req[r])
  BY IdleOK DEF Init
<1>4. QED
  BY <1>2, <1>3, SeedAssumption DEF Init, Typed, TypeOK

(***************************************************************************)
(* Every variable keeps its type, and every request in flight has the      *)
(* local variables its program counter needs, for any sets of paths,       *)
(* contents, users and requests and with any number of faults.             *)
(***************************************************************************)
THEOREM TypeCorrect == Spec => []Typed
<1>1. Init => Typed
  BY InitTyped
<1>2. Typed /\ [Next]_vars => Typed'
  <2> SUFFICES ASSUME Typed, [Next]_vars
               PROVE  Typed'
    OBVIOUS
  <2>1. CASE UNCHANGED vars
    BY <2>1 DEF vars, stores, satellites, ghosts, bounds, Typed, TypeOK
  <2>2. CASE Next
    BY <2>2, StartTyped, UpsertTyped, RemovalTyped, RelocationTyped,
       ReadPathsTyped, FaultTyped, ReaderTyped DEF Next
  <2>3. QED BY <2>1, <2>2
<1>3. QED BY <1>1, <1>2, PTL DEF Spec

\* The type invariant of Documents, which the runs check too.
COROLLARY TypeSafe == Spec => []TypeOK
<1>1. Typed => TypeOK
  BY DEF Typed
<1>2. QED BY <1>1, TypeCorrect, PTL

(***************************************************************************)
(* The mirror.  MirrorAgrees is not inductive: it says nothing of a path   *)
(* while a request is between the file and the record.  The strengthening  *)
(* adds what holds there: the request is alone on that path and the file   *)
(* already is what it is about to write into the record.                   *)
(***************************************************************************)
HalfPC == {"index", "removeDoc"}

Pending(r) == IF At(r, "index") THEN req[r].draft ELSE None

MirrorInv ==
  \A p \in Path \ suspect :
    /\ (\A r \in Req : ~HalfDone(r, p)) => disk[p] = index[p]
    /\ \A r \in Req : HalfDone(r, p) =>
         disk[p] = Pending(r) /\ \A q \in Req \ {r} : ~HalfDone(q, p)

\* A step of r that neither enters nor leaves the window and touches neither
\* copy keeps the invariant.
LEMMA OutsideWindow ==
  ASSUME Typed, MirrorInv, NEW r \in Req, UNCHANGED <<disk, index>>,
         suspect \subseteq suspect',
         \A q \in Req \ {r} : req'[q] = req[q],
         req[r].pc \notin HalfPC, req'[r].pc \notin HalfPC
  PROVE  MirrorInv'
<1>1. \A q \in Req, p \in Path : HalfDone(q, p)' <=> HalfDone(q, p)
  BY DEF HalfDone, At, HalfPC
<1>2. \A q \in Req, p \in Path : HalfDone(q, p) => q # r
  BY DEF HalfDone, At, HalfPC
<1>3. \A q \in Req \ {r} : Pending(q)' = Pending(q)
  BY DEF Pending, At
<1>4. QED
  BY <1>1, <1>2, <1>3 DEF MirrorInv

LEMMA GotoFrame ==
  ASSUME Typed, NEW r \in Req, NEW pc, Goto(r, pc)
  PROVE  /\ \A q \in Req \ {r} : req'[q] = req[q]
         /\ req'[r].pc = pc
         /\ req'[r].path = req[r].path
         /\ req'[r].draft = req[r].draft
         /\ req'[r].from = req[r].from
<1>1. req[r] \in Request /\ req \in [Req -> Request]
  BY DEF Typed, TypeOK
<1>2. req' = [req EXCEPT ![r] = [req[r] EXCEPT !.pc = pc]]
  BY <1>1 DEF Goto
<1>3. QED BY <1>1, <1>2 DEF Request

LEMMA FinishFrame ==
  ASSUME Typed, NEW r \in Req, Finish(r)
  PROVE  (\A q \in Req \ {r} : req'[q] = req[q]) /\ req'[r].pc \notin HalfPC
  BY DEF Finish, Typed, TypeOK, Idle, HalfPC

LEMMA ResolveFrame ==
  ASSUME Typed, NEW r \in Req, Resolve(r)
  PROVE  (\A q \in Req \ {r} : req'[q] = req[q]) /\ req'[r].pc \notin HalfPC
<1>1. req[r] \in Request /\ req \in [Req -> Request]
  BY DEF Typed, TypeOK
<1>2. [req[r] EXCEPT !.pc = "moveHistory", !.ret = "next",
                     !.back = {}, !.last = None].pc = "moveHistory"
  BY <1>1 DEF Request
<1>3. QED BY <1>1, <1>2, NextUpsertPC DEF Resolve, HalfPC

\* Entering the window: the file of p becomes c.
LEMMA EnterWindow ==
  ASSUME Typed, MirrorInv, NEW r \in Req, NEW p \in Path, NEW c,
         req[r].pc \notin HalfPC, Claim(r, p), index' = index,
         disk' = [disk EXCEPT ![p] = c],
         \A q \in Req \ {r} : req'[q] = req[q],
         HalfDone(r, p)', \A x \in Path \ {p} : ~HalfDone(r, x)',
         Pending(r)' = c
  PROVE  MirrorInv'
<1>1. \A q \in Req \ {r}, x \in Path : HalfDone(q, x)' <=> HalfDone(q, x)
  BY DEF HalfDone, At
<1>2. \A q \in Req \ {r} : Pending(q)' = Pending(q)
  BY DEF Pending, At
<1>3. \A x \in Path : ~HalfDone(r, x)
  BY DEF HalfDone, At, HalfPC
<1>4. disk \in [Path -> Content \cup {None}]
  BY DEF Typed, TypeOK
<1> SUFFICES ASSUME NEW x \in Path \ suspect'
             PROVE  /\ (\A q \in Req : ~HalfDone(q, x)') => disk'[x] = index'[x]
                    /\ \A q \in Req : HalfDone(q, x)' =>
                         /\ disk'[x] = Pending(q)'
                         /\ \A q2 \in Req \ {q} : ~HalfDone(q2, x)'
  BY DEF MirrorInv
<1>5. CASE x = p
  <2>1. \A q \in Req \ {r} : ~HalfDone(q, p)
    BY <1>5 DEF Claim
  <2>2. disk'[p] = c
    BY <1>4
  <2>3. QED BY <1>1, <1>5, <2>1, <2>2
<1>6. CASE x # p
  <2>1. x \in Path \ suspect
    BY <1>6 DEF Claim
  <2>2. disk'[x] = disk[x] /\ ~HalfDone(r, x)'
    BY <1>4, <1>6
  <2>3. QED BY <1>1, <1>2, <1>3, <2>1, <2>2 DEF MirrorInv
<1>7. QED BY <1>5, <1>6

\* Leaving it: the record of p becomes what the file already is.
LEMMA LeaveWindow ==
  ASSUME Typed, MirrorInv, NEW r \in Req, NEW p \in Path,
         HalfDone(r, p), \A x \in Path \ {p} : ~HalfDone(r, x),
         req'[r].pc \notin HalfPC, UNCHANGED <<disk, suspect>>,
         index' = [index EXCEPT ![p] = Pending(r)],
         \A q \in Req \ {r} : req'[q] = req[q]
  PROVE  MirrorInv'
<1>1. \A q \in Req \ {r}, x \in Path : HalfDone(q, x)' <=> HalfDone(q, x)
  BY DEF HalfDone, At
<1>2. \A q \in Req \ {r} : Pending(q)' = Pending(q)
  BY DEF Pending, At
<1>3. \A x \in Path : ~HalfDone(r, x)'
  BY DEF HalfDone, At, HalfPC
<1>4. index \in [Path -> Content \cup {None}]
  BY DEF Typed, TypeOK
<1> SUFFICES ASSUME NEW x \in Path \ suspect
             PROVE  /\ (\A q \in Req : ~HalfDone(q, x)') => disk'[x] = index'[x]
                    /\ \A q \in Req : HalfDone(q, x)' =>
                         /\ disk'[x] = Pending(q)'
                         /\ \A q2 \in Req \ {q} : ~HalfDone(q2, x)'
  BY DEF MirrorInv
<1>5. CASE x = p
  <2>1. disk[p] = Pending(r) /\ \A q \in Req \ {r} : ~HalfDone(q, p)
    BY <1>5 DEF MirrorInv
  <2>2. index'[p] = Pending(r)
    BY <1>4
  <2>3. QED BY <1>1, <1>3, <1>5, <2>1, <2>2
<1>6. CASE x # p
  <2>1. index'[x] = index[x] /\ ~HalfDone(r, x)
    BY <1>4, <1>6
  <2>2. QED BY <1>1, <1>2, <1>3, <2>1 DEF MirrorInv
<1>7. QED BY <1>5, <1>6

LEMMA MirrorInit == Init => MirrorInv
  BY DEF Init, MirrorInv, HalfDone, At, Idle

\* A step that leaves the requests and both copies alone.
LEMMA MirrorFrame ==
  ASSUME MirrorInv, UNCHANGED <<disk, index, req, suspect>>
  PROVE  MirrorInv'
  BY DEF MirrorInv, HalfDone, Pending, At

LEMMA StartMirror ==
  ASSUME Typed, MirrorInv, NEW r \in Req, Start(r)
  PROVE  MirrorInv'
<1>1. PICK s \in Request : s.pc \in StartPC /\ Begin(r, s)
  BY StartBegins
<1>2. (\A q \in Req \ {r} : req'[q] = req[q]) /\ req'[r] = s
  BY <1>1 DEF Begin, Typed, TypeOK
<1>3. req[r].pc \notin HalfPC /\ s.pc \notin HalfPC
  BY <1>1 DEF Begin, At, HalfPC, StartPC
<1>4. UNCHANGED <<disk, index>> /\ suspect \subseteq suspect'
  BY <1>1 DEF Begin, stores
<1>5. QED BY <1>2, <1>3, <1>4, OutsideWindow

LEMMA UpsertMirror ==
  ASSUME Typed, MirrorInv, NEW r \in Req, Upsert(r)
  PROVE  MirrorInv'
<1>0. /\ req \in [Req -> Request]
      /\ index \in [Path -> Content \cup {None}]
      /\ req[r].pc \in UpsertPC => req[r].path \in Path
  BY DEF Typed, TypeOK, WellFormed
<1>1. CASE WriteFile(r)
  <2>1. req[r].path \in Path /\ req[r].pc = "write"
    BY <1>0, <1>1 DEF WriteFile, At, UpsertPC
  <2>2. /\ \A q \in Req \ {r} : req'[q] = req[q]
        /\ req'[r].pc = "index"
        /\ req'[r].path = req[r].path /\ req'[r].draft = req[r].draft
    BY <1>1, GotoFrame DEF WriteFile
  <2>3. /\ HalfDone(r, req[r].path)'
        /\ \A x \in Path \ {req[r].path} : ~HalfDone(r, x)'
        /\ Pending(r)' = req[r].draft
    BY <2>2 DEF HalfDone, At, Pending
  <2>4. QED
    BY <1>1, <2>1, <2>2, <2>3, EnterWindow DEF WriteFile, HalfPC
<1>2. CASE IndexDocument(r)
  <2>1. req[r].path \in Path /\ req[r].pc = "index"
    BY <1>0, <1>2 DEF IndexDocument, At, UpsertPC
  <2>2. (\A q \in Req \ {r} : req'[q] = req[q]) /\ req'[r].pc = "addLinks"
    BY <1>2, GotoFrame DEF IndexDocument
  <2>3. /\ HalfDone(r, req[r].path)
        /\ \A x \in Path \ {req[r].path} : ~HalfDone(r, x)
        /\ Pending(r) = req[r].draft
    BY <2>1 DEF HalfDone, At, Pending
  <2>4. QED
    BY <1>2, <2>1, <2>2, <2>3, LeaveWindow DEF IndexDocument, HalfPC, ghosts
<1>3. CASE AddLinks(r) \/ PullLinks(r)
  <2>1. (\A q \in Req \ {r} : req'[q] = req[q])
        /\ req'[r].pc \in {"pullLinks", "readLinkers"}
    BY <1>3, GotoFrame DEF AddLinks, PullLinks
  <2>2. QED
    BY <1>3, <2>1, OutsideWindow DEF AddLinks, PullLinks, At, HalfPC, ghosts
<1>4. CASE ReadLinkers(r)
  <2>1. (\A q \in Req \ {r} : req'[q] = req[q]) /\ req'[r].pc = "setLinks"
    BY <1>0, <1>4 DEF ReadLinkers, Request
  <2>2. QED
    BY <1>4, <2>1, OutsideWindow DEF ReadLinkers, At, HalfPC, ghosts, stores
<1>5. CASE SetLinks(r)
  <2>1. (\A q \in Req \ {r} : req'[q] = req[q]) /\ req'[r].pc = "readLatest"
    BY <1>5, GotoFrame DEF SetLinks
  <2>2. QED
    BY <1>5, <2>1, OutsideWindow DEF SetLinks, At, HalfPC, ghosts
<1>6. CASE ReadLatest(r)
  <2>1. (\A q \in Req \ {r} : req'[q] = req[q]) /\ req'[r].pc = "snapshot"
    BY <1>0, <1>6 DEF ReadLatest, Request
  <2>2. QED
    BY <1>6, <2>1, OutsideWindow DEF ReadLatest, At, HalfPC, ghosts, stores
<1>7. CASE Snapshot(r)
  <2>1. (\A q \in Req \ {r} : req'[q] = req[q]) /\ req'[r].pc \notin HalfPC
    BY <1>7, GotoFrame, ResolveFrame DEF Snapshot, HalfPC
  <2>2. QED
    BY <1>7, <2>1, OutsideWindow DEF Snapshot, At, HalfPC, stores
<1>8. CASE NotifyChanged(r)
  <2>1. (\A q \in Req \ {r} : req'[q] = req[q]) /\ req'[r].pc \notin HalfPC
    BY <1>8, ResolveFrame DEF NotifyChanged
  <2>2. QED
    BY <1>8, <2>1, OutsideWindow DEF NotifyChanged, At, HalfPC, stores
<1>9. QED
  BY <1>1, <1>2, <1>3, <1>4, <1>5, <1>6, <1>7, <1>8 DEF Upsert

LEMMA RemovalMirror ==
  ASSUME Typed, MirrorInv, NEW r \in Req, Removal(r)
  PROVE  MirrorInv'
<1>0. /\ req \in [Req -> Request]
      /\ index \in [Path -> Content \cup {None}]
      /\ req[r].pc \in RemovePC => req[r].from \in Path
  BY DEF Typed, TypeOK, WellFormed
<1>1. CASE RemoveFile(r)
  <2>1. req[r].from \in Path /\ req[r].pc = "removeFile"
    BY <1>0, <1>1 DEF RemoveFile, At, RemovePC
  <2>2. /\ \A q \in Req \ {r} : req'[q] = req[q]
        /\ req'[r].pc = "removeDoc"
        /\ req'[r].from = req[r].from
    BY <1>1, GotoFrame DEF RemoveFile
  <2>3. /\ HalfDone(r, req[r].from)'
        /\ \A x \in Path \ {req[r].from} : ~HalfDone(r, x)'
        /\ Pending(r)' = None
    BY <2>2 DEF HalfDone, At, Pending
  <2>4. QED
    BY <1>1, <2>1, <2>2, <2>3, EnterWindow DEF RemoveFile, HalfPC
<1>2. CASE RemoveDoc(r)
  <2>1. req[r].from \in Path /\ req[r].pc = "removeDoc"
    BY <1>0, <1>2 DEF RemoveDoc, At, RemovePC
  <2>2. (\A q \in Req \ {r} : req'[q] = req[q])
        /\ req'[r].pc \in {"dropHistory", "unlink"}
    BY <1>2, GotoFrame DEF RemoveDoc
  <2>3. /\ HalfDone(r, req[r].from)
        /\ \A x \in Path \ {req[r].from} : ~HalfDone(r, x)
        /\ Pending(r) = None
    BY <2>1 DEF HalfDone, At, Pending
  <2>4. QED
    BY <1>2, <2>1, <2>2, <2>3, LeaveWindow DEF RemoveDoc, HalfPC, ghosts
<1>3. CASE NotifyDeleted(r)
  <2>1. (\A q \in Req \ {r} : req'[q] = req[q]) /\ req'[r].pc = "removeFile"
    BY <1>3, GotoFrame DEF NotifyDeleted
  <2>2. QED
    BY <1>3, <2>1, OutsideWindow DEF NotifyDeleted, At, HalfPC, stores, ghosts
<1>4. CASE DropHistory(r) \/ DropComments(r) \/ DropWatches(r)
  <2>1. (\A q \in Req \ {r} : req'[q] = req[q])
        /\ req'[r].pc \in {"dropComments", "dropWatches", "unlink"}
    BY <1>4, GotoFrame DEF DropHistory, DropComments, DropWatches
  <2>2. QED
    BY <1>4, <2>1, OutsideWindow
       DEF DropHistory, DropComments, DropWatches, At, HalfPC, stores, ghosts
<1>5. CASE Unlink(r)
  <2>1. (\A q \in Req \ {r} : req'[q] = req[q]) /\ req'[r].pc \notin HalfPC
    <3>1. CASE Finish(r)
      BY <3>1, FinishFrame
    <3>2. CASE ~Finish(r)
      <4>1. req' = [req EXCEPT ![r].pc = "write", ![r].path = req[r].to,
                               ![r].ret = "moveHistory"]
        BY <1>5, <3>2 DEF Unlink
      <4>2. req'[r].pc = "write" /\ \A q \in Req \ {r} : req'[q] = req[q]
        BY <1>0, <4>1 DEF Request
      <4>3. QED BY <4>2 DEF HalfPC
    <3>3. QED BY <3>1, <3>2
  <2>2. QED
    BY <1>5, <2>1, OutsideWindow DEF Unlink, At, HalfPC, ghosts
<1>6. QED
  BY <1>1, <1>2, <1>3, <1>4, <1>5 DEF Removal

LEMMA RelocationMirror ==
  ASSUME Typed, MirrorInv, NEW r \in Req, Relocation(r)
  PROVE  MirrorInv'
<1>0. req \in [Req -> Request] /\ req[r] \in Request
  BY DEF Typed, TypeOK
<1>1. (\A q \in Req \ {r} : req'[q] = req[q]) /\ req'[r].pc \notin HalfPC
  <2>1. CASE Clash(r)
    BY <2>1, FinishFrame, GotoFrame DEF Clash, HalfPC
  <2>2. CASE ReadInbound(r)
    <3>1. req'[r].pc = "removeFile" /\ \A q \in Req \ {r} : req'[q] = req[q]
      BY <1>0, <2>2 DEF ReadInbound, Request
    <3>2. QED BY <3>1 DEF HalfPC
  <2>3. CASE MoveHistory(r)
    BY <2>3, GotoFrame DEF MoveHistory, HalfPC
  <2>4. CASE MoveComments(r)
    BY <1>0, <2>4, NextUpsertPC DEF MoveComments, HalfPC
  <2>5. CASE ReadWatchers(r)
    <3>1. CASE Finish(r)
      BY <3>1, FinishFrame
    <3>2. CASE ~Finish(r)
      <4>1. req'[r].pc = "moveWatch" /\ \A q \in Req \ {r} : req'[q] = req[q]
        BY <1>0, <2>5, <3>2 DEF ReadWatchers, Request
      <4>2. QED BY <4>1 DEF HalfPC
    <3>3. QED BY <3>1, <3>2
  <2>6. CASE MoveWatch(r)
    <3>1. /\ req'[r].pc \in {"notifyMoved", "moveWatch"}
          /\ \A q \in Req \ {r} : req'[q] = req[q]
      BY <1>0, <2>6 DEF MoveWatch, Request
    <3>2. QED BY <3>1 DEF HalfPC
  <2>7. CASE NotifyMoved(r)
    BY <2>7, FinishFrame DEF NotifyMoved
  <2>8. QED
    BY <2>1, <2>2, <2>3, <2>4, <2>5, <2>6, <2>7 DEF Relocation
<1>2. req[r].pc \notin HalfPC
  BY DEF Relocation, Clash, ReadInbound, MoveHistory, MoveComments,
         ReadWatchers, MoveWatch, NotifyMoved, At, HalfPC
<1>3. UNCHANGED <<disk, index, suspect>>
  BY DEF Relocation, Clash, ReadInbound, MoveHistory, MoveComments,
         ReadWatchers, MoveWatch, NotifyMoved, stores, ghosts
<1>4. QED BY <1>1, <1>2, <1>3, OutsideWindow

LEMMA ReadPathsMirror ==
  ASSUME Typed, MirrorInv, NEW r \in Req, ReadPaths(r)
  PROVE  MirrorInv'
<1>0. req \in [Req -> Request]
  BY DEF Typed, TypeOK
<1>1. (\A q \in Req \ {r} : req'[q] = req[q]) /\ req'[r].pc \notin HalfPC
  <2>1. CASE Finish(r)
    BY <2>1, FinishFrame
  <2>2. CASE ~Finish(r)
    <3>1. req'[r].pc = "write" /\ \A q \in Req \ {r} : req'[q] = req[q]
      BY <1>0, <2>2 DEF ReadPaths, Request
    <3>2. QED BY <3>1 DEF HalfPC
  <2>3. QED BY <2>1, <2>2
<1>2. req[r].pc \notin HalfPC /\ UNCHANGED <<disk, index, suspect>>
  BY DEF ReadPaths, At, HalfPC, stores, ghosts
<1>3. QED BY <1>1, <1>2, OutsideWindow

LEMMA FaultMirror ==
  ASSUME Typed, MirrorInv, Crash \/ \E r \in Req : Fail(r)
  PROVE  MirrorInv'
<1>0. req \in [Req -> Request]
  BY DEF Typed, TypeOK
<1>1. CASE Crash
  <2>1. \A r \in Req, p \in Path : ~HalfDone(r, p)'
    BY <1>1 DEF Crash, HalfDone, At, Idle
  <2>2. /\ suspect' = suspect \cup {p \in Path : \E r \in Req : HalfDone(r, p)}
        /\ UNCHANGED <<disk, index>>
    BY <1>1 DEF Crash, stores
  <2>3. QED BY <2>1, <2>2 DEF MirrorInv
<1>2. ASSUME NEW r \in Req, Fail(r)
      PROVE  MirrorInv'
  <2>1. (\A q \in Req \ {r} : req'[q] = req[q]) /\ req'[r].pc \notin HalfPC
    <3>1. \A n \in NextUpsert(req[r]) : n.pc \notin HalfPC
      BY <1>0, NextUpsertPC DEF HalfPC
    <3>2. Idle.pc \notin HalfPC
      BY DEF Idle, HalfPC
    <3>3. PICK n \in IF req[r].op = "import" THEN NextUpsert(req[r]) ELSE {Idle} :
            req' = [req EXCEPT ![r] = n]
      BY <1>2 DEF Fail
    <3>4. QED BY <1>0, <3>1, <3>2, <3>3
  <2>2. \A q \in Req \ {r}, p \in Path : HalfDone(q, p)' <=> HalfDone(q, p)
    BY <2>1 DEF HalfDone, At
  <2>3. \A p \in Path : ~HalfDone(r, p)'
    BY <2>1 DEF HalfDone, At, HalfPC
  <2>4. \A q \in Req \ {r} : Pending(q)' = Pending(q)
    BY <2>1 DEF Pending, At
  <2>5. /\ suspect' = suspect \cup {p \in Path : HalfDone(r, p)}
        /\ UNCHANGED <<disk, index>>
    BY <1>2 DEF Fail, stores
  <2>6. QED BY <2>2, <2>3, <2>4, <2>5 DEF MirrorInv
<1>3. QED BY <1>1, <1>2

LEMMA ReaderMirror ==
  ASSUME MirrorInv,
         \/ \E t \in Thread, p \in Path, u \in Actor, m \in SUBSET User :
              AddComment(t, p, u, m)
         \/ \E u \in User, p \in Path : Watch(u, p) \/ Unwatch(u, p)
  PROVE  MirrorInv'
  BY MirrorFrame DEF AddComment, Watch, Unwatch, stores, ghosts

\* The two-phase write and the two-phase removal, with every other step of every
\* other request between any two of theirs, keep the strengthened invariant.
THEOREM MirrorInvariant == Spec => []MirrorInv
<1>1. Init => MirrorInv
  BY MirrorInit
<1>2. Typed /\ MirrorInv /\ [Next]_vars => MirrorInv'
  <2> SUFFICES ASSUME Typed, MirrorInv, [Next]_vars
               PROVE  MirrorInv'
    OBVIOUS
  <2>1. CASE UNCHANGED vars
    BY <2>1, MirrorFrame DEF vars, stores, ghosts
  <2>2. CASE Next
    BY <2>2, StartMirror, UpsertMirror, RemovalMirror, RelocationMirror,
       ReadPathsMirror, FaultMirror, ReaderMirror DEF Next
  <2>3. QED BY <2>1, <2>2
<1>3. QED BY <1>1, <1>2, TypeCorrect, PTL DEF Spec

\* Wherever file and record were last written by requests that neither
\* overlapped in the middle nor died there, they agree as soon as nobody is
\* between the two writes.
THEOREM MirrorSafe == Spec => []MirrorAgrees
<1>1. MirrorInv => MirrorAgrees
  BY DEF MirrorInv, MirrorAgrees
<1>2. QED BY <1>1, MirrorInvariant, PTL

\* No path is suspect.
Undisturbed == suspect = {}

LEMMA NoSuspect ==
  ASSUME MaxFaults = 0, \A q, r \in Req : q = r,
         Typed, suspect = {}, [Next]_vars
  PROVE  suspect' = {}
<1>1. ~(faults < MaxFaults)
  BY DEF Typed, TypeOK
<1>2. CASE UNCHANGED vars
  BY <1>2 DEF vars, ghosts
<1>3. ASSUME NEW r \in Req, Start(r)
      PROVE  suspect' = {}
  BY <1>3, StartBegins DEF Begin
<1>4. ASSUME NEW r \in Req, Upsert(r)
      PROVE  suspect' = {}
  BY <1>4 DEF Upsert, WriteFile, Claim, IndexDocument, AddLinks, PullLinks,
              ReadLinkers, SetLinks, ReadLatest, Snapshot, NotifyChanged, ghosts
<1>5. ASSUME NEW r \in Req, Removal(r)
      PROVE  suspect' = {}
  BY <1>5 DEF Removal, NotifyDeleted, RemoveFile, Claim, RemoveDoc, Unlink,
              DropHistory, DropComments, DropWatches, ghosts
<1>6. ASSUME NEW r \in Req, Relocation(r) \/ ReadPaths(r)
      PROVE  suspect' = {}
  BY <1>6 DEF Relocation, Clash, ReadInbound, MoveHistory, MoveComments,
              ReadWatchers, MoveWatch, NotifyMoved, ReadPaths, ghosts
<1>7. ~Crash /\ \A r \in Req : ~Fail(r)
  BY <1>1 DEF Crash, Fail
<1>8. CASE \/ \E t \in Thread, p \in Path, u \in Actor, m \in SUBSET User :
              AddComment(t, p, u, m)
           \/ \E u \in User, p \in Path : Watch(u, p) \/ Unwatch(u, p)
  BY <1>8 DEF AddComment, Watch, Unwatch, ghosts
<1>9. QED
  BY <1>2, <1>3, <1>4, <1>5, <1>6, <1>7, <1>8 DEF Next

(***************************************************************************)
(* With one request at a time and no fault, file and record of every       *)
(* document agree whenever the process is idle: the single-instance,       *)
(* undisturbed operation docs/engineering/architecture.md describes.  The  *)
(* run MCDocumentsSaveRace shows that the first hypothesis is needed.      *)
(***************************************************************************)
THEOREM SequentialMirror ==
  ASSUME MaxFaults = 0, \A q, r \in Req : q = r
  PROVE  Spec => []MirrorInSync
<1>1. Init => Undisturbed
  BY DEF Init, Undisturbed
<1>2. Typed /\ Undisturbed /\ [Next]_vars => Undisturbed'
  BY NoSuspect DEF Undisturbed
<1>3. Typed /\ MirrorInv /\ Undisturbed => MirrorInSync
  <2> SUFFICES ASSUME Typed, MirrorInv, suspect = {}, Quiet
               PROVE  disk = index
    BY DEF MirrorInSync, Undisturbed
  <2>1. \A p \in Path : disk[p] = index[p]
    BY DEF MirrorInv, HalfDone, At, Quiet, Busy
  <2>2. QED BY <2>1 DEF Typed, TypeOK
<1>4. QED BY <1>1, <1>2, <1>3, TypeCorrect, MirrorInvariant, PTL DEF Spec

(***************************************************************************)
(* The history.  SettledInHistory needs to know what a request carries     *)
(* from the read of the latest revision to the end of its upsert.          *)
(***************************************************************************)
HistoryPC == {"snapshot", "notifyChanged"}

Known == erased \cup {v.content : v \in revisions}

HistoryInv ==
  /\ \A p \in Path : settled[p] # None => settled[p] \in Known
  /\ \A r \in Req : At(r, "snapshot") /\ req[r].last # None => req[r].last \in Known
  /\ \A r \in Req : At(r, "notifyChanged") => req[r].draft \in Known

\* A step of r that forgets no content, settles only what is known and leaves
\* r outside the last two steps of upsert.
LEMMA HistoryFrame ==
  ASSUME Typed, HistoryInv, NEW r \in Req, Known \subseteq Known',
         \A p \in Path : settled'[p] \in Known' \cup {settled[p], None},
         \A q \in Req \ {r} : req'[q] = req[q],
         req'[r].pc \notin HistoryPC
  PROVE  HistoryInv'
<1>1. \A p \in Path : settled'[p] # None => settled'[p] \in Known'
  BY DEF HistoryInv
<1>2. \A q \in Req : At(q, "snapshot")' => q # r /\ At(q, "snapshot") /\ req'[q] = req[q]
  BY DEF At, HistoryPC
<1>3. \A q \in Req : At(q, "notifyChanged")' => q # r /\ At(q, "notifyChanged") /\ req'[q] = req[q]
  BY DEF At, HistoryPC
<1>4. QED BY <1>1, <1>2, <1>3 DEF HistoryInv

\* The common case: neither the history nor what is settled changes.
LEMMA HistoryIdle ==
  ASSUME Typed, HistoryInv, NEW r \in Req,
         UNCHANGED <<revisions, erased, settled>>,
         \A q \in Req \ {r} : req'[q] = req[q],
         req'[r].pc \notin HistoryPC
  PROVE  HistoryInv'
  BY HistoryFrame DEF Known

LEMMA ResolveSettles ==
  ASSUME Typed, HistoryInv, NEW r \in Req, Resolve(r),
         req[r].draft \in Known', Known \subseteq Known'
  PROVE  HistoryInv'
<1>1. \A p \in Path : settled'[p] \in Known' \cup {settled[p], None}
  BY DEF Resolve
<1>2. req \in [Req -> Request] /\ req[r] \in Request
  BY DEF Typed, TypeOK
<1>3. (\A q \in Req \ {r} : req'[q] = req[q]) /\ req'[r].pc \notin HistoryPC
  <2>1. [req[r] EXCEPT !.pc = "moveHistory", !.ret = "next",
                       !.back = {}, !.last = None].pc = "moveHistory"
    BY <1>2 DEF Request
  <2>2. QED BY <1>2, <2>1, NextUpsertPC DEF Resolve, HistoryPC
<1>4. QED BY <1>1, <1>3, HistoryFrame

LEMMA LatestKnown ==
  ASSUME Typed, NEW p \in Path, NEW c \in Latest(p), c # None
  PROVE  c \in Known
  BY DEF Latest, Newest, History, Known

LEMMA HistoryInit == Init => HistoryInv
<1> SUFFICES ASSUME Init
             PROVE  HistoryInv
  OBVIOUS
<1>1. ASSUME NEW p \in Path, Seed[p] # None
      PROVE  Seed[p] \in Known
  <2>1. [path |-> p, content |-> Seed[p], at |-> 0] \in revisions
    BY <1>1 DEF Init
  <2>2. QED BY <2>1 DEF Known
<1>2. \A r \in Req : ~At(r, "snapshot") /\ ~At(r, "notifyChanged")
  BY DEF Init, At, Idle
<1>3. QED BY <1>1, <1>2 DEF HistoryInv, Init

LEMMA StartHistory ==
  ASSUME Typed, HistoryInv, NEW r \in Req, Start(r)
  PROVE  HistoryInv'
<1>1. PICK s \in Request : s.pc \in StartPC /\ Begin(r, s)
  BY StartBegins
<1>2. (\A q \in Req \ {r} : req'[q] = req[q]) /\ req'[r] = s
  BY <1>1 DEF Begin, Typed, TypeOK
<1>3. \A p \in Path : settled'[p] \in {settled[p], None}
  BY StartBegins DEF Typed, TypeOK
<1>4. Known' = Known
  BY <1>1 DEF Begin, satellites, Known
<1>5. QED BY <1>1, <1>2, <1>3, <1>4, HistoryFrame DEF StartPC, HistoryPC

LEMMA UpsertHistory ==
  ASSUME Typed, HistoryInv, NEW r \in Req, Upsert(r)
  PROVE  HistoryInv'
<1>0. /\ req \in [Req -> Request]
      /\ req[r].pc \in UpsertPC => req[r].path \in Path /\ req[r].draft \in Content
  BY DEF Typed, TypeOK, WellFormed
<1>1. CASE \/ WriteFile(r) \/ IndexDocument(r) \/ AddLinks(r) \/ PullLinks(r)
           \/ SetLinks(r)
  <2>1. /\ \A q \in Req \ {r} : req'[q] = req[q]
        /\ req'[r].pc \in {"index", "addLinks", "pullLinks", "readLinkers", "readLatest"}
    BY <1>1, GotoFrame DEF WriteFile, IndexDocument, AddLinks, PullLinks, SetLinks
  <2>2. UNCHANGED <<revisions, erased, settled>>
    BY <1>1 DEF WriteFile, IndexDocument, AddLinks, PullLinks, SetLinks,
                satellites, ghosts
  <2>3. QED BY <2>1, <2>2, HistoryIdle DEF HistoryPC
<1>2. CASE ReadLinkers(r)
  <2>1. (\A q \in Req \ {r} : req'[q] = req[q]) /\ req'[r].pc = "setLinks"
    BY <1>0, <1>2 DEF ReadLinkers, Request
  <2>2. QED
    BY <1>2, <2>1, HistoryIdle DEF ReadLinkers, HistoryPC, satellites, ghosts
<1>3. CASE ReadLatest(r)
  <2>1. req[r].path \in Path
    BY <1>0, <1>3 DEF ReadLatest, At, UpsertPC
  <2>2. PICK c \in Latest(req[r].path) :
          req' = [req EXCEPT ![r].pc = "snapshot", ![r].last = c]
    BY <1>3 DEF ReadLatest
  <2>3. /\ \A q \in Req \ {r} : req'[q] = req[q]
        /\ req'[r].pc = "snapshot" /\ req'[r].last = c
    BY <1>0, <2>2 DEF Request
  <2>4. c # None => c \in Known
    BY <2>1, LatestKnown
  <2>5. Known' = Known /\ settled' = settled
    BY <1>3 DEF ReadLatest, satellites, ghosts, Known
  <2>6. \A q \in Req : At(q, "snapshot")' /\ req'[q].last # None => req'[q].last \in Known
    BY <2>3, <2>4 DEF HistoryInv, At
  <2>7. \A q \in Req : At(q, "notifyChanged")' => req'[q].draft \in Known
    BY <2>3 DEF HistoryInv, At
  <2>8. QED BY <2>5, <2>6, <2>7 DEF HistoryInv
<1>4. CASE Snapshot(r)
  <2>1. req[r].path \in Path /\ req[r].draft \in Content
    BY <1>0, <1>4 DEF Snapshot, At, UpsertPC
  <2>2. req[r].draft \in Known'
    <3>1. CASE ~Changed(req[r])
      <4>1. req[r].last = req[r].draft
        BY <3>1 DEF Changed
      <4>2. req[r].last # None
        BY <2>1, <4>1, NoneAssumption
      <4>3. req[r].last \in Known
        BY <1>4, <4>2 DEF HistoryInv, Snapshot
      <4>4. Known' = Known
        BY <1>4, <3>1 DEF Snapshot, Known
      <4>5. QED BY <4>1, <4>3, <4>4
    <3>2. CASE Changed(req[r])
      <4>1. [path |-> req[r].path, content |-> req[r].draft, at |-> clock] \in revisions'
        BY <1>4, <3>2 DEF Snapshot
      <4>2. QED BY <4>1 DEF Known
    <3>3. QED BY <3>1, <3>2
  <2>3. Known \subseteq Known'
    BY <1>4 DEF Snapshot, Known
  <2>4. CASE Resolve(r)
    BY <2>2, <2>3, <2>4, ResolveSettles
  <2>5. CASE Goto(r, "notifyChanged") /\ UNCHANGED settled
    <3>1. /\ \A q \in Req \ {r} : req'[q] = req[q]
          /\ req'[r].pc = "notifyChanged" /\ req'[r].draft = req[r].draft
      BY <2>5, GotoFrame
    <3>2. \A q \in Req : At(q, "snapshot")' /\ req'[q].last # None => req'[q].last \in Known'
      BY <2>3, <3>1 DEF HistoryInv, At
    <3>3. \A q \in Req : At(q, "notifyChanged")' => req'[q].draft \in Known'
      BY <2>2, <2>3, <3>1 DEF HistoryInv, At
    <3>4. QED BY <2>3, <2>5, <3>2, <3>3 DEF HistoryInv
  <2>6. QED BY <1>4, <2>4, <2>5 DEF Snapshot
<1>5. CASE NotifyChanged(r)
  <2>1. req[r].draft \in Known
    BY <1>5 DEF NotifyChanged, HistoryInv
  <2>2. Known' = Known
    BY <1>5 DEF NotifyChanged, Known
  <2>3. QED BY <1>5, <2>1, <2>2, ResolveSettles DEF NotifyChanged
<1>6. QED
  BY <1>1, <1>2, <1>3, <1>4, <1>5 DEF Upsert

LEMMA RemovalHistory ==
  ASSUME Typed, HistoryInv, NEW r \in Req, Removal(r)
  PROVE  HistoryInv'
<1>0. req \in [Req -> Request]
  BY DEF Typed, TypeOK
<1>1. CASE DropHistory(r)
  <2>1. (\A q \in Req \ {r} : req'[q] = req[q]) /\ req'[r].pc = "dropComments"
    BY <1>1, GotoFrame DEF DropHistory
  <2>2. Known \subseteq Known' /\ settled' = settled
    BY <1>1 DEF DropHistory, Known
  <2>3. QED BY <2>1, <2>2, HistoryFrame DEF HistoryPC
<1>2. CASE Unlink(r)
  <2>1. (\A q \in Req \ {r} : req'[q] = req[q]) /\ req'[r].pc \notin HistoryPC
    <3>1. CASE Finish(r)
      BY <1>0, <3>1 DEF Finish, Idle, HistoryPC
    <3>2. CASE ~Finish(r)
      <4>1. req' = [req EXCEPT ![r].pc = "write", ![r].path = req[r].to,
                               ![r].ret = "moveHistory"]
        BY <1>2, <3>2 DEF Unlink
      <4>2. req'[r].pc = "write" /\ \A q \in Req \ {r} : req'[q] = req[q]
        BY <1>0, <4>1 DEF Request
      <4>3. QED BY <4>2 DEF HistoryPC
    <3>3. QED BY <3>1, <3>2
  <2>2. QED BY <1>2, <2>1, HistoryIdle DEF Unlink, satellites, ghosts
<1>3. CASE \/ NotifyDeleted(r) \/ RemoveFile(r) \/ RemoveDoc(r)
           \/ DropComments(r) \/ DropWatches(r)
  <2>1. /\ \A q \in Req \ {r} : req'[q] = req[q]
        /\ req'[r].pc \in {"removeFile", "removeDoc", "dropHistory", "dropWatches", "unlink"}
    BY <1>3, GotoFrame DEF NotifyDeleted, RemoveFile, RemoveDoc, DropComments, DropWatches
  <2>2. UNCHANGED <<revisions, erased, settled>>
    BY <1>3 DEF NotifyDeleted, RemoveFile, RemoveDoc, DropComments, DropWatches,
                satellites, ghosts
  <2>3. QED BY <2>1, <2>2, HistoryIdle DEF HistoryPC
<1>4. QED
  BY <1>1, <1>2, <1>3 DEF Removal

LEMMA RelocationHistory ==
  ASSUME Typed, HistoryInv, NEW r \in Req, Relocation(r) \/ ReadPaths(r)
  PROVE  HistoryInv'
<1>0. req \in [Req -> Request] /\ req[r] \in Request
  BY DEF Typed, TypeOK
<1>1. (\A q \in Req \ {r} : req'[q] = req[q]) /\ req'[r].pc \notin HistoryPC
  <2>0. ASSUME Finish(r)
        PROVE  (\A q \in Req \ {r} : req'[q] = req[q]) /\ req'[r].pc \notin HistoryPC
    BY <1>0, <2>0 DEF Finish, Idle, HistoryPC
  <2>1. CASE Clash(r)
    BY <2>0, <2>1, GotoFrame DEF Clash, HistoryPC
  <2>2. CASE ReadInbound(r)
    <3>1. req'[r].pc = "removeFile" /\ \A q \in Req \ {r} : req'[q] = req[q]
      BY <1>0, <2>2 DEF ReadInbound, Request
    <3>2. QED BY <3>1 DEF HistoryPC
  <2>3. CASE MoveHistory(r)
    BY <2>3, GotoFrame DEF MoveHistory, HistoryPC
  <2>4. CASE MoveComments(r)
    BY <1>0, <2>4, NextUpsertPC DEF MoveComments, HistoryPC
  <2>5. CASE ReadWatchers(r) /\ ~Finish(r)
    <3>1. req'[r].pc = "moveWatch" /\ \A q \in Req \ {r} : req'[q] = req[q]
      BY <1>0, <2>5 DEF ReadWatchers, Request
    <3>2. QED BY <3>1 DEF HistoryPC
  <2>6. CASE MoveWatch(r)
    <3>1. /\ req'[r].pc \in {"notifyMoved", "moveWatch"}
          /\ \A q \in Req \ {r} : req'[q] = req[q]
      BY <1>0, <2>6 DEF MoveWatch, Request
    <3>2. QED BY <3>1 DEF HistoryPC
  <2>7. CASE NotifyMoved(r)
    BY <2>0, <2>7 DEF NotifyMoved
  <2>8. CASE ReadPaths(r) /\ ~Finish(r)
    <3>1. req'[r].pc = "write" /\ \A q \in Req \ {r} : req'[q] = req[q]
      BY <1>0, <2>8 DEF ReadPaths, Request
    <3>2. QED BY <3>1 DEF HistoryPC
  <2>9. QED
    BY <2>0, <2>1, <2>2, <2>3, <2>4, <2>5, <2>6, <2>7, <2>8 DEF Relocation
<1>2. CASE MoveHistory(r)
  <2>1. \A v \in revisions : v.content \in {w.content : w \in revisions'}
    <3> SUFFICES ASSUME NEW v \in revisions
                 PROVE  \E w \in revisions' : w.content = v.content
      OBVIOUS
    <3>1. v \in Revision
      BY DEF Typed, TypeOK
    <3> DEFINE w == IF v.path = req[r].from THEN [v EXCEPT !.path = req[r].to] ELSE v
    <3>2. w \in revisions'
      BY <1>2 DEF MoveHistory, Rehomed
    <3>3. w.content = v.content
      BY <3>1 DEF Revision
    <3>4. QED BY <3>2, <3>3
  <2>2. Known \subseteq Known' /\ settled' = settled
    BY <1>2, <2>1 DEF MoveHistory, Known, ghosts
  <2>3. QED BY <1>1, <2>2, HistoryFrame
<1>3. CASE ~MoveHistory(r)
  <2>1. UNCHANGED <<revisions, erased, settled>>
    BY <1>3 DEF Relocation, Clash, ReadInbound, MoveComments, ReadWatchers,
                MoveWatch, NotifyMoved, ReadPaths, satellites, ghosts
  <2>2. QED BY <1>1, <2>1, HistoryIdle
<1>4. QED BY <1>2, <1>3

LEMMA FaultHistory ==
  ASSUME Typed, HistoryInv, Crash \/ \E r \in Req : Fail(r)
  PROVE  HistoryInv'
<1>0. req \in [Req -> Request]
  BY DEF Typed, TypeOK
<1>1. CASE Crash
  <2>1. \A r \in Req : ~At(r, "snapshot")' /\ ~At(r, "notifyChanged")'
    BY <1>1 DEF Crash, At, Idle
  <2>2. Known' = Known /\ settled' = settled
    BY <1>1 DEF Crash, Known, satellites
  <2>3. QED BY <2>1, <2>2 DEF HistoryInv
<1>2. ASSUME NEW r \in Req, Fail(r)
      PROVE  HistoryInv'
  <2>1. (\A q \in Req \ {r} : req'[q] = req[q]) /\ req'[r].pc \notin HistoryPC
    <3>1. \A n \in NextUpsert(req[r]) : n.pc \notin HistoryPC
      BY <1>0, NextUpsertPC DEF HistoryPC
    <3>2. Idle.pc \notin HistoryPC
      BY DEF Idle, HistoryPC
    <3>3. PICK n \in IF req[r].op = "import" THEN NextUpsert(req[r]) ELSE {Idle} :
            req' = [req EXCEPT ![r] = n]
      BY <1>2 DEF Fail
    <3>4. QED BY <1>0, <3>1, <3>2, <3>3
  <2>2. QED BY <1>2, <2>1, HistoryIdle DEF Fail, satellites
<1>3. QED BY <1>1, <1>2

LEMMA ReaderHistory ==
  ASSUME HistoryInv, UNCHANGED <<req, revisions, erased, settled>>
  PROVE  HistoryInv'
  BY DEF HistoryInv, Known, At

\* The strengthened invariant of the history.
THEOREM HistoryInvariant == Spec => []HistoryInv
<1>1. Init => HistoryInv
  BY HistoryInit
<1>2. Typed /\ HistoryInv /\ [Next]_vars => HistoryInv'
  <2> SUFFICES ASSUME Typed, HistoryInv, [Next]_vars
               PROVE  HistoryInv'
    OBVIOUS
  <2>1. CASE UNCHANGED vars
    BY <2>1, ReaderHistory DEF vars, satellites, ghosts
  <2>2. CASE \/ \E t \in Thread, p \in Path, u \in Actor, m \in SUBSET User :
              AddComment(t, p, u, m)
             \/ \E u \in User, p \in Path : Watch(u, p) \/ Unwatch(u, p)
    BY <2>2, ReaderHistory DEF AddComment, Watch, Unwatch, ghosts
  <2>3. QED
    BY <2>1, <2>2, StartHistory, UpsertHistory, RemovalHistory,
       RelocationHistory, FaultHistory DEF Next
<1>3. QED BY <1>1, <1>2, TypeCorrect, PTL DEF Spec

\* What upsert once stored and resolved stays in the history of some document,
\* whatever is interleaved, moved or interrupted, unless a delete erased it.
THEOREM HistorySafe == Spec => []SettledInHistory
<1>1. HistoryInv => SettledInHistory
  BY DEF HistoryInv, SettledInHistory, Known
<1>2. QED BY <1>1, HistoryInvariant, PTL
-----------------------------------------------------------------------------
(***************************************************************************)
(* Requests one at a time.  Until two requests overlap or one fails        *)
(* (~tangled), at most one request is at work, and the stores are what the *)
(* requests before it left, but for what the one at work has still to do.  *)
(* Ordered says so of the local state s of that request, which is Idle     *)
(* when there is none.                                                     *)
(***************************************************************************)

\* The record of s.path is written and the backlinks are under revision.
LinkPC == {"addLinks", "pullLinks", "readLinkers", "setLinks"}

\* The record of s.path is written, the upsert has not resolved.
StoredPC == LinkPC \cup {"readLatest", "snapshot", "notifyChanged"}

\* The record of s.from is gone, what was keyed by it not yet.
GonePC == {"dropHistory", "dropComments", "dropWatches", "unlink"}

\* The document that moves is still at its old path.
AheadPC == {"clash", "readInbound", "removeFile", "removeDoc"}

Carried(s) ==
  /\ s.pc \in StoredPC => index[s.path] = s.draft
  /\ s.pc \in GonePC => index[s.from] = None
  /\ s.pc = "setLinks" => s.back = Linkers(s.path)
  /\ s.pc = "snapshot" => s.last \in Latest(s.path)

\* A move goes to a free path, empties the old one and never writes there again.
Placed(s) ==
  /\ s.ret = "moveHistory" => s.pc \in UpsertPC /\ s.path = s.to
  /\ s.pc = "readPaths" => s.op # "move"
  /\ s.op = "move" =>
       /\ s.from # s.to
       /\ s.pc \in {"readInbound", "removeFile", "removeDoc", "unlink"} => index[s.to] = None
       /\ s.ret = "moveHistory" /\ s.pc \in {"write", "index"} => index[s.to] = None
       /\ s.pc \notin AheadPC => index[s.from] = None
       /\ s.pc \notin AheadPC \cup {"unlink"} /\ s.ret = "next" => index[s.to] # None
       /\ s.pc \in UpsertPC => s.path # s.from
       /\ s.pc \in {"readWatchers", "moveWatch", "notifyMoved"} => s.todo = {}

\* Whoever links to the old path of a move is rewritten, or will be.
Retargeted(s) ==
  s.op = "move" /\ s.pc \notin {"clash", "readInbound"} =>
    /\ \A d \in s.todo : d.path # s.from /\ s.from \notin d.draft.links
    /\ s.pc \in UpsertPC /\ s.ret = "next" => s.from \notin s.draft.links
    /\ \A q \in Linkers(s.from) \ {s.from, s.to} :
         \/ \E d \in s.todo : d.path = q
         \/ s.pc \in {"write", "index"} /\ s.path = q

\* Whether x is a backlink of q is still to be settled by s.
Rewiring(s, q, x) ==
  \/ s.pc \in GonePC /\ x = s.from
  \/ s.pc = "addLinks" /\ x = s.path
  \/ s.pc = "pullLinks" /\ x = s.path /\ q \notin s.draft.links
  \/ s.pc \in LinkPC /\ q = s.path

Wired(s) ==
  \A q \in Indexed, x \in Path :
    ~Rewiring(s, q, x) => (x \in incoming[q] <=> x \in Linkers(q))

\* The newest revision of a document is what is stored, revisions of one path
\* have different times, and those that move along are older than the one at
\* the new path.
Headed(s) ==
  /\ \A v \in revisions : v.at < clock
  /\ \A v, w \in revisions : v.path = w.path /\ v.at = w.at => v = w
  /\ \A p \in Indexed :
       Latest(p) = {index[p]} \/ (s.pc \in StoredPC \ {"notifyChanged"} /\ p = s.path)
  /\ s.ret = "moveHistory" => s.pc # "notifyChanged" /\ History(s.to) = {}
  /\ s.pc = "moveHistory" => \A v \in History(s.from), w \in History(s.to) : v.at < w.at

\* What is left at the old path of a removal and still to be dropped or moved.
HistoryLeft(s)  == \/ s.pc \in {"dropHistory", "moveHistory"} \/ s.ret = "moveHistory"
                   \/ s.op = "move" /\ s.pc = "unlink"
CommentsLeft(s) == HistoryLeft(s) \/ s.pc \in {"dropComments", "moveComments"}
WatchesLeft(s)  == \/ s.pc \in {"dropHistory", "dropComments", "dropWatches"}
                   \/ s.op = "move" /\ s.pc \notin AheadPC \cup {"notifyMoved"}

Followed(s) ==
  /\ \A v \in revisions : v.path \in Indexed \/ (HistoryLeft(s) /\ v.path = s.from)
  /\ \A k \in comments : k[2] \in Indexed \/ (CommentsLeft(s) /\ k[2] = s.from)
  /\ \A w \in watches :
       \/ w[2] \in Indexed
       \/ WatchesLeft(s) /\ w[2] = s.from /\ (s.pc = "moveWatch" => w[1] \in s.users)

\* Who loses a watch to a deletion has been told.
TellPC == {"removeFile", "removeDoc", "dropHistory", "dropComments", "dropWatches"}

Told(s) ==
  s.op = "delete" /\ s.pc \in TellPC =>
    \A w \in watches : w[2] = s.from =>
      \/ w[1] = s.by
      \/ <<w[1], "deleted">> \in Mutes
      \/ [user |-> w[1], path |-> w[2], kind |-> "deleted"] \in inbox

Ordered(s) ==
  Carried(s) /\ Placed(s) /\ Retargeted(s) /\ Wired(s) /\ Headed(s) /\ Followed(s) /\ Told(s)

\* The request at work.
AtWork == IF Quiet THEN {Idle} ELSE {req[r] : r \in {x \in Req : Busy(x)}}

SerialInv ==
  ~tangled => /\ \A q, r \in Req : Busy(q) /\ Busy(r) => q = r
              /\ \A s \in AtWork : Ordered(s)

\* r goes on with local state n, after which the stores are ordered.
HandsOver(r) == \E n \in Request : /\ req' = [req EXCEPT ![r] = n]
                                   /\ n.pc = "idle" => n = Idle
                                   /\ Ordered(n)'

LEMMA WorksAlone ==
  ASSUME Typed, SerialInv, ~tangled, NEW r \in Req, Busy(r)
  PROVE  /\ Ordered(req[r])
         /\ \A q \in Req \ {r} : ~Busy(q)
  BY DEF SerialInv, AtWork, Quiet

LEMMA SerialStep ==
  ASSUME Typed, NEW r \in Req, \A q \in Req \ {r} : ~Busy(q), HandsOver(r)
  PROVE  SerialInv'
<1>1. PICK n \in Request : /\ req' = [req EXCEPT ![r] = n]
                           /\ n.pc = "idle" => n = Idle
                           /\ Ordered(n)'
  BY DEF HandsOver
<1>2. req'[r] = n /\ \A q \in Req \ {r} : req'[q].pc = "idle"
  BY <1>1 DEF Typed, TypeOK, Busy
<1>3. \A s \in AtWork' : s = n
  BY <1>1, <1>2 DEF AtWork, Quiet, Busy
<1>4. QED
  BY <1>1, <1>2, <1>3 DEF SerialInv, Busy

LEMMA SameIndex ==
  ASSUME index' = index
  PROVE  Indexed' = Indexed /\ \A p : Linkers(p)' = Linkers(p)
  BY DEF Indexed, Linkers

LEMMA SameHistory ==
  ASSUME revisions' = revisions
  PROVE  \A p : History(p)' = History(p) /\ Latest(p)' = Latest(p)
  BY DEF History, Newest, Latest

\* The fields of a local state of which only the pc changes.
LEMMA PcOnly ==
  ASSUME NEW s \in Request, NEW pc \in PC, NEW n, n = [s EXCEPT !.pc = pc]
  PROVE  /\ n \in Request /\ n.pc = pc
         /\ n.op = s.op /\ n.by = s.by /\ n.path = s.path /\ n.draft = s.draft /\ n.ret = s.ret
         /\ n.from = s.from /\ n.to = s.to /\ n.todo = s.todo /\ n.back = s.back
         /\ n.last = s.last /\ n.users = s.users
  BY DEF Request

LEMMA IdleFields ==
  /\ Idle \in Request /\ Idle.pc = "idle" /\ Idle.op = "none" /\ Idle.ret = "next" /\ Idle.todo = {}
  BY IdleOK DEF Idle

LEMMA IndexTyped ==
  ASSUME Typed
  PROVE  /\ index \in [Path -> Content \cup {None}] /\ incoming \in [Path -> SUBSET Path]
         /\ Indexed \subseteq Path
         /\ \A p \in Path : p \in Indexed <=> index[p] # None
         /\ \A p \in Path : index[p] # None => index[p] \in Content
         /\ \A p, q : q \in Linkers(p) <=> q \in Indexed /\ p \in index[q].links
  BY DEF Typed, TypeOK, Indexed, Linkers

\* A request that has nothing left to do leaves everything in order.
LEMMA RestOrdered ==
  ASSUME NEW s \in Request, Ordered(s)',
         s.pc \notin StoredPC \cup GonePC \/ s.pc = "notifyChanged",
         s.ret = "next", s.pc \notin {"moveHistory", "moveComments"},
         \A w \in watches' : w[2] \in Indexed'
  PROVE  Ordered(Idle)'
<1>1. Carried(Idle)' /\ Placed(Idle)' /\ Retargeted(Idle)' /\ Told(Idle)'
  BY IdleFields DEF Carried, Placed, Retargeted, Told, StoredPC, LinkPC, GonePC, TellPC
<1>2. Wired(Idle)'
  BY IdleFields DEF Ordered, Wired, Rewiring, StoredPC, LinkPC, GonePC
<1>3. Headed(Idle)'
  BY IdleFields DEF Ordered, Headed, StoredPC, LinkPC, GonePC
<1>4. Followed(Idle)'
  BY IdleFields DEF Ordered, Followed, HistoryLeft, CommentsLeft, WatchesLeft, GonePC, StoredPC
<1>5. QED
  BY <1>1, <1>2, <1>3, <1>4 DEF Ordered

\* Two local states that differ in their pc only.
Kept(n, s) ==
  /\ n.op = s.op /\ n.by = s.by /\ n.path = s.path /\ n.draft = s.draft /\ n.ret = s.ret
  /\ n.from = s.from /\ n.to = s.to /\ n.todo = s.todo /\ n.back = s.back
  /\ n.last = s.last /\ n.users = s.users

LEMMA KeptSelf == \A s : Kept(s, s)
  BY DEF Kept

\* The next document of the loop, the watches of a move, or the end.
LEMMA NextOrdered ==
  ASSUME NEW s \in Request, WellFormed(s), NEW n \in NextUpsert(s),
         NEW m \in Request, Kept(m, s), Ordered(m)',
         m.pc \in {"idle", "notifyChanged", "moveComments"}, m.ret = "next",
         m.op = "move" => m.pc # "idle",
         m.pc = "moveComments" => m.op = "move",
         \A k \in comments' : k[2] \in Indexed'
  PROVE  n \in Request /\ (n.pc = "idle" => n = Idle) /\ Ordered(n)'
<1>0. n \in Request
  BY NextUpsertOK
<1>1. CASE s.todo # {}
  <2>1. PICK d \in s.todo : n = Upserting(s, d)
    BY <1>1 DEF NextUpsert
  <2>2. d \in [path : Path, draft : Content]
    BY DEF Request
  <2>3. /\ n.pc = "write" /\ n.op = m.op /\ n.by = m.by /\ n.path = d.path /\ n.draft = d.draft
        /\ n.ret = "next" /\ n.from = m.from /\ n.to = m.to /\ n.todo = m.todo \ {d} /\ d \in m.todo
    BY <2>1 DEF Upserting, Request, Kept
  <2>4. Carried(n)' /\ Told(n)'
    BY <2>3 DEF Carried, Told, StoredPC, LinkPC, GonePC, TellPC
  <2>5. Placed(n)'
    BY <2>3 DEF Ordered, Placed, Retargeted, AheadPC, UpsertPC
  <2>6. Retargeted(n)'
    <3> SUFFICES ASSUME m.op = "move"
                 PROVE  Retargeted(n)'
      BY <2>3 DEF Retargeted
    <3>1. /\ \A e \in m.todo : e.path # m.from /\ m.from \notin e.draft.links
          /\ \A q \in Linkers(m.from)' \ {m.from, m.to} : \E e \in m.todo : e.path = q
      BY DEF Ordered, Retargeted
    <3>2. \A q \in Linkers(m.from)' \ {m.from, m.to} :
            (\E e \in n.todo : e.path = q) \/ n.path = q
      BY <2>3, <3>1
    <3>3. QED
      BY <2>3, <3>1, <3>2 DEF Retargeted
  <2>7. Wired(n)'
    BY <2>3 DEF Ordered, Wired, Rewiring, GonePC, LinkPC
  <2>8. Headed(n)'
    BY <2>3 DEF Ordered, Headed, StoredPC, LinkPC
  <2>9. Followed(n)'
    BY <2>3 DEF Ordered, Followed, HistoryLeft, CommentsLeft, WatchesLeft, AheadPC
  <2>10. QED
    BY <1>0, <2>3, <2>4, <2>5, <2>6, <2>7, <2>8, <2>9 DEF Ordered
<1>2. CASE s.todo = {} /\ s.op = "move"
  <2>1. n = [s EXCEPT !.pc = "readWatchers", !.path = None, !.draft = None,
                      !.back = {}, !.last = None]
    BY <1>2 DEF NextUpsert
  <2>2. /\ n.pc = "readWatchers" /\ n.op = m.op /\ n.ret = "next" /\ n.from = m.from /\ n.to = m.to
        /\ n.todo = m.todo
    BY <2>1 DEF Request, Kept
  <2>3. Carried(n)' /\ Told(n)'
    BY <2>2 DEF Carried, Told, StoredPC, LinkPC, GonePC, TellPC
  <2>4. Placed(n)'
    BY <1>2, <2>2 DEF Kept, Ordered, Placed, AheadPC, UpsertPC
  <2>5. Retargeted(n)'
    BY <1>2, <2>2 DEF Kept, Ordered, Retargeted, UpsertPC
  <2>6. Wired(n)'
    BY <2>2 DEF Ordered, Wired, Rewiring, GonePC, LinkPC
  <2>7. Headed(n)'
    BY <2>2 DEF Ordered, Headed, StoredPC, LinkPC
  <2>8. Followed(n)'
    BY <1>2, <2>2 DEF Kept, Ordered, Followed, HistoryLeft, CommentsLeft, WatchesLeft, AheadPC
  <2>9. QED
    BY <1>0, <2>2, <2>3, <2>4, <2>5, <2>6, <2>7, <2>8 DEF Ordered
<1>3. CASE s.todo = {} /\ s.op # "move"
  <2>1. n = Idle
    BY <1>3 DEF NextUpsert
  <2>2. m.pc # "moveComments" /\ m.op # "move"
    BY <1>3 DEF Kept
  <2>3. \A w \in watches' : w[2] \in Indexed'
    BY <2>2 DEF Ordered, Followed, WatchesLeft
  <2>4. Ordered(Idle)'
    BY <2>2, <2>3, RestOrdered DEF StoredPC, LinkPC, GonePC
  <2>5. QED
    BY <1>0, <2>1, <2>4
<1>4. QED BY <1>1, <1>2, <1>3

-----------------------------------------------------------------------------
LEMMA InitSerial == Init => SerialInv
<1> SUFFICES ASSUME Init
             PROVE  SerialInv
  OBVIOUS
<1>1. AtWork = {Idle} /\ \A r \in Req : ~Busy(r)
  BY IdleFields DEF Init, AtWork, Quiet, Busy
<1>2. Carried(Idle) /\ Placed(Idle) /\ Retargeted(Idle) /\ Told(Idle)
  BY IdleFields DEF Carried, Placed, Retargeted, Told, StoredPC, LinkPC, GonePC, TellPC
<1>3. Indexed = {p \in Path : Seed[p] # None} /\ \A p \in Path : Seed[p] # None => Seed[p] \in Content
  BY SeedAssumption DEF Init, Indexed
<1>4. Wired(Idle)
  BY <1>3, IdleFields DEF Init, Wired, Linkers, Rewiring, GonePC, LinkPC
<1>5. Headed(Idle)
  <2>1. ASSUME NEW p \in Indexed
        PROVE  Latest(p) = {index[p]}
    <3>1. History(p) = {[path |-> p, content |-> Seed[p], at |-> 0]}
      BY <1>3 DEF Init, History
    <3>2. Newest(p) = {[path |-> p, content |-> Seed[p], at |-> 0]}
      BY <3>1 DEF Newest
    <3>3. QED
      BY <3>1, <3>2 DEF Latest, Init
  <2>2. \A v \in revisions : v.at < clock
    BY DEF Init
  <2>3. \A v, w \in revisions : v.path = w.path /\ v.at = w.at => v = w
    BY DEF Init
  <2>4. QED
    BY <2>1, <2>2, <2>3, IdleFields DEF Headed
<1>6. Followed(Idle)
  BY <1>3 DEF Init, Followed
<1>7. QED
  BY <1>1, <1>2, <1>4, <1>5, <1>6 DEF SerialInv, Ordered

\* Notices, and what readers add and take away at documents that exist.
LEMMA BesideOrdered ==
  ASSUME UNCHANGED <<index, incoming, revisions, clock>>, NEW s, Ordered(s),
         inbox \subseteq inbox',
         \A k \in comments' : k \in comments \/ k[2] \in Indexed,
         \A w \in watches' : w \in watches \/ (w[2] \in Indexed /\ s = Idle)
  PROVE  Ordered(s)'
<1>1. Carried(s)' /\ Placed(s)' /\ Retargeted(s)'
  BY SameIndex, SameHistory DEF Ordered, Carried, Placed, Retargeted
<1>2. Told(s)'
  BY IdleFields DEF Ordered, Told
<1>3. Wired(s)'
  BY SameIndex DEF Ordered, Wired
<1>4. Headed(s)'
  BY SameIndex, SameHistory DEF Ordered, Headed
<1>5. Followed(s)'
  BY SameIndex DEF Ordered, Followed
<1>6. QED
  BY <1>1, <1>2, <1>3, <1>4, <1>5 DEF Ordered

\* What the documents and their followers are does not change.
LEMMA Unmoved ==
  ASSUME UNCHANGED <<index, incoming, revisions, clock, comments, watches, inbox>>, NEW s, Ordered(s)
  PROVE  Ordered(s)'
  BY BesideOrdered

\* A request that starts finds everything in order.
LEMMA FreshOrdered ==
  ASSUME NEW s \in Request, Ordered(Idle)', s.ret = "next",
         s.pc \in {"idle", "write", "readPaths", "notifyDeleted", "clash"},
         s.op = "move" => s.pc = "clash" /\ s.from # s.to
  PROVE  Ordered(s)'
<1>1. Carried(s)' /\ Placed(s)' /\ Retargeted(s)' /\ Told(s)'
  BY DEF Carried, Placed, Retargeted, Told, StoredPC, LinkPC, GonePC, TellPC, AheadPC, UpsertPC
<1>2. Wired(s)'
  BY IdleFields DEF Ordered, Wired, Rewiring, LinkPC, GonePC
<1>3. Headed(s)'
  BY IdleFields DEF Ordered, Headed, StoredPC, LinkPC
<1>4. Followed(s)'
  BY IdleFields DEF Ordered, Followed, HistoryLeft, CommentsLeft, WatchesLeft, AheadPC
<1>5. QED
  BY <1>1, <1>2, <1>3, <1>4 DEF Ordered

LEMMA BeginSerial ==
  ASSUME Typed, SerialInv, ~tangled', NEW r \in Req, NEW s \in Request, Begin(r, s),
         s.pc = "idle" => s = Idle, Ordered(Idle)' => Ordered(s)'
  PROVE  SerialInv'
<1>1. ~tangled /\ Quiet
  BY DEF Begin
<1>2. Ordered(Idle)
  BY <1>1 DEF SerialInv, AtWork
<1>3. UNCHANGED <<index, incoming, revisions, clock, comments, watches, inbox>>
  BY DEF Begin, stores, satellites
<1>4. Ordered(s)'
  BY <1>2, <1>3, Unmoved
<1>5. HandsOver(r)
  BY <1>4 DEF HandsOver, Begin
<1>6. QED
  BY <1>1, <1>5, SerialStep DEF Quiet

LEMMA StartSerial ==
  ASSUME Typed, SerialInv, ~tangled', NEW r \in Req, Start(r)
  PROVE  SerialInv'
<1>0. /\ index \in [Path -> Content \cup {None}]
      /\ Indexed \subseteq Path /\ \A p \in Indexed : index[p] \in Content
  BY IndexTyped DEF Typed, TypeOK
<1> DEFINE Loop(op, u, todo) == [Idle EXCEPT !.op = op, !.by = u, !.todo = todo]
<1>1. ASSUME NEW op \in {"import", "fixAll"}, NEW u \in Actor,
             NEW todo \in SUBSET [path : Path, draft : Content],
             NEW s \in NextUpsert(Loop(op, u, todo)), Begin(r, s)
      PROVE  SerialInv'
  <2>1. u \in User \cup {None}
    BY ActorAssumption
  <2>2. PICK m : m = Loop(op, u, todo)
    OBVIOUS
  <2>3. m \in Request /\ m.pc = "idle" /\ m.ret = "next" /\ m.op = op
    BY <2>1, <2>2 DEF Idle, Request, PC
  <2>4. WellFormed(m)
    BY <2>3, <2>2, IdleOK DEF Idle, WellFormed, UpsertPC, DeletePC, RemovePC, MovePC
  <2>5. s \in NextUpsert(m)
    BY <2>2
  <2> HIDE DEF Loop
  <2>6. s \in Request
    BY <2>3, <2>4, <2>5, NextUpsertOK
  <2>7. ASSUME Ordered(Idle)'
        PROVE  (s.pc = "idle" => s = Idle) /\ Ordered(s)'
    <3>1. Ordered(m)'
      BY <2>3, <2>7, FreshOrdered
    <3>2. \A k \in comments' : k[2] \in Indexed'
      BY <2>7, IdleFields DEF Ordered, Followed, CommentsLeft, HistoryLeft
    <3>3. QED
      BY <2>3, <2>4, <2>5, <3>1, <3>2, KeptSelf, NextOrdered
  <2>8. s.pc = "idle" => s = Idle
    <3>1. CASE m.todo = {}
      BY <2>3, <2>5, <3>1 DEF NextUpsert
    <3>2. CASE m.todo # {}
      <4>1. PICK d \in m.todo : s = Upserting(m, d)
        BY <2>5, <3>2 DEF NextUpsert
      <4>2. s.pc = "write"
        BY <2>3, <4>1 DEF Upserting, Request
      <4>3. QED BY <4>2
    <3>3. QED BY <3>1, <3>2
  <2>9. QED
    BY <1>1, <2>6, <2>7, <2>8, BeginSerial
<1>2. ASSUME NEW s \in Request, Begin(r, s), s.ret = "next",
             s.pc \in {"write", "readPaths", "notifyDeleted", "clash"},
             s.op = "move" => s.pc = "clash" /\ s.from # s.to
      PROVE  SerialInv'
  BY <1>2, FreshOrdered, BeginSerial
<1>3. CASE StartImport(r)
  <2>1. PICK files \in SUBSET [path: Path, draft: Drafts], u \in Actor :
          \E s \in NextUpsert(Loop("import", u, files)) : Begin(r, s)
    BY <1>3 DEF StartImport
  <2>2. files \in SUBSET [path: Path, draft: Content]
    BY DraftsAssumption
  <2> HIDE DEF Loop
  <2>3. QED
    BY <1>1, <2>1, <2>2
<1>4. CASE StartFixAll(r)
  <2> DEFINE repairs == {[path |-> q, draft |-> Repaired(q)] :
                           q \in {x \in Indexed : Repaired(x) # index[x]}}
  <2>1. PICK u \in Actor : \E s \in NextUpsert(Loop("fixAll", u, repairs)) : Begin(r, s)
    BY <1>4 DEF StartFixAll
  <2>2. ASSUME NEW q \in Indexed
        PROVE  Repaired(q) \in Content
    <3>1. index[q] \in Content
      BY <1>0
    <3>2. \A l \in index[q].links : Namesakes(l, Indexed \ {q}) # {} =>
            Suggest(l, Indexed \ {q}) \in Path
      BY <1>0 DEF Namesakes, Suggest
    <3>3. {IF l \in Indexed \/ Namesakes(l, Indexed \ {q}) = {}
             THEN l ELSE Suggest(l, Indexed \ {q}) : l \in index[q].links}
            \subseteq Path
      BY <3>1, <3>2 DEF Content
    <3>4. QED BY <3>1, <3>3 DEF Repaired, Content
  <2>3. repairs \in SUBSET [path: Path, draft: Content]
    BY <1>0, <2>2
  <2> HIDE DEF Loop, repairs
  <2>4. QED
    BY <1>1, <2>1, <2>3
<1>5. CASE StartSave(r) \/ StartTag(r) \/ StartFix(r) \/ StartDelete(r)
  <2>1. PICK s \in Request : /\ Begin(r, s) /\ s.ret = "next" /\ s.op # "move"
                             /\ s.pc \in {"write", "readPaths", "notifyDeleted"}
    <3>1. CASE StartSave(r)
      <4>1. PICK p \in Path, c \in Drafts, u \in Actor :
              Begin(r, [Idle EXCEPT !.op = "save", !.pc = "write", !.by = u, !.path = p, !.draft = c])
        BY <3>1 DEF StartSave
      <4>2. c \in Content /\ u \in User \cup {None}
        BY DraftsAssumption, ActorAssumption
      <4>3. PICK s : s = [Idle EXCEPT !.op = "save", !.pc = "write", !.by = u, !.path = p, !.draft = c]
        OBVIOUS
      <4>4. s \in Request /\ s.ret = "next" /\ s.op # "move" /\ s.pc \in {"write", "readPaths", "notifyDeleted"}
        BY <4>2, <4>3 DEF Idle, Request, PC
      <4>5. QED BY <4>1, <4>3, <4>4
    <3>2. CASE StartTag(r)
      <4>1. PICK p \in Indexed, t \in Text, u \in Actor :
              Begin(r, [Idle EXCEPT !.op = "tag", !.pc = "write", !.by = u, !.path = p,
                                    !.draft = [index[p] EXCEPT !.text = t]])
        BY <3>2 DEF StartTag
      <4>2. PICK c : c = [index[p] EXCEPT !.text = t]
        OBVIOUS
      <4>3. c \in Content /\ u \in User \cup {None} /\ p \in Path
        BY <1>0, <4>2, ActorAssumption DEF Content
      <4>4. Begin(r, [Idle EXCEPT !.op = "tag", !.pc = "write", !.by = u, !.path = p, !.draft = c])
        BY <4>1, <4>2
      <4>5. PICK s : s = [Idle EXCEPT !.op = "tag", !.pc = "write", !.by = u, !.path = p, !.draft = c]
        OBVIOUS
      <4>6. s \in Request /\ s.ret = "next" /\ s.op # "move" /\ s.pc \in {"write", "readPaths", "notifyDeleted"}
        BY <4>3, <4>5 DEF Idle, Request, PC
      <4>7. QED BY <4>4, <4>5, <4>6
    <3>3. CASE StartFix(r)
      <4>0. PICK p \in Indexed, u \in Actor : \E l \in index[p].links :
              Begin(r, [Idle EXCEPT !.op = "fix", !.pc = "readPaths", !.by = u,
                                    !.path = p, !.draft = index[p], !.to = l])
        BY <3>3 DEF StartFix
      <4>1. PICK l \in index[p].links :
              Begin(r, [Idle EXCEPT !.op = "fix", !.pc = "readPaths", !.by = u,
                                    !.path = p, !.draft = index[p], !.to = l])
        BY <4>0
      <4>2. index[p] \in Content /\ u \in User \cup {None} /\ p \in Path /\ l \in Path
        BY <1>0, ActorAssumption DEF Content
      <4>3. PICK s : s = [Idle EXCEPT !.op = "fix", !.pc = "readPaths", !.by = u,
                                   !.path = p, !.draft = index[p], !.to = l]
        OBVIOUS
      <4>4. s \in Request /\ s.ret = "next" /\ s.op # "move" /\ s.pc \in {"write", "readPaths", "notifyDeleted"}
        BY <4>2, <4>3 DEF Idle, Request, PC
      <4>5. QED BY <4>1, <4>3, <4>4
    <3>4. CASE StartDelete(r)
      <4>1. PICK p \in Indexed, u \in Actor :
              Begin(r, [Idle EXCEPT !.op = "delete", !.pc = "notifyDeleted", !.by = u, !.from = p])
        BY <3>4 DEF StartDelete
      <4>2. u \in User \cup {None} /\ p \in Path
        BY <1>0, ActorAssumption
      <4>3. PICK s : s = [Idle EXCEPT !.op = "delete", !.pc = "notifyDeleted", !.by = u, !.from = p]
        OBVIOUS
      <4>4. s \in Request /\ s.ret = "next" /\ s.op # "move" /\ s.pc \in {"write", "readPaths", "notifyDeleted"}
        BY <4>2, <4>3 DEF Idle, Request, PC
      <4>5. QED BY <4>1, <4>3, <4>4
    <3>5. QED BY <1>5, <3>1, <3>2, <3>3, <3>4
  <2>2. QED
    BY <1>2, <2>1
<1>6. CASE StartMove(r)
  <2>0. PICK p \in Indexed, u \in Actor : \E q \in Path \ {p} :
          Begin(r, [Idle EXCEPT !.op = "move", !.pc = "clash", !.by = u,
                                !.from = p, !.to = q, !.draft = index[p]])
    BY <1>6 DEF StartMove
  <2>1. PICK q \in Path \ {p} :
          Begin(r, [Idle EXCEPT !.op = "move", !.pc = "clash", !.by = u,
                                !.from = p, !.to = q, !.draft = index[p]])
    BY <2>0
  <2>2. index[p] \in Content /\ u \in User \cup {None} /\ p \in Path
    BY <1>0, ActorAssumption
  <2>3. PICK s : s = [Idle EXCEPT !.op = "move", !.pc = "clash", !.by = u,
                                  !.from = p, !.to = q, !.draft = index[p]]
    OBVIOUS
  <2>4. s \in Request /\ s.ret = "next" /\ s.pc = "clash" /\ s.from = p /\ s.to = q
    BY <2>2, <2>3 DEF Idle, Request, PC
  <2>5. QED
    BY <1>2, <2>1, <2>3, <2>4
<1>7. QED
  BY <1>3, <1>4, <1>5, <1>6 DEF Start

-----------------------------------------------------------------------------
LEMMA GotoKept ==
  ASSUME Typed, NEW r \in Req, NEW pc \in PC, Goto(r, pc)
  PROVE  \E n \in Request : req' = [req EXCEPT ![r] = n] /\ n.pc = pc /\ Kept(n, req[r])
<1>1. PICK n : n = [req[r] EXCEPT !.pc = pc]
  OBVIOUS
<1>2. n \in Request /\ n.pc = pc /\ Kept(n, req[r])
  BY <1>1, ReqIn, PcOnly DEF Kept
<1>3. req' = [req EXCEPT ![r] = n]
  BY <1>1 DEF Goto
<1>4. QED BY <1>2, <1>3

LEMMA WriteOrdered ==
  ASSUME Typed, NEW r \in Req, Ordered(req[r]), WriteFile(r)
  PROVE  HandsOver(r)
<1>1. "index" \in PC
  BY DEF PC
<1>2. PICK n \in Request : req' = [req EXCEPT ![r] = n] /\ n.pc = "index" /\ Kept(n, req[r])
  BY <1>1, GotoKept DEF WriteFile
<1>3. PICK s : s = req[r]
  OBVIOUS
<1>4. Ordered(s) /\ s.pc = "write" /\ Kept(n, s)
  BY <1>2, <1>3 DEF WriteFile, At
<1>5. Ordered(n)
  <2>1. Carried(n) /\ Placed(n) /\ Retargeted(n) /\ Told(n)
    BY <1>2, <1>4 DEF Ordered, Carried, Placed, Retargeted, Told, Kept, StoredPC, LinkPC, GonePC,
                      TellPC, AheadPC, UpsertPC
  <2>2. Wired(n) /\ Headed(n)
    BY <1>2, <1>4 DEF Ordered, Wired, Rewiring, Headed, Kept, StoredPC, LinkPC, GonePC
  <2>3. Followed(n)
    BY <1>2, <1>4 DEF Ordered, Followed, HistoryLeft, CommentsLeft, WatchesLeft, Kept, AheadPC
  <2>4. QED
    BY <2>1, <2>2, <2>3 DEF Ordered
<1>6. UNCHANGED <<index, incoming, revisions, clock, comments, watches, inbox>>
  BY DEF WriteFile, satellites
<1>7. QED
  BY <1>2, <1>5, <1>6, Unmoved DEF HandsOver

LEMMA IndexOrdered ==
  ASSUME Typed, NEW r \in Req, Ordered(req[r]), IndexDocument(r)
  PROVE  HandsOver(r)
<1>1. "addLinks" \in PC
  BY DEF PC
<1>2. PICK n \in Request : req' = [req EXCEPT ![r] = n] /\ n.pc = "addLinks" /\ Kept(n, req[r])
  BY <1>1, GotoKept DEF IndexDocument
<1>3. PICK s \in Request : s = req[r] /\ WellFormed(s)
  BY ReqIn
<1>4. Ordered(s) /\ s.pc = "index" /\ Kept(n, s)
  BY <1>2, <1>3 DEF IndexDocument, At
<1>5. s.path \in Path /\ s.draft \in Content /\ (s.ret = "moveHistory" => s.op = "move")
      /\ (s.op = "move" => s.from \in Path /\ s.to \in Path) /\ s.ret \in {"next", "moveHistory"}
  BY <1>3, <1>4 DEF WellFormed, UpsertPC, Request
<1>6. /\ index' = [index EXCEPT ![s.path] = s.draft]
      /\ UNCHANGED <<incoming, revisions, clock, comments, watches, inbox>>
  BY <1>3 DEF IndexDocument, satellites
<1>7. /\ index'[s.path] = s.draft /\ s.draft # None
      /\ \A p \in Path \ {s.path} : index'[p] = index[p]
  BY <1>5, <1>6, IndexTyped, NoneAssumption
<1>8. /\ Indexed' = Indexed \cup {s.path}
      /\ Indexed \subseteq Path
      /\ \A p, q : q \in Linkers(p)' <=> IF q = s.path THEN p \in s.draft.links ELSE q \in Linkers(p)
  BY <1>5, <1>7 DEF Indexed, Linkers
<1>9. Carried(n)' /\ Told(n)'
  BY <1>2, <1>4, <1>7 DEF Carried, Told, Kept, StoredPC, LinkPC, GonePC, TellPC
<1>10. Placed(n)'
  <2>1. Placed(s)
    BY <1>4 DEF Ordered
  <2>2. s.op = "move" => /\ s.path # s.from /\ index[s.from] = None /\ s.from # s.to
                         /\ s.ret = "next" => index[s.to] # None
    BY <1>4, <2>1 DEF Placed, UpsertPC, AheadPC
  <2>3. s.op = "move" => index'[s.from] = None /\ (s.ret = "next" => index'[s.to] # None)
    BY <1>5, <1>7, <2>2
  <2>4. QED
    BY <1>2, <1>4, <2>1, <2>2, <2>3 DEF Placed, Kept, UpsertPC, AheadPC
<1>11. Retargeted(n)'
  <2> SUFFICES ASSUME s.op = "move"
               PROVE  Retargeted(n)'
    BY <1>4 DEF Kept, Retargeted
  <2>1. /\ \A d \in s.todo : d.path # s.from /\ s.from \notin d.draft.links
        /\ s.ret = "next" => s.from \notin s.draft.links
        /\ \A q \in Linkers(s.from) \ {s.from, s.to} :
             (\E d \in s.todo : d.path = q) \/ s.path = q
    BY <1>4 DEF Ordered, Retargeted, UpsertPC
  <2>2. s.ret = "moveHistory" => s.path = s.to
    BY <1>4 DEF Ordered, Placed
  <2>3. \A q \in Linkers(s.from)' \ {s.from, s.to} : \E d \in s.todo : d.path = q
    BY <1>5, <1>8, <2>1, <2>2
  <2>4. QED
    BY <1>2, <1>4, <2>1, <2>3 DEF Retargeted, Kept
<1>12. Wired(n)'
  BY <1>2, <1>4, <1>6, <1>8 DEF Ordered, Wired, Rewiring, Kept, LinkPC, GonePC
<1>13. Headed(n)'
  <2>1. \A p \in Indexed' : p # s.path => Latest(p)' = {index'[p]}
    BY <1>4, <1>6, <1>7, <1>8, SameHistory DEF Ordered, Headed, StoredPC, LinkPC
  <2>2. QED
    BY <1>2, <1>4, <1>6, <2>1, SameHistory DEF Ordered, Headed, Kept, StoredPC, LinkPC
<1>14. Followed(n)'
  BY <1>2, <1>4, <1>6, <1>8 DEF Ordered, Followed, HistoryLeft, CommentsLeft, WatchesLeft, Kept, AheadPC
<1>15. QED
  BY <1>2, <1>9, <1>10, <1>11, <1>12, <1>13, <1>14 DEF HandsOver, Ordered

\* AddLinks, PullLinks and SetLinks change nothing but backlinks.
LEMMA LinksOrdered ==
  ASSUME Typed, NEW r \in Req, Ordered(req[r]), AddLinks(r) \/ PullLinks(r) \/ SetLinks(r)
  PROVE  HandsOver(r)
<1>1. PICK pc \in {"pullLinks", "readLinkers", "readLatest"} : Goto(r, pc) /\
        \/ pc = "pullLinks" /\ AddLinks(r)
        \/ pc = "readLinkers" /\ PullLinks(r)
        \/ pc = "readLatest" /\ SetLinks(r)
  BY DEF AddLinks, PullLinks, SetLinks
<1>2. PICK n \in Request : req' = [req EXCEPT ![r] = n] /\ n.pc = pc /\ Kept(n, req[r])
  BY <1>1, GotoKept DEF PC
<1>3. PICK s \in Request : s = req[r] /\ WellFormed(s)
  BY ReqIn
<1>4. Ordered(s) /\ s.pc \in {"addLinks", "pullLinks", "setLinks"} /\ Kept(n, s)
  BY <1>2, <1>3 DEF AddLinks, PullLinks, SetLinks, At
<1>5. s.path \in Path /\ index[s.path] = s.draft /\ s.path \in Indexed
  <2>1. s.path \in Path /\ s.draft \in Content
    BY <1>3, <1>4 DEF WellFormed, UpsertPC
  <2>2. index[s.path] = s.draft
    BY <1>4 DEF Ordered, Carried, StoredPC, LinkPC
  <2>3. QED BY <2>1, <2>2, NoneAssumption DEF Indexed
<1>6. UNCHANGED <<index, revisions, clock, comments, watches, inbox>>
  BY DEF AddLinks, PullLinks, SetLinks, satellites
<1>7. Carried(n)' /\ Placed(n)' /\ Retargeted(n)' /\ Told(n)'
  BY <1>1, <1>2, <1>4, <1>6, SameIndex
     DEF Ordered, Carried, Placed, Retargeted, Told, Kept, StoredPC, LinkPC, GonePC, TellPC, AheadPC, UpsertPC
<1>8. Headed(n)'
  BY <1>1, <1>2, <1>4, <1>6, SameIndex, SameHistory DEF Ordered, Headed, Kept, StoredPC, LinkPC
<1>9. Followed(n)'
  BY <1>1, <1>2, <1>4, <1>6, SameIndex
     DEF Ordered, Followed, HistoryLeft, CommentsLeft, WatchesLeft, Kept, AheadPC
<1>10. Wired(n)'
  <2>1. /\ Indexed' = Indexed /\ \A q : Linkers(q)' = Linkers(q)
        /\ incoming \in [Path -> SUBSET Path] /\ Indexed \subseteq Path
        /\ \A q : s.path \in Linkers(q) <=> q \in s.draft.links
    BY <1>5, <1>6, SameIndex, IndexTyped
  <2>2. \A q \in Indexed, x \in Path : ~Rewiring(s, q, x) => (x \in incoming[q] <=> x \in Linkers(q))
    BY <1>4 DEF Ordered, Wired
  <2>3. CASE AddLinks(r)
    <3>1. s.pc = "addLinks" /\ n.pc = "pullLinks"
      BY <1>1, <1>2, <1>3, <2>3 DEF AddLinks, PullLinks, SetLinks, At
    <3>2. \A q \in Path : incoming'[q] = IF q \in Indexed \cap s.draft.links
                                           THEN incoming[q] \cup {s.path} ELSE incoming[q]
      BY <1>3, <2>3 DEF AddLinks
    <3>3. ASSUME NEW q \in Indexed, NEW x \in Path, ~Rewiring(n, q, x)
          PROVE  x \in incoming'[q] <=> x \in Linkers(q)
      BY ZenonT(60), <1>4, <2>1, <2>2, <3>1, <3>2, <3>3 DEF Rewiring, Kept, LinkPC, GonePC
    <3>4. QED BY <2>1, <3>3 DEF Wired, Rewiring
  <2>4. CASE PullLinks(r)
    <3>1. s.pc = "pullLinks" /\ n.pc = "readLinkers"
      BY <1>1, <1>2, <1>3, <2>4 DEF AddLinks, PullLinks, SetLinks, At
    <3>2. \A q \in Path : incoming'[q] = IF q \in s.draft.links \cup {s.path}
                                           THEN incoming[q] ELSE incoming[q] \ {s.path}
      BY <1>3, <2>4 DEF PullLinks
    <3>3. ASSUME NEW q \in Indexed, NEW x \in Path, ~Rewiring(n, q, x)
          PROVE  x \in incoming'[q] <=> x \in Linkers(q)
      <4>1. q # s.path /\ q \in Path
        BY <1>4, <2>1, <3>1, <3>3 DEF Rewiring, Kept, LinkPC
      <4>2. CASE x = s.path /\ q \notin s.draft.links
        <5>1. x \notin incoming'[q]
          BY <3>2, <4>1, <4>2
        <5>2. QED BY <2>1, <4>2, <5>1
      <4>3. CASE ~(x = s.path /\ q \notin s.draft.links)
        <5>1. x \in incoming[q] <=> x \in Linkers(q)
          BY <2>2, <3>1, <4>1, <4>3 DEF Rewiring, LinkPC, GonePC
        <5>2. x \in incoming'[q] <=> x \in incoming[q]
          BY <3>2, <4>1, <4>3
        <5>3. QED BY <5>1, <5>2
      <4>4. QED BY <4>2, <4>3
    <3>4. QED BY <2>1, <3>3 DEF Wired, Rewiring
  <2>5. CASE SetLinks(r)
    <3>1. s.pc = "setLinks" /\ n.pc = "readLatest"
      BY <1>1, <1>2, <1>3, <2>5 DEF AddLinks, PullLinks, SetLinks, At
    <3>2. \A q \in Path : incoming'[q] = IF q = s.path THEN s.back ELSE incoming[q]
      BY <1>3, <1>5, <2>5 DEF SetLinks
    <3>3. s.back = Linkers(s.path)
      BY <1>4, <3>1 DEF Ordered, Carried
    <3>4. ASSUME NEW q \in Indexed, NEW x \in Path
          PROVE  x \in incoming'[q] <=> x \in Linkers(q)
      BY <2>1, <2>2, <3>1, <3>2, <3>3 DEF Rewiring, LinkPC, GonePC
    <3>5. QED BY <2>1, <3>4 DEF Wired
  <2>6. QED BY <2>3, <2>4, <2>5
<1>11. QED
  BY <1>1, <1>2, <1>7, <1>8, <1>9, <1>10 DEF HandsOver, Ordered

LEMMA LinkersOrdered ==
  ASSUME Typed, NEW r \in Req, Ordered(req[r]), ReadLinkers(r)
  PROVE  HandsOver(r)
<1>1. PICK s \in Request : s = req[r] /\ WellFormed(s)
  BY ReqIn
<1>2. PICK back : back = Linkers(s.path)
  OBVIOUS
<1>3. PICK n : n = [s EXCEPT !.pc = "setLinks", !.back = back]
  OBVIOUS
<1>4. back \subseteq Path
  BY <1>2 DEF Linkers, Indexed
<1>5. /\ n \in Request /\ n.pc = "setLinks" /\ n.back = back
      /\ n.op = s.op /\ n.by = s.by /\ n.path = s.path /\ n.draft = s.draft /\ n.ret = s.ret
      /\ n.from = s.from /\ n.to = s.to /\ n.todo = s.todo /\ n.users = s.users
  BY ZenonT(60), <1>3, <1>4 DEF Request, PC
<1>6. req' = [req EXCEPT ![r] = n]
  BY <1>1, <1>2, <1>3 DEF ReadLinkers, Typed, TypeOK
<1>7. Ordered(s) /\ s.pc = "readLinkers"
  BY <1>1 DEF ReadLinkers, At
<1>8. Ordered(n)
  <2>1. Carried(n) /\ Placed(n) /\ Retargeted(n) /\ Told(n)
    BY <1>2, <1>5, <1>7 DEF Ordered, Carried, Placed, Retargeted, Told, StoredPC, LinkPC, GonePC,
                      TellPC, AheadPC, UpsertPC
  <2>2. Wired(n) /\ Headed(n)
    BY <1>5, <1>7 DEF Ordered, Wired, Rewiring, Headed, StoredPC, LinkPC, GonePC
  <2>3. Followed(n)
    BY <1>5, <1>7 DEF Ordered, Followed, HistoryLeft, CommentsLeft, WatchesLeft, AheadPC
  <2>4. QED
    BY <2>1, <2>2, <2>3 DEF Ordered
<1>9. UNCHANGED <<index, incoming, revisions, clock, comments, watches, inbox>>
  BY DEF ReadLinkers, stores, satellites
<1>10. QED
  BY <1>5, <1>6, <1>8, <1>9, Unmoved DEF HandsOver

LEMMA LatestOrdered ==
  ASSUME Typed, NEW r \in Req, Ordered(req[r]), ReadLatest(r)
  PROVE  HandsOver(r)
<1>1. PICK s \in Request : s = req[r] /\ WellFormed(s)
  BY ReqIn
<1>2. PICK last \in Latest(s.path) : req' = [req EXCEPT ![r].pc = "snapshot", ![r].last = last]
  BY <1>1 DEF ReadLatest
<1>3. PICK n : n = [s EXCEPT !.pc = "snapshot", !.last = last]
  OBVIOUS
<1>4. last \in Content \cup {None}
  BY <1>2 DEF Latest, Newest, History, Typed, TypeOK, Revision
<1>5. /\ n \in Request /\ n.pc = "snapshot" /\ n.last = last
      /\ n.op = s.op /\ n.by = s.by /\ n.path = s.path /\ n.draft = s.draft /\ n.ret = s.ret
      /\ n.from = s.from /\ n.to = s.to /\ n.todo = s.todo /\ n.users = s.users
  BY ZenonT(60), <1>3, <1>4 DEF Request, PC
<1>6. req' = [req EXCEPT ![r] = n]
  BY <1>1, <1>2, <1>3 DEF Typed, TypeOK
<1>7. Ordered(s) /\ s.pc = "readLatest"
  BY <1>1 DEF ReadLatest, At
<1>8. Ordered(n)
  <2>1. Carried(n) /\ Placed(n) /\ Retargeted(n) /\ Told(n)
    BY <1>2, <1>5, <1>7 DEF Ordered, Carried, Placed, Retargeted, Told, StoredPC, LinkPC, GonePC,
                      TellPC, AheadPC, UpsertPC
  <2>2. Wired(n) /\ Headed(n)
    BY <1>5, <1>7 DEF Ordered, Wired, Rewiring, Headed, StoredPC, LinkPC, GonePC
  <2>3. Followed(n)
    BY <1>5, <1>7 DEF Ordered, Followed, HistoryLeft, CommentsLeft, WatchesLeft, AheadPC
  <2>4. QED
    BY <2>1, <2>2, <2>3 DEF Ordered
<1>9. UNCHANGED <<index, incoming, revisions, clock, comments, watches, inbox>>
  BY DEF ReadLatest, stores, satellites
<1>10. QED
  BY <1>5, <1>6, <1>8, <1>9, Unmoved DEF HandsOver

LEMMA SamePast ==
  ASSUME NEW p, History(p)' = History(p)
  PROVE  Latest(p)' = Latest(p)
<1>1. Newest(p)' = Newest(p)
  BY DEF Newest
<1>2. QED
  BY <1>1 DEF Latest

\* Two newest revisions of a path are one.
LEMMA OneNewest ==
  ASSUME Typed, NEW s, Headed(s), NEW p, NEW x \in Latest(p), NEW y \in Latest(p)
  PROVE  x = y
<1>1. CASE History(p) = {}
  BY <1>1 DEF Latest
<1>2. CASE History(p) # {}
  <2>1. PICK v \in Newest(p) : v.content = x
    BY <1>2 DEF Latest
  <2>2. PICK w \in Newest(p) : w.content = y
    BY <1>2 DEF Latest
  <2>3. v \in revisions /\ w \in revisions /\ v.path = w.path /\ v.at \in Nat /\ w.at \in Nat
    BY DEF Newest, History, Typed, TypeOK, Revision
  <2>4. v.at <= w.at /\ w.at <= v.at
    BY DEF Newest
  <2>5. v.at = w.at
    BY <2>3, <2>4
  <2>6. QED
    BY <2>1, <2>2, <2>3, <2>5 DEF Headed
<1>3. QED BY <1>1, <1>2

\* What Snapshot leaves: the latest revision of the path is its content.
LEMMA SnapshotHead ==
  ASSUME Typed, NEW s \in Request, WellFormed(s), Ordered(s), s.pc = "snapshot", UNCHANGED index,
         \/ s.last = s.draft /\ UNCHANGED <<revisions, clock>>
         \/ /\ revisions' = revisions \cup {[path |-> s.path, content |-> s.draft, at |-> clock]}
            /\ clock' = clock + 1
  PROVE  /\ s.path \in Path /\ s.draft \in Content /\ index[s.path] = s.draft /\ s.path \in Indexed
         /\ \A v \in revisions' : v.at < clock'
         /\ \A v, w \in revisions' : v.path = w.path /\ v.at = w.at => v = w
         /\ \A p \in Indexed : Latest(p)' = {index[p]}
         /\ \A p : p # s.path => History(p)' = History(p)
         /\ \A v \in revisions' : v \in revisions \/ v.path = s.path
<1>1. s.path \in Path /\ s.draft \in Content /\ index[s.path] = s.draft /\ s.path \in Indexed
  <2>1. s.path \in Path /\ s.draft \in Content
    BY DEF WellFormed, UpsertPC
  <2>2. index[s.path] = s.draft
    BY DEF Ordered, Carried, StoredPC
  <2>3. QED BY <2>1, <2>2, NoneAssumption DEF Indexed
<1>2. /\ \A v \in revisions : v.at < clock
      /\ \A v, w \in revisions : v.path = w.path /\ v.at = w.at => v = w
      /\ \A p \in Indexed : p # s.path => Latest(p) = {index[p]}
      /\ Headed(s) /\ s.last \in Latest(s.path)
  BY DEF Ordered, Headed, Carried
<1>3. clock \in Nat /\ \A v \in revisions : v.at \in Nat
  BY DEF Typed, TypeOK, Revision
<1>4. CASE s.last = s.draft /\ UNCHANGED <<revisions, clock>>
  <2>1. Latest(s.path) = {s.draft}
    BY <1>2, <1>4, OneNewest
  <2>2. QED
    BY <1>1, <1>2, <1>4, <2>1, SameHistory
<1>5. CASE /\ revisions' = revisions \cup {[path |-> s.path, content |-> s.draft, at |-> clock]}
           /\ clock' = clock + 1
  <2>1. PICK v0 : v0 = [path |-> s.path, content |-> s.draft, at |-> clock]
    OBVIOUS
  <2>2. v0.path = s.path /\ v0.content = s.draft /\ v0.at = clock /\ revisions' = revisions \cup {v0}
    BY <1>5, <2>1
  <2>3. (\A v \in revisions' : v.at < clock')
    BY <1>2, <1>3, <1>5, <2>2
  <2>4. \A v, w \in revisions' : v.path = w.path /\ v.at = w.at => v = w
    BY <1>2, <1>3, <2>2
  <2>5. \A p : p # s.path => History(p)' = History(p)
    BY <2>2 DEF History
  <2>6. \A p : p # s.path => Latest(p)' = Latest(p)
    BY <2>5, SamePast
  <2>7. History(s.path)' = History(s.path) \cup {v0}
    BY <2>2 DEF History
  <2>8. Newest(s.path)' = {v0}
    <3>1. \A w \in History(s.path) : w.at < v0.at /\ w.at \in Nat
      BY <1>2, <1>3, <2>2 DEF History
    <3>2. v0.at \in Nat
      BY <1>3, <2>2
    <3>3. QED
      BY <2>7, <3>1, <3>2 DEF Newest
  <2>9. Latest(s.path)' = {s.draft}
    BY <2>2, <2>7, <2>8 DEF Latest
  <2>10. QED
    BY <1>1, <1>2, <2>2, <2>3, <2>4, <2>5, <2>6, <2>9
<1>6. QED BY <1>4, <1>5

LEMMA SnapshotOrdered ==
  ASSUME Typed, NEW r \in Req, Ordered(req[r]), Snapshot(r)
  PROVE  HandsOver(r)
<1>1. PICK s \in Request : s = req[r] /\ WellFormed(s)
  BY ReqIn
<1>2. Ordered(s) /\ s.pc = "snapshot"
  BY <1>1 DEF Snapshot, At
<1>3. UNCHANGED <<index, incoming, comments, watches, inbox>>
  BY DEF Snapshot, stores
<1>4. \/ s.last = s.draft /\ UNCHANGED <<revisions, clock>>
      \/ /\ s.last # s.draft
         /\ revisions' = revisions \cup {[path |-> s.path, content |-> s.draft, at |-> clock]}
         /\ clock' = clock + 1
  BY <1>1 DEF Snapshot, Changed
<1>5. /\ s.path \in Path /\ s.draft \in Content /\ index[s.path] = s.draft /\ s.path \in Indexed
      /\ \A v \in revisions' : v.at < clock'
      /\ \A v, w \in revisions' : v.path = w.path /\ v.at = w.at => v = w
      /\ \A p \in Indexed : Latest(p)' = {index[p]}
      /\ \A p : p # s.path => History(p)' = History(p)
      /\ \A v \in revisions' : v \in revisions \/ v.path = s.path
  BY <1>1, <1>2, <1>3, <1>4, SnapshotHead
<1>6. s.ret = "moveHistory" => /\ s.op = "move" /\ s.path = s.to /\ s.from # s.to
                               /\ History(s.to) = {} /\ s.last = None
  <2>1. s.ret = "moveHistory" => s.op = "move"
    BY <1>1 DEF WellFormed
  <2>2. s.ret = "moveHistory" => s.path = s.to /\ (s.op = "move" => s.from # s.to)
    BY <1>2 DEF Ordered, Placed
  <2>3. s.ret = "moveHistory" => History(s.to) = {}
    BY <1>2 DEF Ordered, Headed
  <2>4. s.last \in Latest(s.path)
    BY <1>2 DEF Ordered, Carried
  <2>5. QED
    BY <2>1, <2>2, <2>3, <2>4 DEF Latest
<1>7. /\ Indexed' = Indexed /\ \A p : Linkers(p)' = Linkers(p)
  BY <1>3, SameIndex
<1>8. ASSUME NEW m \in Request, Kept(m, s), m.pc = "notifyChanged", s.ret = "next"
      PROVE  Ordered(m)'
  <2>1. Carried(m)' /\ Placed(m)' /\ Retargeted(m)' /\ Told(m)'
    BY <1>2, <1>3, <1>7, <1>8
       DEF Ordered, Carried, Placed, Retargeted, Told, Kept, StoredPC, LinkPC, GonePC, TellPC, AheadPC, UpsertPC
  <2>2. Wired(m)'
    BY <1>2, <1>3, <1>7, <1>8 DEF Ordered, Wired, Rewiring, LinkPC, GonePC
  <2>3. Headed(m)'
    BY <1>3, <1>5, <1>7, <1>8 DEF Headed, Kept
  <2>4. Followed(m)'
    BY <1>2, <1>3, <1>5, <1>7, <1>8 DEF Ordered, Followed, HistoryLeft, CommentsLeft, WatchesLeft, Kept, AheadPC
  <2>5. QED
    BY <2>1, <2>2, <2>3, <2>4 DEF Ordered
<1>9. CASE s.last # None /\ Goto(r, "notifyChanged")
  <2>1. "notifyChanged" \in PC
    BY DEF PC
  <2>2. PICK n \in Request : req' = [req EXCEPT ![r] = n] /\ n.pc = "notifyChanged" /\ Kept(n, s)
    BY <1>1, <1>9, <2>1, GotoKept
  <2>3. s.ret = "next"
    BY <1>6, <1>9 DEF Request
  <2>4. QED
    BY <1>8, <2>2, <2>3 DEF HandsOver
<1>10. CASE Resolve(r) /\ s.ret = "next"
  <2>1. PICK n \in NextUpsert(s) : req' = [req EXCEPT ![r] = n]
    BY <1>1, <1>10 DEF Resolve
  <2>2. PICK m : m = [s EXCEPT !.pc = "notifyChanged"]
    OBVIOUS
  <2>3. m \in Request /\ m.pc = "notifyChanged" /\ Kept(m, s)
    BY <2>2, PcOnly DEF Kept, PC
  <2>4. Ordered(m)'
    BY <1>8, <1>10, <2>3
  <2>5. \A k \in comments' : k[2] \in Indexed'
    BY <1>2, <1>3, <1>7, <1>10 DEF Ordered, Followed, CommentsLeft, HistoryLeft
  <2>6. m.ret = "next"
    BY <1>10, <2>3 DEF Kept
  <2>7. QED
    BY <1>1, <1>2, <2>1, <2>3, <2>4, <2>5, <2>6, NextOrdered DEF HandsOver
<1>11. CASE Resolve(r) /\ s.ret = "moveHistory"
  <2>1. PICK n : n = [s EXCEPT !.pc = "moveHistory", !.ret = "next", !.back = {}, !.last = None]
    OBVIOUS
  <2>2. req' = [req EXCEPT ![r] = n]
    BY <1>1, <1>11, <2>1 DEF Resolve
  <2>3. /\ n \in Request /\ n.pc = "moveHistory" /\ n.ret = "next"
        /\ n.op = s.op /\ n.by = s.by /\ n.path = s.path /\ n.draft = s.draft
        /\ n.from = s.from /\ n.to = s.to /\ n.todo = s.todo /\ n.users = s.users
    BY ZenonT(60), <2>1 DEF Request, PC
  <2>4. /\ s.op = "move" /\ s.path = s.to /\ s.from # s.to /\ History(s.to) = {}
        /\ revisions' = revisions \cup {[path |-> s.path, content |-> s.draft, at |-> clock]}
    BY <1>4, <1>5, <1>6, <1>11, NoneAssumption
  <2>5. Carried(n)' /\ Retargeted(n)' /\ Told(n)'
    BY <1>2, <1>3, <1>7, <2>3
       DEF Ordered, Carried, Retargeted, Told, StoredPC, LinkPC, GonePC, TellPC, UpsertPC
  <2>6. Placed(n)'
    <3>1. index[s.from] = None /\ index[s.to] # None
      BY <1>2, <1>5, <2>4, NoneAssumption DEF Ordered, Placed, AheadPC
    <3>2. QED
      BY <1>3, <2>3, <2>4, <3>1 DEF Placed, AheadPC, UpsertPC
  <2>7. Wired(n)'
    BY <1>2, <1>3, <1>7, <2>3 DEF Ordered, Wired, Rewiring, LinkPC, GonePC
  <2>8. Headed(n)'
    <3>1. \A v \in History(s.from)' : v.at < clock
      BY <1>2, <1>5, <2>4 DEF Ordered, Headed, History
    <3>2. \A w \in History(s.to)' : w.at = clock
      BY <2>4 DEF History
    <3>3. QED
      BY <1>3, <1>5, <1>7, <2>3, <3>1, <3>2 DEF Headed
  <2>9. Followed(n)'
    BY <1>2, <1>3, <1>5, <1>7, <2>3, <2>4 DEF Ordered, Followed, HistoryLeft, CommentsLeft, WatchesLeft, AheadPC
  <2>10. QED
    BY <2>2, <2>3, <2>5, <2>6, <2>7, <2>8, <2>9 DEF HandsOver, Ordered
<1>12. QED
  <2>1. s.ret \in {"next", "moveHistory"}
    BY DEF Request
  <2>2. Resolve(r) \/ (s.last # None /\ Goto(r, "notifyChanged"))
    BY <1>1 DEF Snapshot
  <2>3. QED
    BY <1>9, <1>10, <1>11, <2>1, <2>2

LEMMA ChangedOrdered ==
  ASSUME Typed, NEW r \in Req, Ordered(req[r]), NotifyChanged(r)
  PROVE  HandsOver(r)
<1>1. PICK s \in Request : s = req[r] /\ WellFormed(s)
  BY ReqIn
<1>2. Ordered(s) /\ s.pc = "notifyChanged"
  BY <1>1 DEF NotifyChanged, At
<1>3. s.ret = "next"
  BY <1>2 DEF Ordered, Headed, Request
<1>4. UNCHANGED <<index, incoming, revisions, clock, comments, watches>> /\ inbox \subseteq inbox'
  BY DEF NotifyChanged, stores
<1>5. Ordered(s)'
  BY <1>2, <1>4, BesideOrdered
<1>6. \A k \in comments' : k[2] \in Indexed'
  BY <1>2, <1>3, <1>4, SameIndex DEF Ordered, Followed, CommentsLeft, HistoryLeft
<1>7. PICK n \in NextUpsert(s) : req' = [req EXCEPT ![r] = n]
  BY <1>1, <1>3 DEF NotifyChanged, Resolve
<1>8. QED
  BY <1>1, <1>2, <1>3, <1>5, <1>6, <1>7, KeptSelf, NextOrdered DEF HandsOver

LEMMA PathsOrdered ==
  ASSUME Typed, NEW r \in Req, Ordered(req[r]), ReadPaths(r)
  PROVE  HandsOver(r)
<1>1. PICK s \in Request : s = req[r] /\ WellFormed(s)
  BY ReqIn
<1>2. Ordered(s) /\ s.pc = "readPaths" /\ s.draft \in Content /\ s.to \in Path
  BY <1>1 DEF ReadPaths, At, WellFormed
<1>3. s.ret = "next" /\ s.op # "move"
  BY <1>2 DEF Ordered, Placed, UpsertPC, Request
<1>4. UNCHANGED <<index, incoming, revisions, clock, comments, watches, inbox>>
  BY DEF ReadPaths, stores, satellites
<1>5. Ordered(s)'
  BY <1>2, <1>4, Unmoved
<1>6. \A w \in watches' : w[2] \in Indexed'
  BY <1>2, <1>3, <1>4, SameIndex DEF Ordered, Followed, WatchesLeft
<1>7. Ordered(Idle)'
  BY <1>2, <1>3, <1>5, <1>6, RestOrdered DEF StoredPC, LinkPC, GonePC
<1>8. CASE Finish(r)
  BY <1>7, <1>8, IdleFields DEF HandsOver, Finish
<1>9. CASE ~Finish(r)
  <2>1. PICK c : c = Redirect(s.draft, s.to, Suggest(s.to, Indexed \ {s.path}))
    OBVIOUS
  <2>2. /\ Namesakes(s.to, Indexed \ {s.path}) # {}
        /\ req' = [req EXCEPT ![r].pc = "write", ![r].draft = c]
    BY <1>1, <1>9, <2>1 DEF ReadPaths
  <2>3. Suggest(s.to, Indexed \ {s.path}) \in Path
    BY <2>2, IndexTyped DEF Namesakes, Suggest
  <2>4. c \in Content
    BY <1>2, <2>1, <2>3 DEF Redirect, Content
  <2>5. PICK n : n = [s EXCEPT !.pc = "write", !.draft = c]
    OBVIOUS
  <2>6. /\ n \in Request /\ n.pc = "write" /\ n.ret = "next" /\ n.op # "move"
    BY ZenonT(60), <1>3, <2>4, <2>5 DEF Request, PC
  <2>7. req' = [req EXCEPT ![r] = n]
    BY <1>1, <2>2, <2>5 DEF Typed, TypeOK
  <2>8. Ordered(n)'
    BY <1>7, <2>6, FreshOrdered
  <2>9. QED
    BY <2>6, <2>7, <2>8 DEF HandsOver
<1>10. QED BY <1>8, <1>9

LEMMA DeletedOrdered ==
  ASSUME Typed, NEW r \in Req, Ordered(req[r]), NotifyDeleted(r)
  PROVE  HandsOver(r)
<1>1. "removeFile" \in PC
  BY DEF PC
<1>2. PICK n \in Request : req' = [req EXCEPT ![r] = n] /\ n.pc = "removeFile" /\ Kept(n, req[r])
  BY <1>1, GotoKept DEF NotifyDeleted
<1>3. PICK s \in Request : s = req[r] /\ WellFormed(s)
  BY ReqIn
<1>4. Ordered(s) /\ s.pc = "notifyDeleted" /\ Kept(n, s) /\ s.op = "delete"
  BY <1>2, <1>3 DEF NotifyDeleted, At, WellFormed, DeletePC
<1>5. UNCHANGED <<index, incoming, revisions, clock, comments, watches>> /\ inbox \subseteq inbox'
  BY DEF NotifyDeleted, stores
<1>6. Ordered(s)'
  BY <1>4, <1>5, BesideOrdered
<1>7. Told(n)'
  <2>1. ASSUME NEW w \in watches, w[2] = s.from, w[1] # s.by, <<w[1], "deleted">> \notin Mutes
        PROVE  [user |-> w[1], path |-> w[2], kind |-> "deleted"] \in inbox'
    <3>1. w[1] \in User /\ w = <<w[1], w[2]>>
      BY DEF Typed, TypeOK
    <3>2. PICK u \in User : u = w[1] /\ <<u, s.from>> \in watches
      BY <2>1, <3>1
    <3>3. [user |-> u, path |-> s.from, kind |-> "deleted"] \in Notices(s.from, "deleted", s.by)
      BY <2>1, <3>2 DEF Notices
    <3>4. inbox' = inbox \cup Notices(s.from, "deleted", s.by)
      BY <1>3 DEF NotifyDeleted
    <3>5. QED
      BY <2>1, <3>2, <3>3, <3>4
  <2>2. QED
    BY <1>4, <1>5, <2>1 DEF Told, Kept
<1>8. Carried(n)' /\ Placed(n)' /\ Retargeted(n)'
  BY <1>2, <1>4, <1>6 DEF Ordered, Carried, Placed, Retargeted, Kept, StoredPC, LinkPC, GonePC,
                          AheadPC, UpsertPC
<1>9. Wired(n)' /\ Headed(n)'
  BY <1>2, <1>4, <1>6 DEF Ordered, Wired, Rewiring, Headed, Kept, StoredPC, LinkPC, GonePC
<1>10. Followed(n)'
  BY <1>2, <1>4, <1>6 DEF Ordered, Followed, HistoryLeft, CommentsLeft, WatchesLeft, Kept, AheadPC
<1>11. QED
  BY <1>2, <1>7, <1>8, <1>9, <1>10 DEF HandsOver, Ordered

LEMMA FileOrdered ==
  ASSUME Typed, NEW r \in Req, Ordered(req[r]), RemoveFile(r)
  PROVE  HandsOver(r)
<1>1. "removeDoc" \in PC
  BY DEF PC
<1>2. PICK n \in Request : req' = [req EXCEPT ![r] = n] /\ n.pc = "removeDoc" /\ Kept(n, req[r])
  BY <1>1, GotoKept DEF RemoveFile
<1>3. PICK s : s = req[r]
  OBVIOUS
<1>4. Ordered(s) /\ s.pc = "removeFile" /\ Kept(n, s)
  BY <1>2, <1>3 DEF RemoveFile, At
<1>5. UNCHANGED <<index, incoming, revisions, clock, comments, watches, inbox>>
  BY DEF RemoveFile, satellites
<1>6. Ordered(n)
  <2>1. Carried(n) /\ Placed(n) /\ Retargeted(n) /\ Told(n)
    BY <1>2, <1>4 DEF Ordered, Carried, Placed, Retargeted, Told, Kept, StoredPC, LinkPC, GonePC,
                      TellPC, AheadPC, UpsertPC
  <2>2. Wired(n) /\ Headed(n)
    BY <1>2, <1>4 DEF Ordered, Wired, Rewiring, Headed, Kept, StoredPC, LinkPC, GonePC
  <2>3. Followed(n)
    BY <1>2, <1>4 DEF Ordered, Followed, HistoryLeft, CommentsLeft, WatchesLeft, Kept, AheadPC
  <2>4. QED
    BY <2>1, <2>2, <2>3 DEF Ordered
<1>7. QED
  BY <1>2, <1>5, <1>6, Unmoved DEF HandsOver

\* A document that goes away takes its links along; what others link to it
\* stays where it was.
LEMMA DocOrdered ==
  ASSUME Typed, NEW r \in Req, Ordered(req[r]), RemoveDoc(r)
  PROVE  HandsOver(r)
<1>1. PICK s \in Request : s = req[r] /\ WellFormed(s)
  BY ReqIn
<1>2. Ordered(s) /\ s.pc = "removeDoc" /\ s.op \in {"delete", "move"} /\ s.from \in Path
  BY <1>1 DEF RemoveDoc, At, WellFormed, RemovePC
<1>3. PICK pc \in {"dropHistory", "unlink"} : /\ pc = IF s.op = "delete" THEN "dropHistory" ELSE "unlink"
                                              /\ Goto(r, pc)
  BY <1>1 DEF RemoveDoc
<1>4. PICK n \in Request : req' = [req EXCEPT ![r] = n] /\ n.pc = pc /\ Kept(n, s)
  BY <1>1, <1>3, GotoKept DEF PC
<1>5. /\ index' = [index EXCEPT ![s.from] = None]
      /\ incoming' = [incoming EXCEPT ![s.from] = {}]
      /\ UNCHANGED <<revisions, clock, comments, watches, inbox>>
  BY <1>1 DEF RemoveDoc, satellites
<1>6. /\ index'[s.from] = None
      /\ \A p \in Path \ {s.from} : index'[p] = index[p] /\ incoming'[p] = incoming[p]
  BY <1>2, <1>5, IndexTyped
<1>7. /\ Indexed' = Indexed \ {s.from}
      /\ Indexed \subseteq Path
      /\ \A p, q : q \in Linkers(p)' <=> q # s.from /\ q \in Linkers(p)
  BY <1>2, <1>6 DEF Indexed, Linkers
<1>8. s.ret = "next"
  BY <1>2 DEF Ordered, Placed, UpsertPC, Request
<1>9. Carried(n)' /\ Told(n)'
  BY <1>2, <1>3, <1>4, <1>5, <1>6 DEF Ordered, Carried, Told, Kept, StoredPC, LinkPC, GonePC, TellPC
<1>10. Placed(n)'
  <2>1. s.op = "move" => s.from # s.to /\ index'[s.to] = None
    <3>1. s.op = "move" => s.from # s.to /\ index[s.to] = None /\ s.to \in Path
      BY <1>1, <1>2 DEF Ordered, Placed, WellFormed
    <3>2. QED BY <1>6, <3>1
  <2>2. QED
    BY <1>3, <1>4, <1>6, <1>8, <2>1 DEF Placed, Kept, UpsertPC, AheadPC
<1>11. Retargeted(n)'
  BY <1>2, <1>3, <1>4, <1>7 DEF Ordered, Retargeted, Kept, UpsertPC
<1>12. Wired(n)'
  <2>1. \A q \in Indexed, x \in Path : x \in incoming[q] <=> x \in Linkers(q)
    BY <1>2 DEF Ordered, Wired, Rewiring, LinkPC, GonePC
  <2>2. \A q \in Indexed' : q \in Indexed /\ incoming'[q] = incoming[q]
    BY <1>6, <1>7
  <2>3. QED
    BY <1>3, <1>4, <1>7, <2>1, <2>2 DEF Wired, Rewiring, Kept, GonePC
<1>13. Headed(n)'
  <2>1. \A p \in Indexed' : Latest(p)' = {index'[p]}
    BY <1>2, <1>5, <1>6, <1>7, SameHistory DEF Ordered, Headed, StoredPC, LinkPC
  <2>2. QED
    BY <1>2, <1>3, <1>4, <1>5, <1>8, <2>1 DEF Ordered, Headed, Kept
<1>14. Followed(n)'
  BY <1>2, <1>3, <1>4, <1>5, <1>7, <1>8
     DEF Ordered, Followed, HistoryLeft, CommentsLeft, WatchesLeft, Kept, AheadPC
<1>15. QED
  BY <1>3, <1>4, <1>9, <1>10, <1>11, <1>12, <1>13, <1>14 DEF HandsOver, Ordered

LEMMA DropHistoryOrdered ==
  ASSUME Typed, NEW r \in Req, Ordered(req[r]), DropHistory(r)
  PROVE  HandsOver(r)
<1>1. "dropComments" \in PC
  BY DEF PC
<1>2. PICK n \in Request : req' = [req EXCEPT ![r] = n] /\ n.pc = "dropComments" /\ Kept(n, req[r])
  BY <1>1, GotoKept DEF DropHistory
<1>3. PICK s \in Request : s = req[r] /\ WellFormed(s)
  BY ReqIn
<1>4. /\ Ordered(s) /\ s.pc = "dropHistory" /\ Kept(n, s) /\ s.op = "delete"
      /\ revisions' = revisions \ History(s.from)
  BY <1>2, <1>3 DEF DropHistory, At, WellFormed, DeletePC
<1>5. UNCHANGED <<index, incoming, clock, comments, watches, inbox>>
  BY DEF DropHistory, stores
<1>6. index[s.from] = None /\ s.ret = "next"
  BY <1>4 DEF Ordered, Carried, Placed, GonePC, UpsertPC, Request
<1>7. Carried(n)' /\ Placed(n)' /\ Retargeted(n)' /\ Told(n)'
  BY <1>2, <1>4, <1>5 DEF Ordered, Carried, Placed, Retargeted, Told, Kept, StoredPC, LinkPC, GonePC,
                          TellPC, AheadPC, UpsertPC
<1>8. Wired(n)'
  BY <1>2, <1>4, <1>5, SameIndex DEF Ordered, Wired, Rewiring, Kept, LinkPC, GonePC
<1>9. Headed(n)'
  <2>1. ASSUME NEW p, p # s.from
        PROVE  Latest(p)' = Latest(p)
    <3>1. History(p)' = History(p)
      BY <1>4, <2>1 DEF History
    <3>2. QED BY <3>1, SamePast
  <2>2. /\ \A v \in revisions : v.at < clock
        /\ \A v, w \in revisions : v.path = w.path /\ v.at = w.at => v = w
        /\ \A p \in Indexed : Latest(p) = {index[p]}
    BY <1>4 DEF Ordered, Headed, StoredPC, LinkPC
  <2>3. s.from \notin Indexed /\ Indexed' = Indexed
    BY <1>5, <1>6, SameIndex DEF Indexed
  <2>4. QED
    BY <1>2, <1>4, <1>5, <1>6, <2>1, <2>2, <2>3 DEF Headed, Kept
<1>10. Followed(n)'
  BY <1>2, <1>4, <1>5, SameIndex DEF Ordered, Followed, History, HistoryLeft, CommentsLeft, WatchesLeft, Kept
<1>11. QED
  BY <1>2, <1>7, <1>8, <1>9, <1>10 DEF HandsOver, Ordered

\* DropComments and DropWatches take the followers of one path.
LEMMA DropFollowersOrdered ==
  ASSUME Typed, NEW r \in Req, Ordered(req[r]), DropComments(r) \/ DropWatches(r)
  PROVE  HandsOver(r)
<1>1. PICK pc \in {"dropWatches", "unlink"} : Goto(r, pc) /\
        \/ pc = "dropWatches" /\ DropComments(r)
        \/ pc = "unlink" /\ DropWatches(r)
  BY DEF DropComments, DropWatches
<1>2. PICK n \in Request : req' = [req EXCEPT ![r] = n] /\ n.pc = pc /\ Kept(n, req[r])
  BY <1>1, GotoKept DEF PC
<1>3. PICK s \in Request : s = req[r] /\ WellFormed(s)
  BY ReqIn
<1>4. /\ Ordered(s) /\ Kept(n, s)
      /\ \/ s.pc = "dropComments" /\ n.pc = "dropWatches"
         \/ s.pc = "dropWatches" /\ n.pc = "unlink"
  BY <1>1, <1>2, <1>3 DEF DropComments, DropWatches, At
<1>5. s.op = "delete"
  BY <1>3, <1>4 DEF WellFormed, DeletePC
<1>6. UNCHANGED <<index, incoming, revisions, clock, inbox>>
  BY DEF DropComments, DropWatches, stores
<1>7. \/ s.pc = "dropComments" /\ comments' = {c \in comments : c[2] # s.from} /\ watches' = watches
      \/ s.pc = "dropWatches" /\ comments' = comments /\ watches' = {w \in watches : w[2] # s.from}
  BY <1>3 DEF DropComments, DropWatches, At
<1>8. Carried(n)' /\ Placed(n)' /\ Retargeted(n)'
  BY <1>4, <1>5, <1>6 DEF Ordered, Carried, Placed, Retargeted, Kept, StoredPC, LinkPC, GonePC, UpsertPC
<1>9. Told(n)'
  BY <1>4, <1>6, <1>7 DEF Ordered, Told, Kept, TellPC
<1>10. Wired(n)' /\ Headed(n)'
  BY <1>4, <1>6, SameIndex, SameHistory DEF Ordered, Wired, Rewiring, Headed, Kept, StoredPC, LinkPC, GonePC
<1>11. Followed(n)'
  BY <1>4, <1>5, <1>6, <1>7, SameIndex DEF Ordered, Followed, HistoryLeft, CommentsLeft, WatchesLeft, Kept
<1>12. QED
  BY <1>1, <1>2, <1>8, <1>9, <1>10, <1>11 DEF HandsOver, Ordered

\* Nothing links back to a document that is gone; a delete ends here, a move
\* finds no history at its target.
LEMMA UnlinkOrdered ==
  ASSUME Typed, NEW r \in Req, Ordered(req[r]), Unlink(r)
  PROVE  HandsOver(r)
<1>1. PICK s \in Request : s = req[r] /\ WellFormed(s)
  BY ReqIn
<1>2. /\ Ordered(s) /\ s.pc = "unlink" /\ s.from \in Path
      /\ s.op = "move" => s.to \in Path
  BY <1>1 DEF Unlink, At, WellFormed, RemovePC
<1>3. index[s.from] = None /\ s.ret = "next"
  BY <1>2 DEF Ordered, Carried, Placed, GonePC, UpsertPC, Request
<1>4. UNCHANGED <<index, revisions, clock, comments, watches, inbox>>
  BY DEF Unlink, satellites
<1>5. /\ Indexed' = Indexed /\ \A p : Linkers(p)' = Linkers(p)
      /\ Indexed \subseteq Path /\ s.from \notin Indexed
  BY <1>2, <1>3, <1>4, SameIndex, IndexTyped
<1>6. \A q \in Indexed', x \in Path : x \in incoming'[q] <=> x \in Linkers(q)'
  <2>1. \A q \in Path : incoming'[q] = incoming[q] \ {s.from}
    BY <1>1 DEF Unlink
  <2>2. \A q \in Indexed, x \in Path : x # s.from => (x \in incoming[q] <=> x \in Linkers(q))
    BY <1>2 DEF Ordered, Wired, Rewiring, LinkPC
  <2>3. \A q : s.from \notin Linkers(q)
    BY <1>5 DEF Linkers
  <2>4. QED
    BY <1>5, <2>1, <2>2, <2>3
<1>7. CASE s.op = "delete" /\ Finish(r)
  <2>1. Carried(Idle)' /\ Placed(Idle)' /\ Retargeted(Idle)' /\ Told(Idle)'
    BY IdleFields DEF Carried, Placed, Retargeted, Told, StoredPC, LinkPC, GonePC, TellPC
  <2>2. Wired(Idle)'
    BY <1>6 DEF Wired
  <2>3. Headed(Idle)'
    BY <1>2, <1>4, SameIndex, SameHistory, IdleFields DEF Ordered, Headed, StoredPC, LinkPC
  <2>4. Followed(Idle)'
    BY <1>2, <1>3, <1>4, <1>5, <1>7, IdleFields DEF Ordered, Followed, HistoryLeft, CommentsLeft, WatchesLeft
  <2>5. QED
    BY <1>7, <2>1, <2>2, <2>3, <2>4, IdleFields DEF HandsOver, Ordered, Finish
<1>8. CASE s.op = "move" /\ ~Finish(r)
  <2>1. PICK n : n = [s EXCEPT !.pc = "write", !.path = s.to, !.ret = "moveHistory"]
    OBVIOUS
  <2>2. /\ n \in Request /\ n.pc = "write" /\ n.ret = "moveHistory" /\ n.path = s.to
        /\ n.op = s.op /\ n.from = s.from /\ n.to = s.to /\ n.todo = s.todo
    BY ZenonT(60), <1>2, <1>8, <2>1 DEF Request, PC
  <2>3. req' = [req EXCEPT ![r] = n]
    BY <1>1, <1>8, <2>1 DEF Unlink, Typed, TypeOK
  <2>4. s.from # s.to /\ index[s.to] = None
    BY <1>2, <1>8 DEF Ordered, Placed
  <2>5. Carried(n)' /\ Told(n)'
    BY <1>8, <2>2 DEF Carried, Told, StoredPC, LinkPC, GonePC
  <2>6. Placed(n)' /\ Retargeted(n)'
    BY <1>2, <1>3, <1>4, <1>5, <1>8, <2>2, <2>4 DEF Ordered, Placed, Retargeted, UpsertPC, AheadPC
  <2>7. Wired(n)'
    BY <1>6 DEF Wired
  <2>8. History(s.to) = {}
    <3>1. s.to \notin Indexed
      BY <2>4 DEF Indexed
    <3>2. \A v \in revisions : v.path \in Indexed \/ v.path = s.from
      BY <1>2 DEF Ordered, Followed
    <3>3. QED
      BY <2>4, <3>1, <3>2 DEF History
  <2>9. Headed(n)'
    BY <1>2, <1>4, <2>2, <2>8, SameIndex, SameHistory DEF Ordered, Headed, StoredPC, LinkPC
  <2>10. Followed(n)'
    BY <1>2, <1>4, <1>5, <1>8, <2>2 DEF Ordered, Followed, HistoryLeft, CommentsLeft, WatchesLeft, AheadPC
  <2>11. QED
    BY <2>2, <2>3, <2>5, <2>6, <2>7, <2>9, <2>10 DEF HandsOver, Ordered
<1>9. QED
  <2>1. \/ s.op = "delete" /\ Finish(r)
        \/ /\ s.op = "move"
           /\ req' = [req EXCEPT ![r].pc = "write", ![r].path = s.to, ![r].ret = "moveHistory"]
    BY <1>1 DEF Unlink
  <2>2. req' = [req EXCEPT ![r].pc = "write", ![r].path = s.to, ![r].ret = "moveHistory"] => ~Finish(r)
    BY IdleFields DEF Typed, TypeOK, Finish, Request
  <2>3. QED
    BY <1>7, <1>8, <2>1, <2>2

LEMMA ClashOrdered ==
  ASSUME Typed, NEW r \in Req, Ordered(req[r]), Clash(r)
  PROVE  HandsOver(r)
<1>1. PICK s \in Request : s = req[r] /\ WellFormed(s)
  BY ReqIn
<1>2. Ordered(s) /\ s.pc = "clash" /\ s.op = "move" /\ s.to \in Path
  BY <1>1 DEF Clash, At, WellFormed, MovePC
<1>3. s.ret = "next"
  BY <1>2 DEF Ordered, Placed, UpsertPC, Request
<1>4. UNCHANGED <<index, incoming, revisions, clock, comments, watches, inbox>>
  BY DEF Clash, stores, satellites
<1>5. CASE s.to \in Indexed
  <2>1. Ordered(s)'
    BY <1>2, <1>4, Unmoved
  <2>2. \A w \in watches' : w[2] \in Indexed'
    BY <1>2, <1>3, <1>4, SameIndex DEF Ordered, Followed, WatchesLeft, AheadPC
  <2>3. Ordered(Idle)'
    BY <1>2, <1>3, <2>1, <2>2, RestOrdered DEF StoredPC, LinkPC, GonePC
  <2>4. QED
    BY <1>1, <1>5, <2>3, IdleFields DEF HandsOver, Clash, Finish
<1>6. CASE s.to \notin Indexed
  <2>1. "readInbound" \in PC /\ Goto(r, "readInbound")
    BY <1>1, <1>6 DEF PC, Clash
  <2>2. PICK n \in Request : req' = [req EXCEPT ![r] = n] /\ n.pc = "readInbound" /\ Kept(n, s)
    BY <1>1, <2>1, GotoKept
  <2>3. index[s.to] = None
    BY <1>2, <1>6, IndexTyped
  <2>4. Carried(n) /\ Placed(n) /\ Retargeted(n) /\ Told(n)
    BY <1>2, <1>3, <2>2, <2>3 DEF Ordered, Carried, Placed, Retargeted, Told, Kept, StoredPC, LinkPC, GonePC,
                      TellPC, AheadPC, UpsertPC
  <2>5. Wired(n) /\ Headed(n)
    BY <1>2, <2>2 DEF Ordered, Wired, Rewiring, Headed, Kept, StoredPC, LinkPC, GonePC
  <2>6. Followed(n)
    BY <1>2, <2>2 DEF Ordered, Followed, HistoryLeft, CommentsLeft, WatchesLeft, Kept, AheadPC
  <2>7. Ordered(n)'
    BY <1>4, <2>4, <2>5, <2>6, Unmoved DEF Ordered
  <2>8. QED
    BY <2>2, <2>7 DEF HandsOver
<1>7. QED BY <1>5, <1>6

LEMMA InboundOrdered ==
  ASSUME Typed, NEW r \in Req, Ordered(req[r]), ReadInbound(r)
  PROVE  HandsOver(r)
<1>1. PICK s \in Request : s = req[r] /\ WellFormed(s)
  BY ReqIn
<1>2. Ordered(s) /\ s.pc = "readInbound" /\ s.op = "move" /\ s.to \in Path /\ s.from \in Path
  BY <1>1 DEF ReadInbound, At, WellFormed, MovePC
<1>3. UNCHANGED <<index, incoming, revisions, clock, comments, watches, inbox>>
  BY DEF ReadInbound, stores, satellites
<1>4. s.from # s.to /\ index[s.to] = None
  BY <1>2 DEF Ordered, Placed
<1>5. PICK todo : todo = {[path |-> q, draft |-> Redirect(index[q], s.from, s.to)] :
                            q \in Linkers(s.from) \ {s.from}}
  OBVIOUS
<1>6. ASSUME NEW q \in Linkers(s.from)
      PROVE  Redirect(index[q], s.from, s.to) \in Content
             /\ s.from \notin Redirect(index[q], s.from, s.to).links
  <2>1. index[q] \in Content /\ q \in Path /\ s.from \in index[q].links
    BY IndexTyped
  <2>2. QED BY <1>2, <1>4, <2>1 DEF Redirect, Content
<1>7. /\ \A d \in todo : /\ d \in [path : Path, draft : Content]
                         /\ d.path # s.from /\ s.from \notin d.draft.links
      /\ \A q \in Linkers(s.from) \ {s.from} : \E d \in todo : d.path = q
  <2>1. ASSUME NEW d \in todo
        PROVE  /\ d \in [path : Path, draft : Content]
               /\ d.path # s.from /\ s.from \notin d.draft.links
    <3>1. PICK q \in Linkers(s.from) \ {s.from} :
            d = [path |-> q, draft |-> Redirect(index[q], s.from, s.to)]
      BY <1>5
    <3>2. q \in Path
      BY IndexTyped
    <3>3. QED BY <1>6, <3>1, <3>2
  <2>2. ASSUME NEW q \in Linkers(s.from) \ {s.from}
        PROVE  \E d \in todo : d.path = q
    <3>1. PICK d : d = [path |-> q, draft |-> Redirect(index[q], s.from, s.to)]
      OBVIOUS
    <3>2. QED BY <1>5, <3>1
  <2>3. QED BY <2>1, <2>2
<1>8. PICK n : n = [s EXCEPT !.pc = "removeFile", !.todo = todo]
  OBVIOUS
<1>9. /\ n \in Request /\ n.pc = "removeFile" /\ n.todo = todo /\ n.op = s.op /\ n.ret = s.ret
      /\ n.from = s.from /\ n.to = s.to /\ n.by = s.by /\ n.path = s.path /\ n.draft = s.draft
  BY ZenonT(60), <1>7, <1>8 DEF Request, PC
<1>10. req' = [req EXCEPT ![r] = n]
  <2>1. req' = [req EXCEPT ![r].pc = "removeFile", ![r].todo = todo]
    BY <1>1, <1>5 DEF ReadInbound
  <2>2. QED
    BY <1>1, <1>8, <2>1 DEF Typed, TypeOK
<1>11. Carried(n) /\ Placed(n) /\ Told(n)
  BY <1>2, <1>9 DEF Ordered, Carried, Placed, Told, StoredPC, LinkPC, GonePC, AheadPC, UpsertPC
<1>12. Retargeted(n)
  BY <1>7, <1>9 DEF Retargeted, UpsertPC
<1>13. Wired(n) /\ Headed(n)
  BY <1>2, <1>9 DEF Ordered, Wired, Rewiring, Headed, StoredPC, LinkPC, GonePC
<1>14. Followed(n)
  BY <1>2, <1>9 DEF Ordered, Followed, HistoryLeft, CommentsLeft, WatchesLeft, AheadPC
<1>15. Ordered(n)'
  BY <1>3, <1>11, <1>12, <1>13, <1>14, Unmoved DEF Ordered
<1>16. QED
  BY <1>9, <1>10, <1>15 DEF HandsOver

\* The revisions of the old path follow those of the new one.
LEMMA MoveHistoryOrdered ==
  ASSUME Typed, NEW r \in Req, Ordered(req[r]), MoveHistory(r)
  PROVE  HandsOver(r)
<1>1. "moveComments" \in PC
  BY DEF PC
<1>2. PICK n \in Request : req' = [req EXCEPT ![r] = n] /\ n.pc = "moveComments" /\ Kept(n, req[r])
  BY <1>1, GotoKept DEF MoveHistory
<1>3. PICK s \in Request : s = req[r] /\ WellFormed(s)
  BY ReqIn
<1>4. /\ Ordered(s) /\ s.pc = "moveHistory" /\ Kept(n, s) /\ s.op = "move"
      /\ s.from \in Path /\ s.to \in Path
      /\ revisions' = Rehomed(revisions, s.from, s.to)
  BY <1>2, <1>3 DEF MoveHistory, At, WellFormed, MovePC
<1>5. UNCHANGED <<index, incoming, clock, comments, watches, inbox>>
  BY DEF MoveHistory, stores
<1>6. s.ret = "next"
  BY <1>4 DEF Ordered, Placed, UpsertPC, Request
<1>7. s.from # s.to /\ index[s.from] = None /\ index[s.to] # None
  BY <1>4, <1>6 DEF Ordered, Placed, AheadPC
<1>8. /\ Indexed' = Indexed /\ \A p : Linkers(p)' = Linkers(p)
      /\ s.from \notin Indexed /\ s.to \in Indexed
  BY <1>4, <1>5, <1>7, SameIndex DEF Indexed
<1>9. \A v \in revisions : v \in Revision
  BY DEF Typed, TypeOK
<1> DEFINE move(v) == IF v.path = s.from THEN [v EXCEPT !.path = s.to] ELSE v
<1>10. ASSUME NEW v \in revisions
       PROVE  /\ move(v).at = v.at /\ move(v).content = v.content
              /\ move(v).path = IF v.path = s.from THEN s.to ELSE v.path
              /\ v.path # s.from => move(v) = v
  BY <1>9 DEF Revision
<1>11. ASSUME NEW w
       PROVE  w \in revisions' <=> \E v \in revisions : w = move(v)
  BY <1>4 DEF Rehomed
<1> HIDE DEF move
<1>12. ASSUME NEW p, p # s.from, p # s.to
       PROVE  History(p)' = History(p)
  <2>1. \A w : w \in revisions' /\ w.path = p <=> w \in revisions /\ w.path = p
    BY <1>10, <1>11, <1>12
  <2>2. QED BY <2>1 DEF History
<1>13. /\ History(s.to)' = History(s.to) \cup {move(v) : v \in History(s.from)}
       /\ History(s.from)' = {}
  BY <1>7, <1>10, <1>11 DEF History
<1>14. /\ \A v \in revisions : v.at < clock /\ v.at \in Nat
       /\ \A v, w \in revisions : v.path = w.path /\ v.at = w.at => v = w
       /\ \A p \in Indexed : Latest(p) = {index[p]}
       /\ \A v \in History(s.from), w \in History(s.to) : v.at < w.at
  BY <1>4, <1>9 DEF Ordered, Headed, StoredPC, LinkPC, Revision
<1>15. History(s.to) # {}
  <2>1. Latest(s.to) # {None}
    BY <1>7, <1>8, <1>14
  <2>2. QED BY <2>1 DEF Latest
<1>16. Latest(s.to)' = Latest(s.to)
  <2>1. Newest(s.to)' = {w \in History(s.to)' : \A x \in History(s.to)' : x.at <= w.at}
    BY DEF Newest
  <2>2. \A v \in History(s.from), w \in History(s.to) :
          v \in revisions /\ w \in revisions /\ move(v).at < w.at /\ move(v).at \in Nat /\ w.at \in Nat
    BY <1>10, <1>14 DEF History
  <2>3. Newest(s.to)' = Newest(s.to)
    BY <1>13, <1>15, <2>1, <2>2 DEF Newest
  <2>4. QED
    BY <1>13, <1>15, <2>3 DEF Latest
<1>17. \A p \in Indexed : Latest(p)' = Latest(p)
  BY <1>8, <1>12, <1>16, SamePast
<1>18. Carried(n)' /\ Placed(n)' /\ Retargeted(n)' /\ Told(n)'
  BY <1>2, <1>4, <1>5, <1>8 DEF Ordered, Carried, Placed, Retargeted, Told, Kept, StoredPC, LinkPC, GonePC,
                                AheadPC, UpsertPC
<1>19. Wired(n)'
  BY <1>2, <1>4, <1>5, <1>8 DEF Ordered, Wired, Rewiring, Kept, LinkPC, GonePC
<1>20. Headed(n)'
  <2>1. \A w \in revisions' : w.at < clock
    BY <1>10, <1>11, <1>14
  <2>2. ASSUME NEW x \in revisions', NEW y \in revisions', x.path = y.path, x.at = y.at
        PROVE  x = y
    <3>1. PICK v \in revisions : x = move(v)
      BY <1>11
    <3>2. PICK w \in revisions : y = move(w)
      BY <1>11
    <3>3. v.at = w.at /\ v.at \in Nat /\ w.at \in Nat
      BY <1>10, <1>14, <2>2, <3>1, <3>2
    <3>4. v.path = w.path
      <4>1. CASE v.path # s.from /\ w.path # s.from
        BY <1>10, <2>2, <3>1, <3>2, <4>1
      <4>2. CASE v.path = s.from /\ w.path # s.from
        <5>1. w.path = s.to
          BY <1>10, <2>2, <3>1, <3>2, <4>2
        <5>2. v.at < w.at
          BY <1>14, <4>2, <5>1 DEF History
        <5>3. QED BY <3>3, <5>2
      <4>3. CASE v.path # s.from /\ w.path = s.from
        <5>1. v.path = s.to
          BY <1>10, <2>2, <3>1, <3>2, <4>3
        <5>2. w.at < v.at
          BY <1>14, <4>3, <5>1 DEF History
        <5>3. QED BY <3>3, <5>2
      <4>4. CASE v.path = s.from /\ w.path = s.from
        BY <4>4
      <4>5. QED BY <4>1, <4>2, <4>3, <4>4
    <3>5. v = w
      BY <1>14, <3>3, <3>4
    <3>6. QED BY <3>1, <3>2, <3>5
  <2>3. QED
    BY <1>2, <1>4, <1>5, <1>6, <1>8, <1>14, <1>17, <2>1, <2>2 DEF Headed, Kept
<1>21. Followed(n)'
  <2>1. \A w \in revisions' : w.path \in Indexed
    <3>1. \A v \in revisions : v.path \in Indexed \/ v.path = s.from
      BY <1>4 DEF Ordered, Followed
    <3>2. QED
      BY <1>8, <1>10, <1>11, <3>1
  <2>2. QED
    BY <1>2, <1>4, <1>5, <1>8, <2>1 DEF Ordered, Followed, HistoryLeft, CommentsLeft, WatchesLeft, Kept, AheadPC
<1>22. QED
  BY <1>2, <1>18, <1>19, <1>20, <1>21 DEF HandsOver, Ordered

LEMMA MoveCommentsOrdered ==
  ASSUME Typed, NEW r \in Req, Ordered(req[r]), MoveComments(r)
  PROVE  HandsOver(r)
<1>1. PICK s \in Request : s = req[r] /\ WellFormed(s)
  BY ReqIn
<1>2. Ordered(s) /\ s.pc = "moveComments" /\ s.op = "move"
  BY <1>1 DEF MoveComments, At, WellFormed, MovePC
<1>3. s.ret = "next"
  BY <1>2 DEF Ordered, Placed, UpsertPC, Request
<1>4. /\ UNCHANGED <<index, incoming, revisions, clock, watches, inbox>>
      /\ comments' = {IF c[2] = s.from THEN <<c[1], s.to>> ELSE c : c \in comments}
  BY <1>1 DEF MoveComments, stores
<1>5. \A k \in comments' : k[2] \in Indexed'
  <2>1. s.to \in Indexed
    BY <1>1, <1>2, <1>3, IndexTyped DEF Ordered, Placed, AheadPC, WellFormed
  <2>2. \A k \in comments : k[2] \in Indexed \/ k[2] = s.from
    BY <1>2 DEF Ordered, Followed
  <2>3. QED
    BY <1>4, <2>1, <2>2, SameIndex
<1>6. Ordered(s)'
  <2>1. Carried(s)' /\ Placed(s)' /\ Retargeted(s)' /\ Told(s)'
    BY <1>2, <1>4, SameIndex, SameHistory DEF Ordered, Carried, Placed, Retargeted, Told
  <2>2. Wired(s)' /\ Headed(s)'
    BY <1>2, <1>4, SameIndex, SameHistory DEF Ordered, Wired, Headed
  <2>3. Followed(s)'
    BY <1>2, <1>4, <1>5, SameIndex DEF Ordered, Followed
  <2>4. QED
    BY <2>1, <2>2, <2>3 DEF Ordered
<1>7. PICK n \in NextUpsert(s) : req' = [req EXCEPT ![r] = n]
  BY <1>1 DEF MoveComments
<1>8. QED
  BY <1>1, <1>2, <1>3, <1>5, <1>6, <1>7, KeptSelf, NextOrdered DEF HandsOver

LEMMA WatchersOrdered ==
  ASSUME Typed, NEW r \in Req, Ordered(req[r]), ReadWatchers(r)
  PROVE  HandsOver(r)
<1>1. PICK s \in Request : s = req[r] /\ WellFormed(s)
  BY ReqIn
<1>2. Ordered(s) /\ s.pc = "readWatchers" /\ s.op = "move"
  BY <1>1 DEF ReadWatchers, At, WellFormed, MovePC
<1>3. s.ret = "next"
  BY <1>2 DEF Ordered, Placed, UpsertPC, Request
<1>4. UNCHANGED <<index, incoming, revisions, clock, comments, watches, inbox>>
  BY DEF ReadWatchers, stores, satellites
<1>5. PICK mine : mine = {u \in User : <<u, s.from>> \in watches}
  OBVIOUS
<1>6. \A w \in watches : w[2] \in Indexed \/ (w[2] = s.from /\ w[1] \in mine)
  <2>1. \A w \in watches : w[2] \in Indexed \/ w[2] = s.from
    BY <1>2 DEF Ordered, Followed
  <2>2. \A w \in watches : w[1] \in User /\ w = <<w[1], w[2]>>
    BY DEF Typed, TypeOK
  <2>3. QED
    BY <1>5, <2>1, <2>2
<1>7. CASE mine = {} /\ Finish(r)
  <2>1. Ordered(s)'
    BY <1>2, <1>4, Unmoved
  <2>2. \A w \in watches' : w[2] \in Indexed'
    BY <1>4, <1>6, <1>7, SameIndex
  <2>3. Ordered(Idle)'
    BY <1>2, <1>3, <2>1, <2>2, RestOrdered DEF StoredPC, LinkPC, GonePC
  <2>4. QED
    BY <1>7, <2>3, IdleFields DEF HandsOver, Finish
<1>8. CASE req' = [req EXCEPT ![r].pc = "moveWatch", ![r].users = mine]
  <2>0. mine \subseteq User
    BY <1>5
  <2>1. PICK n : n = [s EXCEPT !.pc = "moveWatch", !.users = mine]
    OBVIOUS
  <2>2. /\ n \in Request /\ n.pc = "moveWatch" /\ n.users = mine /\ n.op = s.op /\ n.ret = s.ret
        /\ n.from = s.from /\ n.to = s.to /\ n.by = s.by /\ n.path = s.path /\ n.draft = s.draft
        /\ n.todo = s.todo
    BY ZenonT(60), <2>0, <2>1 DEF Request, PC
  <2>3. req' = [req EXCEPT ![r] = n]
    BY <1>1, <1>8, <2>1 DEF Typed, TypeOK
  <2>4. Carried(n) /\ Placed(n) /\ Retargeted(n) /\ Told(n)
    BY <1>2, <2>2 DEF Ordered, Carried, Placed, Retargeted, Told, StoredPC, LinkPC, GonePC, AheadPC, UpsertPC
  <2>5. Wired(n) /\ Headed(n)
    BY <1>2, <2>2 DEF Ordered, Wired, Rewiring, Headed, StoredPC, LinkPC, GonePC
  <2>6. Followed(n)
    BY <1>2, <1>6, <2>2 DEF Ordered, Followed, HistoryLeft, CommentsLeft, WatchesLeft, AheadPC
  <2>7. Ordered(n)'
    BY <1>4, <2>4, <2>5, <2>6, Unmoved DEF Ordered
  <2>8. QED
    BY <2>2, <2>3, <2>7 DEF HandsOver
<1>9. QED
  BY <1>1, <1>5, <1>7, <1>8 DEF ReadWatchers

LEMMA MoveWatchOrdered ==
  ASSUME Typed, NEW r \in Req, Ordered(req[r]), MoveWatch(r), ~tangled'
  PROVE  HandsOver(r)
<1>1. PICK s \in Request : s = req[r] /\ WellFormed(s)
  BY ReqIn
<1>2. Ordered(s) /\ s.pc = "moveWatch" /\ s.op = "move" /\ s.to \in Path
  BY <1>1 DEF MoveWatch, At, WellFormed, MovePC
<1>3. s.ret = "next"
  BY <1>2 DEF Ordered, Placed, UpsertPC, Request
<1>4. UNCHANGED <<index, incoming, revisions, clock, comments, inbox>>
  BY DEF MoveWatch, stores
<1>5. PICK u \in s.users :
        /\ watches' = IF <<u, s.from>> \in watches
                        THEN (watches \ {<<u, s.from>>}) \cup {<<u, s.to>>} ELSE watches
        /\ req' = [req EXCEPT ![r].users = @ \ {u},
                              ![r].pc = IF s.users = {u} THEN "notifyMoved" ELSE "moveWatch"]
  BY <1>1 DEF MoveWatch
<1>6. PICK pc \in {"notifyMoved", "moveWatch"} : pc = IF s.users = {u} THEN "notifyMoved" ELSE "moveWatch"
  OBVIOUS
<1>7. PICK n : n = [s EXCEPT !.users = @ \ {u}, !.pc = pc]
  OBVIOUS
<1>8. /\ n \in Request /\ n.pc = pc /\ n.users = s.users \ {u} /\ n.op = s.op /\ n.ret = s.ret
      /\ n.from = s.from /\ n.to = s.to /\ n.by = s.by /\ n.path = s.path /\ n.draft = s.draft
      /\ n.todo = s.todo
  BY ZenonT(60), <1>7 DEF Request, PC
<1>9. req' = [req EXCEPT ![r] = n]
  BY <1>1, <1>5, <1>6, <1>7 DEF Typed, TypeOK
<1>10. s.to \in Indexed /\ index[s.from] = None
  BY <1>2, <1>3, IndexTyped DEF Ordered, Placed, AheadPC
<1>11. Carried(n)' /\ Placed(n)' /\ Retargeted(n)' /\ Told(n)'
  BY <1>2, <1>4, <1>8, SameIndex
     DEF Ordered, Carried, Placed, Retargeted, Told, StoredPC, LinkPC, GonePC, AheadPC, UpsertPC
<1>12. Wired(n)' /\ Headed(n)'
  BY <1>2, <1>4, <1>8, SameIndex, SameHistory DEF Ordered, Wired, Rewiring, Headed, StoredPC, LinkPC, GonePC
<1>13. Followed(n)'
  <2>1. ASSUME NEW w \in watches'
        PROVE  w[2] \in Indexed \/ (w[2] = s.from /\ w[1] \in s.users \ {u} /\ pc = "moveWatch")
    <3>1. CASE w = <<u, s.to>>
      BY <1>10, <3>1
    <3>2. CASE w \in watches /\ w # <<u, s.from>>
      <4>1. w = <<w[1], w[2]>>
        BY <3>2 DEF Typed, TypeOK
      <4>2. w[2] \in Indexed \/ (w[2] = s.from /\ w[1] \in s.users)
        BY <1>2, <3>2 DEF Ordered, Followed
      <4>3. w[2] = s.from => w[1] # u
        BY <3>2, <4>1
      <4>4. QED BY <1>6, <4>2, <4>3
    <3>3. QED BY <1>5, <2>1, <3>1, <3>2
  <2>2. \A v \in revisions : v.path \in Indexed
    BY <1>2, <1>3 DEF Ordered, Followed, HistoryLeft
  <2>3. \A k \in comments : k[2] \in Indexed
    BY <1>2, <1>3 DEF Ordered, Followed, CommentsLeft, HistoryLeft
  <2>4. QED
    BY <1>2, <1>4, <1>8, <2>1, <2>2, <2>3, SameIndex DEF Followed, WatchesLeft, AheadPC
<1>14. QED
  BY <1>6, <1>8, <1>9, <1>11, <1>12, <1>13 DEF HandsOver, Ordered

LEMMA MovedOrdered ==
  ASSUME Typed, NEW r \in Req, Ordered(req[r]), NotifyMoved(r)
  PROVE  HandsOver(r)
<1>1. PICK s \in Request : s = req[r] /\ WellFormed(s)
  BY ReqIn
<1>2. Ordered(s) /\ s.pc = "notifyMoved" /\ s.op = "move"
  BY <1>1 DEF NotifyMoved, At, WellFormed, MovePC
<1>3. s.ret = "next"
  BY <1>2 DEF Ordered, Placed, UpsertPC, Request
<1>4. UNCHANGED <<index, incoming, revisions, clock, comments, watches>> /\ inbox \subseteq inbox'
  BY DEF NotifyMoved, stores
<1>5. Ordered(s)'
  BY <1>2, <1>4, BesideOrdered
<1>6. \A w \in watches' : w[2] \in Indexed'
  BY <1>2, <1>4, SameIndex DEF Ordered, Followed, WatchesLeft
<1>7. Ordered(Idle)'
  BY <1>2, <1>3, <1>5, <1>6, RestOrdered DEF StoredPC, LinkPC, GonePC
<1>8. QED
  BY <1>7, IdleFields DEF HandsOver, NotifyMoved, Finish

-----------------------------------------------------------------------------
\* A step of a request that is alone at work.
LEMMA WorkSerial ==
  ASSUME Typed, SerialInv, ~tangled', NEW r \in Req,
         Upsert(r) \/ ReadPaths(r) \/ Removal(r) \/ Relocation(r)
  PROVE  ~tangled /\ Ordered(req[r]) /\ SerialInv'
<1>1. ~tangled
  BY DEF Upsert, WriteFile, IndexDocument, AddLinks, PullLinks, ReadLinkers, SetLinks, ReadLatest,
         Snapshot, NotifyChanged, ReadPaths, Removal, NotifyDeleted, RemoveFile, RemoveDoc, Unlink,
         DropHistory, DropComments, DropWatches, Relocation, Clash, ReadInbound, MoveHistory,
         MoveComments, ReadWatchers, MoveWatch, NotifyMoved, ghosts
<1>2. Busy(r)
  BY DEF Upsert, WriteFile, IndexDocument, AddLinks, PullLinks, ReadLinkers, SetLinks, ReadLatest,
         Snapshot, NotifyChanged, ReadPaths, Removal, NotifyDeleted, RemoveFile, RemoveDoc, Unlink,
         DropHistory, DropComments, DropWatches, Relocation, Clash, ReadInbound, MoveHistory,
         MoveComments, ReadWatchers, MoveWatch, NotifyMoved, At, Busy
<1>3. Ordered(req[r]) /\ \A q \in Req \ {r} : ~Busy(q)
  BY <1>1, <1>2, WorksAlone
<1>4. CASE Upsert(r)
  BY <1>1, <1>3, <1>4, WriteOrdered, IndexOrdered, LinksOrdered, LinkersOrdered, LatestOrdered,
     SnapshotOrdered, ChangedOrdered, SerialStep DEF Upsert
<1>5. CASE ReadPaths(r)
  BY <1>1, <1>3, <1>5, PathsOrdered, SerialStep
<1>6. CASE Removal(r)
  BY <1>1, <1>3, <1>6, DeletedOrdered, FileOrdered, DocOrdered, DropHistoryOrdered,
     DropFollowersOrdered, UnlinkOrdered, SerialStep DEF Removal
<1>7. CASE Relocation(r)
  BY <1>1, <1>3, <1>7, ClashOrdered, InboundOrdered, MoveHistoryOrdered, MoveCommentsOrdered,
     WatchersOrdered, MoveWatchOrdered, MovedOrdered, SerialStep DEF Relocation
<1>8. QED
  BY <1>4, <1>5, <1>6, <1>7

\* Readers comment on and watch what exists.
LEMMA ReaderStep ==
  ASSUME ~tangled',
         \/ \E t \in Thread, p \in Path, u \in Actor, m \in SUBSET User :
              AddComment(t, p, u, m)
         \/ \E u \in User, p \in Path : Watch(u, p) \/ Unwatch(u, p)
  PROVE  /\ req' = req /\ ~tangled
         /\ UNCHANGED <<index, incoming, revisions, clock>> /\ inbox \subseteq inbox'
         /\ \A k \in comments' : k \in comments \/ k[2] \in Indexed
         /\ \A w \in watches' : w \in watches \/ (w[2] \in Indexed /\ Quiet)
<1> DEFINE Beside == /\ req' = req /\ ~tangled
                     /\ UNCHANGED <<index, incoming, revisions, clock>> /\ inbox \subseteq inbox'
                     /\ \A k \in comments' : k \in comments \/ k[2] \in Indexed
                     /\ \A w \in watches' : w \in watches \/ (w[2] \in Indexed /\ Quiet)
<1>1. ASSUME NEW t \in Thread, NEW p \in Path, NEW u \in Actor, NEW m \in SUBSET User,
             AddComment(t, p, u, m)
      PROVE  Beside
  <2>1. ~tangled
    BY <1>1 DEF AddComment, ghosts
  <2>2. UNCHANGED <<index, incoming, revisions, clock, watches>> /\ req' = req
    BY <1>1 DEF AddComment, stores
  <2>3. p \in Indexed /\ comments' = comments \cup {<<t, p>>} /\ inbox \subseteq inbox'
    BY <1>1 DEF AddComment
  <2>4. QED BY <2>1, <2>2, <2>3
<1>2. ASSUME NEW u \in User, NEW p \in Path, Watch(u, p)
      PROVE  Beside
  <2>1. ~tangled /\ Quiet
    BY <1>2 DEF Watch
  <2>2. UNCHANGED <<index, incoming, revisions, clock, comments, inbox>> /\ req' = req
    BY <1>2 DEF Watch, stores
  <2>3. p \in Indexed /\ watches' = watches \cup {<<u, p>>}
    BY <1>2 DEF Watch
  <2>4. QED BY <2>1, <2>2, <2>3
<1>3. ASSUME NEW u \in User, NEW p \in Path, Unwatch(u, p)
      PROVE  Beside
  <2>1. ~tangled
    BY <1>3 DEF Unwatch, ghosts
  <2>2. UNCHANGED <<index, incoming, revisions, clock, comments, inbox>> /\ req' = req
    BY <1>3 DEF Unwatch, stores
  <2>3. watches' \subseteq watches
    BY <1>3 DEF Unwatch
  <2>4. QED BY <2>1, <2>2, <2>3
<1> HIDE DEF Beside
<1>4. Beside
  BY <1>1, <1>2, <1>3
<1>5. QED BY <1>4 DEF Beside

LEMMA ReaderSerial ==
  ASSUME Typed, SerialInv, ~tangled',
         \/ \E t \in Thread, p \in Path, u \in Actor, m \in SUBSET User :
              AddComment(t, p, u, m)
         \/ \E u \in User, p \in Path : Watch(u, p) \/ Unwatch(u, p)
  PROVE  SerialInv'
<1>1. /\ req' = req /\ ~tangled
      /\ UNCHANGED <<index, incoming, revisions, clock>> /\ inbox \subseteq inbox'
      /\ \A k \in comments' : k \in comments \/ k[2] \in Indexed
      /\ \A w \in watches' : w \in watches \/ (w[2] \in Indexed /\ Quiet)
  BY ReaderStep
<1>2. AtWork' = AtWork /\ \A r \in Req : Busy(r)' <=> Busy(r)
  BY <1>1 DEF AtWork, Quiet, Busy
<1>3. ASSUME NEW s \in AtWork
      PROVE  Ordered(s)'
  <2>1. Ordered(s)
    BY <1>1 DEF SerialInv
  <2>2. Quiet => s = Idle
    BY DEF AtWork
  <2>3. QED
    BY <1>1, <2>1, <2>2, BesideOrdered
<1>4. QED
  BY <1>1, <1>2, <1>3 DEF SerialInv

LEMMA StepSerial ==
  ASSUME Typed, SerialInv, [Next]_vars
  PROVE  SerialInv'
<1> SUFFICES ASSUME ~tangled'
             PROVE  SerialInv'
  BY DEF SerialInv
<1>1. CASE UNCHANGED vars
  <2>1. /\ req' = req /\ ~tangled
        /\ UNCHANGED <<index, incoming, revisions, clock, comments, watches, inbox>>
    BY <1>1 DEF vars, stores, satellites, ghosts
  <2>2. AtWork' = AtWork /\ \A r \in Req : Busy(r)' <=> Busy(r)
    BY <2>1 DEF AtWork, Quiet, Busy
  <2>3. QED
    BY <2>1, <2>2, Unmoved DEF SerialInv
<1>2. ASSUME NEW r \in Req, Start(r)
      PROVE  SerialInv'
  BY <1>2, StartSerial
<1>3. ASSUME NEW r \in Req, Upsert(r) \/ ReadPaths(r) \/ Removal(r) \/ Relocation(r)
      PROVE  SerialInv'
  BY <1>3, WorkSerial
<1>4. ASSUME NEW r \in Req, Fail(r)
      PROVE  SerialInv'
  BY <1>4 DEF Fail
<1>5. CASE Crash
  BY <1>5 DEF Crash
<1>6. CASE \/ \E t \in Thread, p \in Path, u \in Actor, m \in SUBSET User :
                AddComment(t, p, u, m)
           \/ \E u \in User, p \in Path : Watch(u, p) \/ Unwatch(u, p)
  BY <1>6, ReaderSerial
<1>7. QED
  BY <1>1, <1>2, <1>3, <1>4, <1>5, <1>6 DEF Next

\* Until two requests overlap or one fails, one request at most is at work, and
\* the stores differ from what they are at rest by what it has still to do.
THEOREM SerialInvariant == Spec => []SerialInv
<1>1. Init => SerialInv
  BY InitSerial
<1>2. Typed /\ SerialInv /\ [Next]_vars => SerialInv'
  BY StepSerial
<1>3. QED BY <1>1, <1>2, TypeCorrect, PTL DEF Spec

LEMMA RestInOrder ==
  ASSUME SerialInv, Quiet, ~tangled
  PROVE  Ordered(Idle)
  BY DEF SerialInv, AtWork

\* reconcileBacklinks keeps links.incoming of every document equal to the set of
\* documents that link to it: when requests have come one at a time and none
\* has failed, both are the same between two requests.
THEOREM BacklinksSafe == Spec => []BacklinksExact
<1>1. Typed /\ SerialInv => BacklinksExact
  <2> SUFFICES ASSUME Typed, SerialInv, Quiet, ~tangled, NEW p \in Indexed
               PROVE  incoming[p] = Linkers(p)
    BY DEF BacklinksExact
  <2>1. Wired(Idle)
    BY RestInOrder DEF Ordered
  <2>2. \A x \in Path : x \in incoming[p] <=> x \in Linkers(p)
    BY <2>1, IdleFields DEF Wired, Rewiring, LinkPC, GonePC
  <2>3. incoming[p] \subseteq Path /\ Linkers(p) \subseteq Path
    BY IndexTyped
  <2>4. QED BY <2>2, <2>3
<1>2. QED BY <1>1, TypeCorrect, SerialInvariant, PTL

\* The newest revision of a document is its current content, whatever was
\* saved, moved, deleted, imported or repaired one after the other.
THEOREM HeadSafe == Spec => []HistoryHead
<1>1. SerialInv => HistoryHead
  <2> SUFFICES ASSUME SerialInv, Quiet, ~tangled
               PROVE  \A p \in Indexed : Latest(p) = {index[p]}
    BY DEF HistoryHead
  <2>1. Headed(Idle)
    BY RestInOrder DEF Ordered
  <2>2. QED
    BY <2>1, IdleFields DEF Headed, StoredPC, LinkPC
<1>2. QED BY <1>1, SerialInvariant, PTL

\* Revisions, comments and watches follow a moved document and go with a
\* deleted one: between two requests none is left at a path without document.
THEOREM FollowersSafe == Spec => []FollowersHaveDocument
<1>1. SerialInv => FollowersHaveDocument
  <2> SUFFICES ASSUME SerialInv, Quiet, ~tangled
               PROVE  /\ \A v \in revisions : v.path \in Indexed
                      /\ \A c \in comments : c[2] \in Indexed
                      /\ \A w \in watches : w[2] \in Indexed
    BY DEF FollowersHaveDocument
  <2>1. Followed(Idle)
    BY RestInOrder DEF Ordered
  <2>2. QED
    BY <2>1, IdleFields DEF Followed, HistoryLeft, CommentsLeft, WatchesLeft
<1>2. QED BY <1>1, SerialInvariant, PTL

\* At the end of a move nobody but the moved document links to the old path.
LEMMA MoveDone ==
  ASSUME Typed, NEW s \in Request, WellFormed(s), Ordered(s), s.pc \in {"readWatchers", "notifyMoved"}
  PROVE  Linkers(s.from) \subseteq {s.to}
<1>1. s.op = "move" /\ s.ret = "next" /\ s.from \in Path
  BY DEF WellFormed, MovePC, Ordered, Placed, UpsertPC, Request
<1>2. s.todo = {} /\ index[s.from] = None
  BY <1>1 DEF Ordered, Placed, AheadPC
<1>3. \A q \in Linkers(s.from) \ {s.from, s.to} : \E d \in s.todo : d.path = q
  BY <1>1 DEF Ordered, Retargeted
<1>4. s.from \notin Linkers(s.from)
  BY <1>2 DEF Linkers, Indexed
<1>5. QED
  BY <1>2, <1>3, <1>4

\* The step that ends a move of r.
LEMMA EndOfMove ==
  ASSUME Typed, SerialInv, Next, ~tangled', NEW r \in Req,
         req[r].pc \in {"readWatchers", "notifyMoved"}
  PROVE  ~tangled /\ index' = index
<1>1. Busy(r) /\ ~Quiet
  BY DEF Busy, Quiet
<1>2. ASSUME NEW q \in Req, Start(q)
      PROVE  FALSE
  <2>1. tangled'
    BY <1>1, <1>2 DEF Start, StartSave, StartImport, StartTag, StartFix, StartFixAll,
                      StartDelete, StartMove, Begin
  <2>2. QED BY <2>1
<1>3. ASSUME NEW q \in Req, Upsert(q) \/ ReadPaths(q) \/ Removal(q) \/ Relocation(q)
      PROVE  ~tangled /\ index' = index
  <2>1. ~tangled
    BY <1>3, WorkSerial
  <2>2. CASE q # r
    <3>1. ~Busy(q)
      BY <1>1, <2>1, <2>2, WorksAlone
    <3>2. QED
      BY <1>3, <3>1 DEF Upsert, WriteFile, IndexDocument, AddLinks, PullLinks, ReadLinkers, SetLinks,
         ReadLatest, Snapshot, NotifyChanged, ReadPaths, Removal, NotifyDeleted, RemoveFile, RemoveDoc,
         Unlink, DropHistory, DropComments, DropWatches, Relocation, Clash, ReadInbound, MoveHistory,
         MoveComments, ReadWatchers, MoveWatch, NotifyMoved, At, Busy
  <2>3. CASE q = r
    <3>1. ReadWatchers(r) \/ NotifyMoved(r)
      BY <1>3, <2>3 DEF Upsert, WriteFile, IndexDocument, AddLinks, PullLinks, ReadLinkers, SetLinks,
         ReadLatest, Snapshot, NotifyChanged, ReadPaths, Removal, NotifyDeleted, RemoveFile, RemoveDoc,
         Unlink, DropHistory, DropComments, DropWatches, Relocation, Clash, ReadInbound, MoveHistory,
         MoveComments, MoveWatch, At
    <3>2. QED
      BY <2>1, <3>1 DEF ReadWatchers, NotifyMoved, stores
  <2>4. QED BY <2>2, <2>3
<1>4. ASSUME NEW q \in Req, Fail(q)
      PROVE  FALSE
  BY <1>4 DEF Fail
<1>5. ~Crash
  BY DEF Crash
<1>6. CASE \/ \E t \in Thread, p \in Path, u \in Actor, m \in SUBSET User :
                AddComment(t, p, u, m)
           \/ \E u \in User, p \in Path : Watch(u, p) \/ Unwatch(u, p)
  BY <1>6, ReaderStep
<1>7. QED
  BY <1>2, <1>3, <1>4, <1>5, <1>6 DEF Next

\* When a move that ran alone ends, nothing links to the old path any more,
\* except the moved document itself if it linked to itself.
THEOREM RetargetSafe == Spec => MoveRetargets
<1>1. Typed /\ SerialInv /\ [Next]_vars =>
        [\A r \in Req :
           /\ req[r].pc \in {"readWatchers", "notifyMoved"}
           /\ req'[r] = Idle
           /\ ~tangled'
           => LinkersNext(req[r].from) \subseteq {req[r].to}]_vars
  <2> SUFFICES ASSUME Typed, SerialInv, Next, ~tangled', NEW r \in Req,
                      req[r].pc \in {"readWatchers", "notifyMoved"}
               PROVE  LinkersNext(req[r].from) \subseteq {req[r].to}
    OBVIOUS
  <2>1. PICK s \in Request : s = req[r] /\ WellFormed(s)
    BY ReqIn
  <2>2. ~tangled /\ index' = index /\ Busy(r)
    BY EndOfMove DEF Busy
  <2>3. Ordered(s)
    BY <2>1, <2>2, WorksAlone
  <2>4. Linkers(s.from) \subseteq {s.to}
    BY <2>1, <2>3, MoveDone
  <2>5. LinkersNext(s.from) = Linkers(s.from)
    BY <2>2 DEF LinkersNext, Linkers, Indexed
  <2>6. QED
    BY <2>1, <2>4, <2>5
<1>2. QED BY <1>1, TypeCorrect, SerialInvariant, PTL DEF Spec, MoveRetargets

\* As long as requests come one at a time and none fails, whoever loses a watch
\* deleted the document, was told of it (or does not want to be), or watches the
\* new path of a move.
THEOREM WatchSafe == Spec => WatchEndsTold
<1>1. Typed /\ SerialInv /\ [Next]_vars =>
        [~tangled' /\ req' # req => \A w \in watches \ watches' : EndedFairly(w)]_vars
  <2> SUFFICES ASSUME Typed, SerialInv, Next, ~tangled', req' # req, NEW w \in watches \ watches'
               PROVE  EndedFairly(w)
    OBVIOUS
  <2>1. ASSUME NEW r \in Req, DropWatches(r)
        PROVE  EndedFairly(w)
    <3>1. PICK s \in Request : s = req[r] /\ WellFormed(s)
      BY ReqIn
    <3>2. Ordered(s)
      BY <2>1, <3>1, WorkSerial DEF Removal
    <3>3. s.pc = "dropWatches" /\ s.op = "delete" /\ w[2] = s.from
      BY <2>1, <3>1 DEF DropWatches, At, WellFormed, DeletePC
    <3>4. \/ w[1] = s.by
          \/ <<w[1], "deleted">> \in Mutes
          \/ [user |-> w[1], path |-> w[2], kind |-> "deleted"] \in inbox
      BY <3>2, <3>3 DEF Ordered, Told, TellPC
    <3>5. QED
      BY <3>1, <3>3, <3>4 DEF EndedFairly
  <2>2. ASSUME NEW r \in Req, MoveWatch(r)
        PROVE  EndedFairly(w)
    <3>1. req[r].op = "move"
      BY <2>2, ReqIn DEF MoveWatch, At, WellFormed, MovePC
    <3>2. PICK u \in req[r].users :
            watches' = IF <<u, req[r].from>> \in watches
                         THEN (watches \ {<<u, req[r].from>>}) \cup {<<u, req[r].to>>} ELSE watches
      BY <2>2 DEF MoveWatch
    <3>3. w = <<u, req[r].from>> /\ <<u, req[r].to>> \in watches'
      BY <3>2
    <3>4. QED
      BY <3>1, <3>3 DEF EndedFairly
  <2>3. ASSUME watches' = watches
        PROVE  EndedFairly(w)
    BY <2>3
  <2>4. ASSUME NEW r \in Req, Start(r)
        PROVE  watches' = watches
    BY <2>4 DEF Start, StartSave, StartImport, StartTag, StartFix, StartFixAll,
                StartDelete, StartMove, Begin, satellites
  <2>5. ASSUME NEW r \in Req, Upsert(r) \/ ReadPaths(r)
        PROVE  watches' = watches
    BY <2>5 DEF Upsert, WriteFile, IndexDocument, AddLinks, PullLinks, ReadLinkers, SetLinks,
                ReadLatest, Snapshot, NotifyChanged, ReadPaths, satellites
  <2>6. ASSUME NEW r \in Req, Removal(r), ~DropWatches(r)
        PROVE  watches' = watches
    BY <2>6 DEF Removal, NotifyDeleted, RemoveFile, RemoveDoc, Unlink, DropHistory, DropComments,
                satellites
  <2>7. ASSUME NEW r \in Req, Relocation(r), ~MoveWatch(r)
        PROVE  watches' = watches
    BY <2>7 DEF Relocation, Clash, ReadInbound, MoveHistory, MoveComments, ReadWatchers, NotifyMoved,
                satellites
  <2>8. ASSUME NEW r \in Req, Fail(r)
        PROVE  FALSE
    BY <2>8 DEF Fail
  <2>9. ~Crash
    BY DEF Crash
  <2>10. CASE \/ \E t \in Thread, p \in Path, u \in Actor, m \in SUBSET User :
                   AddComment(t, p, u, m)
              \/ \E u \in User, p \in Path : Watch(u, p) \/ Unwatch(u, p)
    BY <2>10 DEF AddComment, Watch, Unwatch
  <2>11. QED
    BY <2>1, <2>2, <2>3, <2>4, <2>5, <2>6, <2>7, <2>8, <2>9, <2>10 DEF Next
<1>2. QED BY <1>1, TypeCorrect, SerialInvariant, PTL DEF Spec, WatchEndsTold
============================================================================
