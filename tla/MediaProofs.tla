----------------------------- MODULE MediaProofs -----------------------------
(***************************************************************************)
(* Proofs about the media service, for all volumes, assets, places and     *)
(* requests: MediaInv is inductive and gives BytesSafe; with UsageInv,     *)
(* which sums over the assets that count on a volume, it gives UsageExact. *)
(***************************************************************************)
EXTENDS Media, SumsProofs

-----------------------------------------------------------------------------
(* The inductive invariant. *)

\* Each kind of request, by the awaits it goes through.
Shaped(s) ==
  /\ s.op # "deleteVolume" => s.todo = {}
  /\ \/ s.op = "none" /\ s.pc = "idle" /\ s.asset = None /\ s.from = None /\ s.to = None
     \/ /\ s.op = "deleteVolume" /\ s.pc \in {"list", "wipe", "dropVolume"}
        /\ s.asset = None /\ s.from \in Volume /\ s.to = None
     \/ /\ s.op = "upload" /\ s.asset \in Asset /\ s.from = None
        /\ \/ s.pc = "ensure" /\ s.to = None
           \/ s.pc \in {"put", "record", "charge"} /\ s.to \in Volume
     \/ /\ s.op = "move" /\ s.asset \in Asset /\ s.from \in Volume /\ s.to \in Volume
        /\ s.pc \in {"source", "target", "get", "putTo", "dropFrom", "discharge", "charge", "rehome"}
     \/ /\ s.op = "remove" /\ s.asset \in Asset /\ s.from \in Volume /\ s.to = None
        /\ s.pc \in {"source", "erase", "discharge", "forget"}

\* What has no identity yet is nowhere, and what a removal works on is doomed.
Known ==
  /\ volumes \subseteq made
  /\ \A a \in Asset : home[a] \in made \cup {None}
  /\ \A a \in Asset \ made : home[a] = None /\ Copies(a) = {}
  /\ \A r \in Req : /\ VolumesOf(req[r]) \subseteq made
                    /\ req[r].asset # None => req[r].asset \in made
                    /\ req[r].todo \subseteq made \cap doomed
                    /\ req[r].op = "remove" => req[r].asset \in doomed

\* Nobody else works on the asset of s, nor deletes a volume of s.
Apart(a, s, q) ==
  s.asset = a =>
    /\ q.asset # a /\ a \notin q.todo
    /\ q.op = "deleteVolume" => q.from \notin VolumesOf(s)

\* Where a is while s is under way.
Steady(a, s) ==
  /\ s.asset = a =>
       /\ s.op = "upload" => home[a] = IF s.pc = "charge" THEN s.to ELSE None
       /\ s.op \in {"move", "remove"} => home[a] = s.from
       /\ s.to # None => s.to \in volumes \/ s.pc \in {"source", "target"}
  /\ s.pc = "dropVolume" => home[a] # s.from
  /\ a \in s.todo => home[a] \in {None, s.from}

\* The places that have a while s works on it.
Expected(s) ==
  {p \in Places :
     \/ s.pc \in {"source", "target", "get", "putTo", "dropFrom", "erase"} /\ p = Place[s.from]
     \/ s.pc \in {"record", "dropFrom", "charge", "rehome"} /\ p = Place[s.to]
     \/ s.op = "move" /\ s.pc = "discharge" /\ p = Place[s.to]}

\* s is wiping the volume of a, and has had a already.
Wiped(a, s) == s.pc = "wipe" /\ home[a] = s.from /\ a \notin s.todo

\* The places that have a are those its requests leave it at.
Exact(a) ==
  /\ \A r \in Req : req[r].asset = a => Copies(a) = Expected(req[r])
  /\ \A r \in Req : Wiped(a, req[r]) => Copies(a) = {}
  /\ (\A r \in Req : req[r].asset # a) =>
       IF home[a] = None THEN Copies(a) = {}
       ELSE Copies(a) = {Place[home[a]]} \/ \E r \in Req : Wiped(a, req[r])

\* A place has a as long as a record is to say so.
Kept(a) ==
  /\ home[a] # None => Copies(a) # {}
  /\ \A r \in Req : req[r].asset = a /\ req[r].pc \in {"record", "dropFrom"} => Place[req[r].to] \in Copies(a)

MediaInv ==
  /\ TypeOK
  /\ \A r \in Req : Shaped(req[r])
  /\ Known
  /\ \A a \in Asset \ clashed :
       /\ home[a] # None => home[a] \in volumes
       /\ \A r \in Req : Steady(a, req[r]) /\ \A q \in Req \ {r} : Apart(a, req[r], req[q])
       /\ a \notin cut => Exact(a)
       /\ a \notin doomed => Kept(a)

-----------------------------------------------------------------------------
(* The parts of the invariant. *)

LEMMA Identities ==
  /\ \A a \in Asset : a # None
  /\ \A v \in Volume : v # None
  /\ \A v \in Volume : Place[v] \in Places
BY NoneAssumption, PlaceAssumption DEF Places

LEMMA MediaInit == Init => MediaInv
<1> SUFFICES ASSUME Init PROVE MediaInv
  OBVIOUS
<1>1. \A r \in Req : req[r] = Idle
  BY DEF Init
<1>2. Idle \in Request /\ Shaped(Idle) /\ VolumesOf(Idle) = {}
  BY DEF Idle, Request, Shaped, VolumesOf
<1>3. TypeOK
  <2>1. used \in [Volume -> Int] /\ home \in [Asset -> Volume \cup {None}] /\ req \in [Req -> Request]
    BY <1>2 DEF Init
  <2>2. started \in Nat /\ faults \in Nat
    BY DEF Init
  <2>3. QED
    BY <2>1, <2>2 DEF Init, TypeOK
<1>4. \A a \in Asset : home[a] = None /\ Copies(a) = {}
  BY DEF Init, Copies
<1>5. Known
  BY <1>1, <1>2, <1>4 DEF Known, Init, Idle
<1>6. ASSUME NEW a \in Asset
      PROVE  /\ \A r \in Req : Steady(a, req[r]) /\ \A q \in Req \ {r} : Apart(a, req[r], req[q])
             /\ Exact(a) /\ Kept(a)
  <2>1. \A r \in Req : Steady(a, req[r]) /\ \A q \in Req \ {r} : Apart(a, req[r], req[q])
    BY <1>1, Identities DEF Idle, Steady, Apart
  <2>2. Exact(a) /\ Kept(a)
    BY <1>1, <1>4, Identities DEF Idle, Exact, Kept, Wiped
  <2>3. QED
    BY <2>1, <2>2
<1>7. QED
  BY <1>1, <1>2, <1>3, <1>4, <1>5, <1>6 DEF MediaInv

-----------------------------------------------------------------------------
(* Requests that work on one asset. *)

\* What the invariant says of the asset of one request.
LEMMA OwnAsset ==
  ASSUME MediaInv, NEW r \in Req, NEW b, req[r].asset = b, b # None
  PROVE  /\ b \in Asset
         /\ b \notin clashed =>
              /\ home[b] # None => home[b] \in volumes
              /\ Steady(b, req[r])
              /\ b \notin cut => Copies(b) = Expected(req[r])
              /\ b \notin doomed => Kept(b)
<1>1. b \in Asset
  BY DEF MediaInv, TypeOK, Request
<1>2. QED
  BY <1>1 DEF MediaInv, Exact

\* A step of a request that works on one asset leaves the invariant true, if the
\* asset is, afterwards, as the request or its end demands.
LEMMA AssetStep ==
  ASSUME MediaInv, NEW r \in Req, NEW b, req[r].asset = b, b # None,
         TypeOK', Known', Shaped(req[r])',
         \A q \in Req \ {r} : req'[q] = req[q],
         volumes \subseteq volumes', clashed \subseteq clashed', cut \subseteq cut', doomed \subseteq doomed',
         req'[r].asset \in {b, None},
         req[r].op # "deleteVolume", req'[r].op # "deleteVolume",
         VolumesOf(req[r])' \cap made \subseteq VolumesOf(req[r]),
         \A a \in Asset \ {b} : home'[a] = home[a] /\ Copies(a)' = Copies(a),
         b \notin clashed' =>
           /\ home'[b] \in VolumesOf(req[r]) \cup {None}
           /\ home'[b] # None => home'[b] \in volumes'
           /\ Steady(b, req[r])'
           /\ b \notin cut' =>
                Copies(b)' = IF req'[r].asset # None THEN Expected(req[r])'
                             ELSE IF home'[b] = None THEN {} ELSE {Place[home'[b]]}
           /\ b \notin doomed' =>
                /\ home'[b] # None => Copies(b)' # {}
                /\ req'[r].asset # None /\ req'[r].pc \in {"record", "dropFrom"} =>
                     Place[req'[r].to] \in Copies(b)'
  PROVE  MediaInv'
<1>1. b \in Asset
  BY DEF MediaInv, TypeOK, Request
<1>2. \A q \in Req : Shaped(req[q])'
  BY DEF MediaInv
<1>3. req[r].todo = {} /\ req'[r].todo = {}
  BY DEF MediaInv, Shaped
<1>4. ASSUME NEW q \in Req, req[q].op = "deleteVolume"
      PROVE  req[q].from \in made /\ (b \notin clashed => req[q].from \notin VolumesOf(req[r]) /\ b \notin req[q].todo)
  <2>1. Shaped(req[q]) /\ q # r
    BY <1>4 DEF MediaInv
  <2>2. req[q].from \in Volume
    BY <1>4, <2>1 DEF Shaped
  <2>3. req[q].from \in VolumesOf(req[q])
    BY <2>2, Identities DEF VolumesOf
  <2>4. b \notin clashed => Apart(b, req[r], req[q])
    BY <1>1, <2>1 DEF MediaInv
  <2>5. QED
    BY <1>4, <2>3, <2>4 DEF MediaInv, Known, Apart
<1>5. ASSUME NEW a \in Asset \ clashed', NEW s \in Req, NEW q \in Req \ {s}
      PROVE  Apart(a, req[s], req[q])'
  <2>1. Apart(a, req[s], req[q]) /\ a # None
    BY <1>5, Identities DEF MediaInv
  <2>2. CASE s = r
    <3>1. q # r /\ req'[q] = req[q]
      BY <2>2
    <3>2. req'[r].asset = a => a = b
      BY <2>1
    <3>3. req[q].op = "deleteVolume" => req[q].from \in made
      BY <1>4
    <3>4. QED
      BY <2>1, <2>2, <3>1, <3>2, <3>3 DEF Apart
  <2>3. CASE s # r /\ q = r
    <3>1. req'[s] = req[s]
      BY <2>3
    <3>2. QED
      BY <1>3, <2>1, <2>3, <3>1 DEF Apart
  <2>4. CASE s # r /\ q # r
    BY <2>1, <2>4 DEF Apart, VolumesOf
  <2>5. QED
    BY <2>2, <2>3, <2>4
<1>6. ASSUME NEW a \in Asset \ clashed', NEW q \in Req
      PROVE  Steady(a, req[q])'
  <2>1. Steady(a, req[q]) /\ a # None /\ Shaped(req[q])
    BY <1>6, Identities DEF MediaInv
  <2>2. CASE a = b /\ q = r
    BY <2>2
  <2>3. CASE a # b /\ q = r
    <3>1. req'[r].asset # a
      BY <2>1, <2>3
    <3>2. req'[r].pc # "dropVolume"
      BY DEF Shaped
    <3>3. QED
      BY <1>3, <2>3, <3>1, <3>2 DEF Steady
  <2>4. CASE a # b /\ q # r
    <3>1. req'[q] = req[q] /\ home'[a] = home[a]
      BY <2>4
    <3>2. QED
      BY <2>1, <3>1 DEF Steady
  <2>5. CASE a = b /\ q # r
    <3>1. req'[q] = req[q]
      BY <2>5
    <3>2. req[q].asset # b
      BY <1>5, <1>6, <2>5 DEF MediaInv, Apart
    <3>3. req[q].pc = "dropVolume" => req[q].op = "deleteVolume" /\ req[q].from # None
      BY <2>1, Identities DEF Shaped
    <3>4. req[q].pc = "dropVolume" => home'[a] # req[q].from
      BY <1>4, <2>5, <3>3
    <3>5. a \notin req[q].todo
      BY <1>4, <2>1, <2>5 DEF Shaped
    <3>6. QED
      BY <2>5, <3>1, <3>2, <3>4, <3>5 DEF Steady
  <2>6. QED
    BY <2>2, <2>3, <2>4, <2>5
<1>7. ASSUME NEW a \in Asset \ clashed', NEW q \in Req \ {r}
      PROVE  Wiped(a, req[q])' <=> a # b /\ Wiped(a, req[q])
  <2>1. req'[q] = req[q] /\ Shaped(req[q])
    BY DEF MediaInv
  <2>2. CASE a # b
    BY <2>1, <2>2 DEF Wiped
  <2>3. CASE a = b
    <3>1. req[q].pc = "wipe" => req[q].op = "deleteVolume" /\ req[q].from # None
      BY <2>1, Identities DEF Shaped
    <3>2. QED
      BY <1>4, <2>1, <2>3, <3>1 DEF Wiped
  <2>4. QED
    BY <2>2, <2>3
<1>8. \A a \in Asset : ~Wiped(a, req[r]) /\ ~Wiped(a, req[r])'
  BY DEF MediaInv, Shaped, Wiped
<1>9. ASSUME NEW a \in Asset \ clashed', a \notin cut'
      PROVE  Exact(a)'
  <2>1. Exact(a) /\ a # None
    BY <1>9, Identities DEF MediaInv
  <2>2. CASE a = b
    <3>1. \A q \in Req \ {r} : req'[q].asset # a
      BY <1>5, <2>2 DEF MediaInv, Apart
    <3>2. \A q \in Req : ~Wiped(a, req[q])'
      BY <1>7, <1>8, <2>2
    <3>3. QED
      BY <1>9, <2>1, <2>2, <3>1, <3>2 DEF Exact
  <2>3. CASE a # b
    <3>1. home'[a] = home[a] /\ Copies(a)' = Copies(a) /\ req'[r].asset # a /\ req[r].asset # a
      BY <2>1, <2>3
    <3>2. \A q \in Req : Wiped(a, req[q])' <=> Wiped(a, req[q])
      BY <1>7, <1>8, <2>3
    <3>3. \A q \in Req : req'[q].asset = a => q # r /\ req'[q] = req[q]
      BY <3>1
    <3>4. \A q \in Req : req'[q].asset = a <=> req[q].asset = a
      BY <3>1
    <3>5. \A q \in Req : req'[q].asset = a => Copies(a)' = Expected(req[q])'
      BY <2>1, <3>1, <3>3 DEF Exact, Expected
    <3>6. QED
      BY <2>1, <3>1, <3>2, <3>4, <3>5 DEF Exact
  <2>4. QED
    BY <2>2, <2>3
<1>10. ASSUME NEW a \in Asset \ clashed', a \notin doomed'
       PROVE  Kept(a)'
  <2>1. Kept(a) /\ a # None
    BY <1>10, Identities DEF MediaInv
  <2>2. CASE a = b
    <3>1. \A q \in Req \ {r} : req'[q].asset # a
      BY <1>5, <2>2 DEF MediaInv, Apart
    <3>2. QED
      BY <1>10, <2>1, <2>2, <3>1 DEF Kept
  <2>3. CASE a # b
    <3>1. home'[a] = home[a] /\ Copies(a)' = Copies(a) /\ req'[r].asset # a
      BY <2>1, <2>3
    <3>2. \A q \in Req : req'[q].asset = a => req'[q] = req[q]
      BY <3>1
    <3>3. QED
      BY <2>1, <3>1, <3>2 DEF Kept
  <2>4. QED
    BY <2>2, <2>3
<1>11. \A a \in Asset \ clashed' : home'[a] # None => home'[a] \in volumes'
  <2>1. \A a \in Asset \ clashed' : a # b => home'[a] = home[a]
    OBVIOUS
  <2>2. QED
    BY <2>1 DEF MediaInv
<1>12. QED
  BY <1>2, <1>5, <1>6, <1>9, <1>10, <1>11 DEF MediaInv

LEMMA Going ==
  ASSUME TypeOK, NEW r \in Req, NEW pc, Goto(r, pc),
         pc \in {"put", "record", "charge", "target", "get", "putTo", "dropFrom", "discharge",
                 "rehome", "erase", "forget", "dropVolume"}
  PROVE  /\ req' \in [Req -> Request]
         /\ \A q \in Req \ {r} : req'[q] = req[q]
         /\ req'[r].pc = pc /\ req'[r].op = req[r].op /\ req'[r].asset = req[r].asset
         /\ req'[r].from = req[r].from /\ req'[r].to = req[r].to /\ req'[r].todo = req[r].todo
<1> DEFINE s == [req[r] EXCEPT !.pc = pc]
<1>1. s \in Request /\ s.pc = pc /\ s.op = req[r].op /\ s.asset = req[r].asset
      /\ s.from = req[r].from /\ s.to = req[r].to /\ s.todo = req[r].todo
  BY DEF TypeOK, Request
<1>2. req' = [req EXCEPT ![r] = s]
  BY DEF Goto, TypeOK
<1> HIDE DEF s
<1>3. QED
  BY <1>1, <1>2 DEF TypeOK

LEMMA IdleRequest ==
  /\ Idle \in Request /\ Shaped(Idle) /\ VolumesOf(Idle) = {} /\ Expected(Idle) = {}
  /\ Idle.pc = "idle" /\ Idle.op = "none" /\ Idle.asset = None /\ Idle.from = None /\ Idle.to = None /\ Idle.todo = {}
BY DEF Idle, Request, Shaped, VolumesOf, Expected

LEMMA Finishing ==
  ASSUME TypeOK, NEW r \in Req, Finish(r)
  PROVE  req' \in [Req -> Request] /\ req'[r] = Idle /\ \A q \in Req \ {r} : req'[q] = req[q]
BY IdleRequest DEF TypeOK, Finish

\* A request goes on, or ends; no identity is given out.
LEMMA KnownKept ==
  ASSUME MediaInv, NEW r \in Req,
         \A q \in Req \ {r} : req'[q] = req[q],
         \/ req'[r] = Idle
         \/ /\ req'[r].op = req[r].op /\ req'[r].asset = req[r].asset /\ req'[r].from = req[r].from
            /\ req'[r].to = req[r].to /\ req'[r].todo \subseteq req[r].todo,
         volumes' \subseteq volumes, made' = made, doomed' = doomed,
         \A a \in Asset : home'[a] \in made \cup {None},
         \A a \in Asset \ made : home'[a] = None /\ Copies(a)' = {}
  PROVE  Known'
<1>1. Known
  BY DEF MediaInv
<1>2. ASSUME NEW q \in Req
      PROVE  /\ VolumesOf(req[q])' \subseteq made
             /\ req'[q].asset # None => req'[q].asset \in made
             /\ req'[q].todo \subseteq made \cap doomed
             /\ req'[q].op = "remove" => req'[q].asset \in doomed
  <2>1. CASE req'[q] = req[q]
    BY <1>1, <2>1 DEF Known, VolumesOf
  <2>2. CASE q = r /\ req'[r] = Idle
    BY <2>2, IdleRequest DEF VolumesOf
  <2>3. CASE q = r /\ req'[r] # Idle
    BY <1>1, <2>3 DEF Known, VolumesOf
  <2>4. QED
    BY <2>1, <2>2, <2>3
<1>3. QED
  BY <1>1, <1>2 DEF Known

\* A request that only looks.
LEMMA LookKeeps ==
  ASSUME MediaInv, NEW r \in Req, NEW b, req[r].asset = b, b # None,
         req' \in [Req -> Request], \A q \in Req \ {r} : req'[q] = req[q], Shaped(req[r])',
         UNCHANGED <<stores, ghosts, bounds>>,
         req[r].op # "deleteVolume",
         \/ /\ req'[r] = Idle
            /\ b \notin clashed => home[b] = req[r].from /\ Expected(req[r]) = {Place[req[r].from]} /\ req[r].from \in Volume
         \/ /\ req'[r].op = req[r].op /\ req'[r].asset = req[r].asset /\ req'[r].from = req[r].from
            /\ req'[r].to = req[r].to /\ req'[r].todo = req[r].todo
            /\ req'[r].pc \notin {"record", "dropFrom"}
            /\ b \notin clashed => Steady(b, req[r])' /\ Expected(req[r])' = Expected(req[r])
  PROVE  MediaInv'
<1>1. UNCHANGED <<volumes, used, home, bytes, made, clashed, doomed, cut, started, faults>>
  BY DEF stores, ghosts, bounds
<1>2. TypeOK'
  BY <1>1 DEF MediaInv, TypeOK
<1>3. \A a : Copies(a)' = Copies(a)
  BY <1>1 DEF Copies
<1>4. Known'
  <2>1. /\ \A a \in Asset : home'[a] \in made \cup {None}
        /\ \A a \in Asset \ made : home'[a] = None /\ Copies(a)' = {}
    BY <1>1, <1>3 DEF MediaInv, Known
  <2>2. QED
    BY <1>1, <2>1, KnownKept
<1>5. /\ b \in Asset
      /\ b \notin clashed =>
           /\ home[b] # None => home[b] \in volumes
           /\ Steady(b, req[r])
           /\ b \notin cut => Copies(b) = Expected(req[r])
           /\ b \notin doomed => Kept(b)
  BY OwnAsset
<1>6. CASE req'[r] = Idle
  <2>1. Steady(b, req[r])'
    BY <1>5, <1>6, IdleRequest DEF Steady
  <2>2. VolumesOf(req[r])' = {}
    BY <1>6, IdleRequest DEF VolumesOf
  <2>3. b \notin clashed => home[b] \in VolumesOf(req[r]) \cup {None}
    BY <1>6, IdleRequest DEF VolumesOf
  <2>4. b \notin clashed =>
          /\ b \notin cut => Copies(b)' = IF home'[b] = None THEN {} ELSE {Place[home'[b]]}
          /\ b \notin doomed /\ home'[b] # None => Copies(b)' # {}
    BY <1>1, <1>3, <1>5, <1>6, Identities, IdleRequest DEF Kept
  <2>5. QED
    BY <1>1, <1>2, <1>3, <1>4, <1>5, <1>6, <2>1, <2>2, <2>3, <2>4, IdleRequest, AssetStep
<1>7. CASE req'[r] # Idle
  <2>1. VolumesOf(req[r])' = VolumesOf(req[r])
    BY <1>7 DEF VolumesOf
  <2>2. b \notin clashed => home[b] \in VolumesOf(req[r]) \cup {None}
    BY <1>5 DEF MediaInv, Steady, Shaped, VolumesOf
  <2>3. b \notin clashed =>
          /\ b \notin cut => Copies(b)' = Expected(req[r])'
          /\ b \notin doomed /\ home'[b] # None => Copies(b)' # {}
    BY <1>1, <1>3, <1>5, <1>7 DEF Kept
  <2>4. QED
    BY <1>1, <1>2, <1>3, <1>4, <1>5, <1>7, <2>1, <2>2, <2>3, AssetStep
<1>8. QED
  BY <1>6, <1>7

LEMMA AwaitsOfAsset ==
  ASSUME MediaInv, NEW r \in Req,
         req[r].pc \in {"ensure", "put", "record", "charge", "source", "target", "get", "putTo",
                        "dropFrom", "discharge", "rehome", "erase", "forget"}
  PROVE  req[r].asset # None /\ req[r].op # "deleteVolume"
<1>1. Shaped(req[r])
  BY DEF MediaInv
<1>2. QED
  BY <1>1, Identities DEF Shaped

LEMMA LooksKeep ==
  ASSUME MediaInv, NEW r \in Req, FindSource(r) \/ FindTarget(r) \/ GetBytes(r)
  PROVE  MediaInv'
<1>1. UNCHANGED <<stores, ghosts, bounds>> /\ req[r].pc \in {"source", "target", "get"}
  BY DEF FindSource, FindTarget, GetBytes, At
<1>2. TypeOK /\ Shaped(req[r])
  BY DEF MediaInv
<1>3. PICK b : req[r].asset = b
  OBVIOUS
<1>4. b # None /\ req[r].op # "deleteVolume"
  BY <1>1, <1>3, AwaitsOfAsset
<1>5. /\ b \notin clashed =>
           /\ home[b] # None => home[b] \in volumes
           /\ Steady(b, req[r])
  BY <1>3, <1>4, OwnAsset
<1>6. req[r].op \in {"move", "remove"} /\ req[r].from \in Volume /\ req[r].from # None
  BY <1>1, <1>2, Identities DEF Shaped
<1>7. b \notin clashed => home[b] = req[r].from /\ req[r].from \in volumes /\ Expected(req[r]) = {Place[req[r].from]}
  BY <1>1, <1>3, <1>5, <1>6, Identities DEF Steady, Expected
<1>8. CASE Finish(r)
  <2>1. req' \in [Req -> Request] /\ req'[r] = Idle /\ \A q \in Req \ {r} : req'[q] = req[q]
    BY <1>2, <1>8, Finishing
  <2>2. QED
    BY <1>1, <1>3, <1>4, <1>6, <1>7, <2>1, IdleRequest, LookKeeps
<1>9. ASSUME NEW pc, Goto(r, pc),
             \/ pc = "target" /\ req[r].op = "move" /\ req[r].pc = "source"
             \/ pc = "erase" /\ req[r].op = "remove" /\ req[r].pc = "source"
             \/ pc = "forget" /\ req[r].op = "remove" /\ req[r].pc = "source" /\ req[r].from \notin volumes
             \/ pc = "get" /\ req[r].op = "move" /\ req[r].pc = "target" /\ req[r].to \in volumes
             \/ pc = "putTo" /\ req[r].op = "move" /\ req[r].pc = "get"
      PROVE  MediaInv'
  <2>1. /\ req' \in [Req -> Request]
        /\ \A q \in Req \ {r} : req'[q] = req[q]
        /\ req'[r].pc = pc /\ req'[r].op = req[r].op /\ req'[r].asset = req[r].asset
        /\ req'[r].from = req[r].from /\ req'[r].to = req[r].to /\ req'[r].todo = req[r].todo
    BY <1>2, <1>9, Going
  <2>2. Shaped(req[r])'
    BY <1>2, <1>9, <2>1 DEF Shaped
  <2>3. UNCHANGED <<home, volumes>>
    BY <1>1 DEF stores
  <2>4. b \notin clashed => Steady(b, req[r])'
    <3>1. req[r].op = "remove" => req[r].to = None
      BY <1>2 DEF Shaped
    <3>2. QED
      BY <1>3, <1>5, <1>7, <1>9, <2>1, <2>3, <3>1 DEF Steady
  <2>5. b \notin clashed => Expected(req[r])' = Expected(req[r])
    BY <1>7, <1>9, <2>1 DEF Expected
  <2>6. QED
    BY <1>1, <1>3, <1>4, <1>9, <2>1, <2>2, <2>4, <2>5, LookKeeps
<1>10. CASE FindSource(r)
  <2>1. req[r].op # "move" => req[r].op = "remove"
    BY <1>6
  <2>2. QED
    BY <1>8, <1>9, <1>10, <2>1 DEF FindSource, At
<1>11. CASE FindTarget(r)
  <2>1. req[r].op = "move"
    BY <1>2, <1>11 DEF FindTarget, At, Shaped
  <2>2. QED
    BY <1>8, <1>9, <1>11, <2>1 DEF FindTarget, At
<1>12. CASE GetBytes(r)
  <2>1. req[r].op = "move"
    BY <1>2, <1>12 DEF GetBytes, At, Shaped
  <2>2. QED
    BY <1>8, <1>9, <1>12, <2>1 DEF GetBytes, At
<1>13. QED
  BY <1>10, <1>11, <1>12

\* A request that goes on at pc and changes what is stored of its asset only.
LEMMA WorkKeeps ==
  ASSUME MediaInv, NEW r \in Req, NEW b, req[r].asset = b, b # None, NEW pc, Goto(r, pc),
         pc \in {"record", "charge", "dropFrom", "discharge", "rehome", "forget"},
         Shaped(req[r])', req[r].op # "deleteVolume",
         UNCHANGED <<volumes, made, doomed, started>>,
         clashed \subseteq clashed', cut \subseteq cut', clashed' \subseteq Asset, cut' \subseteq Asset \cup Volume,
         faults' \in Nat, bytes' \subseteq Places \X Asset,
         used' \in [Volume -> Int], home' \in [Asset -> Volume \cup {None}], home'[b] \in {home[b], req[r].to, None},
         \A a \in Asset \ {b} : home'[a] = home[a] /\ Copies(a)' = Copies(a),
         b \notin clashed' =>
           /\ home'[b] # None => home'[b] \in volumes
           /\ Steady(b, req[r])'
           /\ b \notin cut' => Copies(b)' = Expected(req[r])'
           /\ b \notin doomed =>
                /\ home'[b] # None => Copies(b)' # {}
                /\ pc \in {"record", "dropFrom"} => Place[req[r].to] \in Copies(b)'
  PROVE  MediaInv'
<1>1. /\ req' \in [Req -> Request]
      /\ \A q \in Req \ {r} : req'[q] = req[q]
      /\ req'[r].pc = pc /\ req'[r].op = req[r].op /\ req'[r].asset = req[r].asset
      /\ req'[r].from = req[r].from /\ req'[r].to = req[r].to /\ req'[r].todo = req[r].todo
  BY Going DEF MediaInv
<1>2. TypeOK'
  BY <1>1 DEF MediaInv, TypeOK
<1>3. b \in made /\ \A a \in Asset \ made : home[a] = None /\ Copies(a) = {}
  BY DEF MediaInv, Known
<1>4. Known'
  <2>1. \A a \in Asset \ made : home'[a] = None /\ Copies(a)' = {}
    BY <1>3
  <2>3. \A a \in Asset : home'[a] \in made \cup {None}
    <3>1. req[r].to \in made \cup {None} /\ \A a \in Asset : home[a] \in made \cup {None}
      BY DEF MediaInv, Known, VolumesOf
    <3>2. QED
      BY <3>1
  <2>2. QED
    BY <1>1, <2>1, <2>3, KnownKept
<1>5. VolumesOf(req[r])' = VolumesOf(req[r])
  BY <1>1 DEF VolumesOf
<1>6. b \notin clashed' => home'[b] \in VolumesOf(req[r]) \cup {None}
  <2>1. Shaped(req[r])
    BY DEF MediaInv
  <2>2. QED
    BY <1>1, <2>1 DEF Steady, VolumesOf, Shaped
<1>7. QED
  BY <1>1, <1>2, <1>4, <1>5, <1>6, AssetStep

\* bumpUsage counts in integers.
LEMMA BumpType ==
  ASSUME TypeOK, NEW v \in Volume, NEW d \in Int, Bump(v, d)
  PROVE  used' \in [Volume -> Int]
BY DEF TypeOK, Bump

LEMMA PutCopies ==
  ASSUME NEW v \in Volume, NEW a, Put(v, a)
  PROVE  /\ Copies(a)' = Copies(a) \cup {Place[v]}
         /\ \A c : c # a => Copies(c)' = Copies(c)
BY Identities DEF Put, Copies

LEMMA DeleteCopies ==
  ASSUME MediaInv, NEW v \in Volume, NEW a \in Asset, Delete(v, a)
  PROVE  /\ \A c : c # a => Copies(c)' = Copies(c)
         /\ \/ a \in cut' /\ Copies(a)' = Copies(a)
            \/ Copies(a)' = Copies(a) \ {Place[v]}
         /\ cut \subseteq cut' /\ cut' \subseteq Asset \cup Volume /\ faults' \in Nat
         /\ bytes' \subseteq Places \X Asset
<1>1. TypeOK
  BY DEF MediaInv
<1>2. QED
  BY <1>1 DEF Delete, Copies, TypeOK

LEMMA UploadsKeep ==
  ASSUME MediaInv, NEW r \in Req, PutUpload(r) \/ RecordAsset(r)
  PROVE  MediaInv'
<1>1. UNCHANGED <<volumes, used, ghosts, bounds>> /\ req[r].pc \in {"put", "record"}
  BY DEF PutUpload, RecordAsset, At
<1>2. UNCHANGED <<made, clashed, doomed, cut, started, faults>>
  BY <1>1 DEF ghosts, bounds
<1>3. TypeOK /\ Shaped(req[r])
  BY DEF MediaInv
<1>4. req[r].op = "upload" /\ req[r].asset \in Asset /\ req[r].to \in Volume /\ req[r].from = None
  BY <1>1, <1>3 DEF Shaped
<1>5. PICK b : req[r].asset = b
  OBVIOUS
<1>6. b # None /\ b \in Asset /\ req[r].to # None
  BY <1>4, <1>5, Identities
<1>7. b \notin clashed =>
           /\ Steady(b, req[r])
           /\ b \notin cut => Copies(b) = Expected(req[r])
           /\ b \notin doomed => Kept(b)
  BY <1>5, <1>6, OwnAsset
<1>8. b \notin clashed => home[b] = None /\ req[r].to \in volumes
  BY <1>1, <1>4, <1>5, <1>6, <1>7 DEF Steady
<1>9. CASE PutUpload(r)
  <2>1. Goto(r, "record") /\ Put(req[r].to, b) /\ UNCHANGED <<volumes, used, home>> /\ req[r].pc = "put"
    BY <1>5, <1>9 DEF PutUpload, At
  <2>2. Copies(b)' = Copies(b) \cup {Place[req[r].to]} /\ \A c : c # b => Copies(c)' = Copies(c)
    BY <1>4, <2>1, PutCopies
  <2>3. bytes' \subseteq Places \X Asset
    BY <1>3, <1>4, <1>6, <2>1, Identities DEF Put, TypeOK
  <2>4. req'[r].pc = "record" /\ req'[r].op = "upload" /\ req'[r].asset = b /\ req'[r].from = None
        /\ req'[r].to = req[r].to /\ req'[r].todo = req[r].todo
    BY <1>3, <1>4, <1>5, <2>1, Going
  <2>5. Shaped(req[r])'
    BY <1>3, <1>4, <1>6, <2>4 DEF Shaped
  <2>6. b \notin clashed => Steady(b, req[r])'
    BY <1>3, <1>4, <1>8, <2>1, <2>4 DEF Steady, Shaped
  <2>7. b \notin clashed /\ b \notin cut => Copies(b)' = Expected(req[r])'
    <3>1. Expected(req[r]) = {}
      BY <1>4, <2>1 DEF Expected
    <3>2. Expected(req[r])' = {Place[req[r].to]}
      BY <1>4, <2>4, Identities DEF Expected
    <3>3. QED
      BY <1>7, <2>2, <3>1, <3>2
  <2>8. QED
    BY <1>2, <1>3, <1>4, <1>5, <1>6, <1>8, <2>1, <2>2, <2>3, <2>5, <2>6, <2>7, WorkKeeps DEF TypeOK
<1>10. CASE RecordAsset(r)
  <2>1. Goto(r, "charge") /\ home' = [home EXCEPT ![b] = req[r].to] /\ UNCHANGED <<volumes, used, bytes>> /\ req[r].pc = "record"
    BY <1>5, <1>10 DEF RecordAsset, At
  <2>2. \A c : Copies(c)' = Copies(c)
    BY <2>1 DEF Copies
  <2>3. req'[r].pc = "charge" /\ req'[r].op = "upload" /\ req'[r].asset = b /\ req'[r].from = None
        /\ req'[r].to = req[r].to /\ req'[r].todo = req[r].todo
    BY <1>3, <1>4, <1>5, <2>1, Going
  <2>4. home' \in [Asset -> Volume \cup {None}] /\ home'[b] = req[r].to /\ \A a \in Asset \ {b} : home'[a] = home[a]
    BY <1>3, <1>4, <1>6, <2>1 DEF TypeOK
  <2>5. Shaped(req[r])'
    BY <1>3, <1>4, <1>6, <2>3 DEF Shaped
  <2>6. b \notin clashed => Steady(b, req[r])'
    BY <1>3, <1>4, <1>8, <2>1, <2>3, <2>4 DEF Steady, Shaped
  <2>7. Expected(req[r])' = Expected(req[r])
    BY <1>4, <2>1, <2>3 DEF Expected
  <2>8. b \notin clashed /\ b \notin doomed => Copies(b)' # {}
    BY <1>5, <1>7, <2>1, <2>2 DEF Kept
  <2>9. QED
    BY SMTT(30), <1>2, <1>3, <1>4, <1>5, <1>6, <1>7, <1>8, <2>1, <2>2, <2>4, <2>5, <2>6, <2>7, <2>8, WorkKeeps DEF TypeOK
<1>11. QED
  BY <1>9, <1>10

LEMMA MovesKeep ==
  ASSUME MediaInv, NEW r \in Req, PutTarget(r) \/ DropSource(r) \/ EraseBytes(r)
  PROVE  MediaInv'
<1>1. UNCHANGED <<volumes, used, home, made, doomed, started>> /\ req[r].pc \in {"putTo", "dropFrom", "erase"}
  BY DEF PutTarget, DropSource, EraseBytes, At, ghosts, bounds
<1>2. TypeOK /\ Shaped(req[r])
  BY DEF MediaInv
<1>3. /\ req[r].op \in {"move", "remove"} /\ req[r].asset \in Asset /\ req[r].from \in Volume
      /\ req[r].op = "move" <=> req[r].pc \in {"putTo", "dropFrom"}
      /\ req[r].op = "move" => req[r].to \in Volume
      /\ req[r].op = "remove" => req[r].to = None
  BY <1>1, <1>2 DEF Shaped
<1>4. PICK b : req[r].asset = b
  OBVIOUS
<1>5. b # None /\ b \in Asset /\ req[r].from # None
  BY <1>3, <1>4, Identities
<1>6. b \notin clashed =>
           /\ home[b] # None => home[b] \in volumes
           /\ Steady(b, req[r])
           /\ b \notin cut => Copies(b) = Expected(req[r])
           /\ b \notin doomed => Kept(b)
  BY <1>4, <1>5, OwnAsset
<1>7. b \notin clashed => /\ home[b] = req[r].from /\ home[b] \in volumes
                          /\ req[r].op = "move" => req[r].to \in volumes
  BY <1>1, <1>3, <1>4, <1>5, <1>6, Identities DEF Steady
<1>8. CASE PutTarget(r)
  <2>1. Goto(r, "dropFrom") /\ Put(req[r].to, b) /\ UNCHANGED <<clashed, cut, faults>> /\ req[r].pc = "putTo"
    BY <1>4, <1>8 DEF PutTarget, At, ghosts, bounds
  <2>2. Copies(b)' = Copies(b) \cup {Place[req[r].to]} /\ \A c : c # b => Copies(c)' = Copies(c)
    BY <1>3, <2>1, PutCopies
  <2>3. bytes' \subseteq Places \X Asset
    BY <1>2, <1>3, <1>5, <2>1, Identities DEF Put, TypeOK
  <2>4. req'[r].pc = "dropFrom" /\ req'[r].op = "move" /\ req'[r].asset = b /\ req'[r].from = req[r].from
        /\ req'[r].to = req[r].to /\ req'[r].todo = req[r].todo
    BY <1>2, <1>3, <1>4, <2>1, Going
  <2>5. Shaped(req[r])'
    BY <1>2, <1>3, <1>5, <2>1, <2>4 DEF Shaped
  <2>6. b \notin clashed => Steady(b, req[r])'
    BY <1>1, <1>2, <1>3, <1>7, <2>1, <2>4 DEF Steady, Shaped
  <2>7. b \notin clashed /\ b \notin cut => Copies(b)' = Expected(req[r])'
    <3>1. Expected(req[r]) = {Place[req[r].from]}
      BY <1>3, <2>1, Identities DEF Expected
    <3>2. Expected(req[r])' = {Place[req[r].from], Place[req[r].to]}
      BY <1>3, <2>1, <2>4, Identities DEF Expected
    <3>3. QED
      BY <1>6, <2>2, <3>1, <3>2
  <2>8. QED
    BY <1>1, <1>2, <1>3, <1>4, <1>5, <1>7, <2>1, <2>2, <2>3, <2>5, <2>6, <2>7, WorkKeeps DEF TypeOK
<1>9. CASE DropSource(r) \/ EraseBytes(r)
  <2>1. /\ Goto(r, "discharge") /\ Delete(req[r].from, b) /\ req[r].pc \in {"dropFrom", "erase"}
        /\ clashed \subseteq clashed' /\ clashed' \subseteq Asset
        /\ b \notin clashed' /\ req[r].op = "move" => Place[req[r].from] # Place[req[r].to]
    BY <1>2, <1>3, <1>4, <1>5, <1>9 DEF DropSource, EraseBytes, At, TypeOK
  <2>2. /\ \A c : c # b => Copies(c)' = Copies(c)
        /\ \/ b \in cut' /\ Copies(b)' = Copies(b)
           \/ Copies(b)' = Copies(b) \ {Place[req[r].from]}
        /\ cut \subseteq cut' /\ cut' \subseteq Asset \cup Volume /\ faults' \in Nat
        /\ bytes' \subseteq Places \X Asset
    BY <1>3, <1>5, <2>1, DeleteCopies
  <2>3. req'[r].pc = "discharge" /\ req'[r].op = req[r].op /\ req'[r].asset = b /\ req'[r].from = req[r].from
        /\ req'[r].to = req[r].to /\ req'[r].todo = req[r].todo
    BY <1>2, <1>4, <2>1, Going
  <2>4. Shaped(req[r])'
    BY <1>2, <1>3, <1>5, <2>3 DEF Shaped
  <2>5. b \notin clashed' => Steady(b, req[r])'
    BY <1>1, <1>2, <1>3, <1>7, <2>1, <2>3 DEF Steady, Shaped
  <2>6. b \notin clashed' /\ b \notin cut' => Copies(b)' = Expected(req[r])'
    <3>1. CASE req[r].op = "move"
      <4>1. Expected(req[r]) = {Place[req[r].from], Place[req[r].to]}
        BY <1>3, <2>1, <3>1, Identities DEF Expected
      <4>2. Expected(req[r])' = {Place[req[r].to]}
        BY <1>3, <2>3, <3>1, Identities DEF Expected
      <4>3. QED
        BY <1>6, <2>1, <2>2, <3>1, <4>1, <4>2
    <3>2. CASE req[r].op = "remove"
      <4>1. Expected(req[r]) = {Place[req[r].from]}
        BY <1>3, <2>1, <3>2, Identities DEF Expected
      <4>2. Expected(req[r])' = {}
        BY <2>3, <3>2 DEF Expected
      <4>3. QED
        BY <1>6, <2>1, <2>2, <4>1, <4>2
    <3>3. QED
      BY <1>3, <3>1, <3>2
  <2>7. b \notin clashed' /\ b \notin doomed => Copies(b)' # {}
    <3>1. req[r].op = "remove" => b \in doomed
      BY <1>4 DEF MediaInv, Known
    <3>2. req[r].op = "move" /\ b \notin clashed' /\ b \notin doomed => Place[req[r].to] \in Copies(b)
      BY <1>3, <1>4, <1>6, <2>1 DEF Kept
    <3>3. QED
      BY <1>3, <2>1, <2>2, <3>1, <3>2
  <2>8. QED
    BY <1>1, <1>2, <1>3, <1>4, <1>5, <1>7, <2>1, <2>2, <2>4, <2>5, <2>6, <2>7, WorkKeeps DEF TypeOK
<1>10. QED
  BY <1>8, <1>9

\* A request that works on one asset ends.
LEMMA EndKeeps ==
  ASSUME MediaInv, NEW r \in Req, NEW b, req[r].asset = b, b # None, Finish(r),
         req[r].op # "deleteVolume",
         UNCHANGED <<volumes, bytes, clashed, made, doomed, started>>,
         cut \subseteq cut', cut' \subseteq Asset \cup Volume, faults' \in Nat,
         used' \in [Volume -> Int], home' \in [Asset -> Volume \cup {None}], home'[b] \in {home[b], req[r].to, None},
         \A a \in Asset \ {b} : home'[a] = home[a],
         b \notin clashed =>
           /\ home'[b] \in VolumesOf(req[r]) \cup {None}
           /\ home'[b] # None => home'[b] \in volumes
           /\ b \notin cut' => Copies(b) = IF home'[b] = None THEN {} ELSE {Place[home'[b]]}
           /\ b \notin doomed /\ home'[b] # None => Copies(b) # {}
  PROVE  MediaInv'
<1>1. req' \in [Req -> Request] /\ req'[r] = Idle /\ \A q \in Req \ {r} : req'[q] = req[q]
  BY Finishing DEF MediaInv
<1>2. TypeOK'
  BY <1>1 DEF MediaInv, TypeOK
<1>3. \A a : Copies(a)' = Copies(a)
  BY DEF Copies
<1>4. b \in made /\ \A a \in Asset \ made : home[a] = None /\ Copies(a) = {}
  BY DEF MediaInv, Known
<1>5. Known'
  <2>1. \A a \in Asset \ made : home'[a] = None /\ Copies(a)' = {}
    BY <1>3, <1>4
  <2>3. \A a \in Asset : home'[a] \in made \cup {None}
    <3>1. req[r].to \in made \cup {None} /\ \A a \in Asset : home[a] \in made \cup {None}
      BY DEF MediaInv, Known, VolumesOf
    <3>2. QED
      BY <3>1
  <2>2. QED
    BY <1>1, <2>1, <2>3, KnownKept
<1>6. VolumesOf(req[r])' = {} /\ Shaped(req[r])' /\ Steady(b, req[r])'
  BY <1>1, IdleRequest DEF VolumesOf, Steady
<1>7. QED
  BY <1>1, <1>2, <1>3, <1>5, <1>6, IdleRequest, AssetStep

LEMMA AccountsKeep ==
  ASSUME MediaInv, NEW r \in Req, Charge(r) \/ Discharge(r)
  PROVE  MediaInv'
<1>1. UNCHANGED <<volumes, home, bytes, made, clashed, doomed, cut, started, faults>>
  BY DEF Charge, Discharge, ghosts, bounds
<1>2. TypeOK /\ Shaped(req[r]) /\ req[r].pc \in {"charge", "discharge"}
  BY DEF MediaInv, Charge, Discharge, At
<1>3. PICK b : req[r].asset = b
  OBVIOUS
<1>4. b \in Asset /\ b # None /\ req[r].op # "deleteVolume"
  BY <1>2, <1>3, Identities DEF Shaped
<1>5. b \notin clashed =>
           /\ home[b] # None => home[b] \in volumes
           /\ Steady(b, req[r])
           /\ b \notin cut => Copies(b) = Expected(req[r])
           /\ b \notin doomed => Kept(b)
  BY <1>3, <1>4, OwnAsset
<1>6. used' \in [Volume -> Int]
  <2>1. Size[b] \in Int /\ -Size[b] \in Int
    BY <1>4, SizeAssumption
  <2>2. req[r].pc = "charge" => req[r].to \in Volume
    BY <1>2 DEF Shaped
  <2>3. req[r].pc = "discharge" => req[r].from \in Volume
    BY <1>2 DEF Shaped
  <2>4. QED
    BY <1>2, <1>3, <2>1, <2>2, <2>3, BumpType DEF Charge, Discharge, At
<1>7. \A c : Copies(c)' = Copies(c)
  BY <1>1 DEF Copies
<1>8. CASE Charge(r) /\ req[r].op # "move"
  <2>1. req[r].op = "upload" /\ req[r].pc = "charge" /\ req[r].to \in Volume /\ Finish(r)
    BY <1>2, <1>8 DEF Charge, At, Shaped
  <2>2. b \notin clashed => home[b] = req[r].to /\ req[r].to # None
    BY <1>3, <1>4, <1>5, <2>1, Identities DEF Steady
  <2>3. Expected(req[r]) = {Place[req[r].to]}
    BY <2>1, Identities DEF Expected
  <2>4. b \notin clashed => home[b] \in VolumesOf(req[r])
    BY <2>2 DEF VolumesOf
  <2>5. b \notin clashed /\ b \notin doomed /\ home[b] # None => Copies(b) # {}
    BY <1>5 DEF Kept
  <2>6. QED
    BY <1>1, <1>2, <1>3, <1>4, <1>5, <1>6, <2>1, <2>2, <2>3, <2>4, <2>5, EndKeeps DEF TypeOK
<1>9. ASSUME NEW pc, Goto(r, pc),
             \/ pc = "rehome" /\ req[r].pc = "charge" /\ req[r].op = "move"
             \/ pc = "charge" /\ req[r].pc = "discharge" /\ req[r].op = "move"
             \/ pc = "forget" /\ req[r].pc = "discharge" /\ req[r].op = "remove"
      PROVE  MediaInv'
  <2>1. req'[r].pc = pc /\ req'[r].op = req[r].op /\ req'[r].asset = b /\ req'[r].from = req[r].from
        /\ req'[r].to = req[r].to /\ req'[r].todo = req[r].todo
    BY <1>2, <1>3, <1>9, Going
  <2>2. Shaped(req[r])'
    BY <1>2, <1>3, <1>9, <2>1 DEF Shaped
  <2>3. b \notin clashed => Steady(b, req[r])'
    BY <1>1, <1>2, <1>3, <1>5, <1>9, <2>1 DEF Steady, Shaped
  <2>4. Expected(req[r])' = Expected(req[r])
    BY <1>9, <2>1 DEF Expected
  <2>5. b \notin clashed /\ b \notin doomed /\ home[b] # None => Copies(b) # {}
    BY <1>5 DEF Kept
  <2>6. QED
    BY <1>1, <1>2, <1>3, <1>4, <1>5, <1>6, <1>7, <1>9, <2>2, <2>3, <2>4, <2>5, WorkKeeps DEF TypeOK
<1>10. CASE Charge(r) /\ req[r].op = "move"
  BY <1>9, <1>10 DEF Charge, At
<1>11. CASE Discharge(r)
  <2>1. req[r].op # "move" => req[r].op = "remove"
    BY <1>2, <1>11 DEF Discharge, At, Shaped
  <2>2. QED
    BY <1>9, <1>11, <2>1 DEF Discharge, At
<1>12. QED
  BY <1>8, <1>10, <1>11

LEMMA EndsKeep ==
  ASSUME MediaInv, NEW r \in Req, Rehome(r) \/ ForgetAsset(r)
  PROVE  MediaInv'
<1>1. UNCHANGED <<volumes, used, bytes, made, clashed, doomed, cut, started, faults>> /\ Finish(r)
  BY DEF Rehome, ForgetAsset, ghosts, bounds
<1>2. TypeOK /\ Shaped(req[r]) /\ req[r].pc \in {"rehome", "forget"}
  BY DEF MediaInv, Rehome, ForgetAsset, At
<1>3. PICK b : req[r].asset = b
  OBVIOUS
<1>4. /\ b \in Asset /\ b # None /\ req[r].from \in Volume /\ req[r].from # None
      /\ req[r].pc = "rehome" => req[r].op = "move" /\ req[r].to \in Volume /\ req[r].to # None
      /\ req[r].pc = "forget" => req[r].op = "remove"
  BY <1>2, <1>3, Identities DEF Shaped
<1>5. b \notin clashed =>
           /\ Steady(b, req[r])
           /\ b \notin cut => Copies(b) = Expected(req[r])
           /\ b \notin doomed => Kept(b)
  BY <1>3, <1>4, OwnAsset
<1>6. CASE Rehome(r)
  <2>1. req[r].pc = "rehome" /\ home' = IF home[b] = None THEN home ELSE [home EXCEPT ![b] = req[r].to]
    BY <1>3, <1>6 DEF Rehome, At
  <2>2. home' \in [Asset -> Volume \cup {None}] /\ \A a \in Asset \ {b} : home'[a] = home[a]
    BY <1>2, <1>4, <2>1 DEF TypeOK
  <2>3. b \notin clashed => home[b] = req[r].from /\ req[r].to \in volumes
    BY <1>3, <1>4, <1>5, <2>1 DEF Steady
  <2>4. b \notin clashed => home'[b] = req[r].to
    BY <1>2, <1>4, <2>1, <2>3 DEF TypeOK
  <2>5. Expected(req[r]) = {Place[req[r].to]}
    BY <1>4, <2>1, Identities DEF Expected
  <2>6. b \notin clashed => home'[b] \in VolumesOf(req[r])
    BY <1>4, <2>1, <2>4 DEF VolumesOf
  <2>7. b \notin clashed /\ b \notin doomed => Copies(b) # {}
    BY <1>4, <1>5, <2>3 DEF Kept
  <2>8. QED
    BY <1>1, <1>2, <1>3, <1>4, <1>5, <2>1, <2>2, <2>3, <2>4, <2>5, <2>6, <2>7, EndKeeps DEF TypeOK
<1>7. CASE ForgetAsset(r)
  <2>1. req[r].pc = "forget" /\ home' = [home EXCEPT ![b] = None]
    BY <1>3, <1>7 DEF ForgetAsset, At
  <2>2. home' \in [Asset -> Volume \cup {None}] /\ home'[b] = None /\ \A a \in Asset \ {b} : home'[a] = home[a]
    BY <1>2, <1>4, <2>1 DEF TypeOK
  <2>3. Expected(req[r]) = {}
    BY <1>4, <2>1 DEF Expected
  <2>4. QED
    BY <1>1, <1>2, <1>3, <1>4, <1>5, <2>2, <2>3, EndKeeps DEF TypeOK
<1>8. QED
  BY <1>6, <1>7

LEMMA VolumesKeep ==
  ASSUME MediaInv,
         (\E v \in Volume : CreateVolume(v)) \/ (\E r \in Req : EnsureDefaultVolume(r))
  PROVE  MediaInv'
<1>1. TypeOK
  BY DEF MediaInv
<1>2. ASSUME NEW v \in Volume, CreateVolume(v)
      PROVE  MediaInv'
  <2>1. /\ v \notin made /\ made' = made \cup {v} /\ volumes' = volumes \cup {v} /\ used' = [used EXCEPT ![v] = 0]
        /\ UNCHANGED <<home, bytes, req, started, faults, clashed, doomed, cut>>
    BY <1>2 DEF CreateVolume, AddVolume, bounds
  <2>2. \A a : Copies(a)' = Copies(a)
    BY <2>1 DEF Copies
  <2>3. TypeOK'
    BY <1>1, <2>1 DEF TypeOK
  <2>4. Known'
    BY <2>1, <2>2 DEF MediaInv, Known, VolumesOf
  <2>5. \A r \in Req : Shaped(req[r])'
    BY <2>1 DEF MediaInv, Shaped
  <2>6. ASSUME NEW a \in Asset \ clashed
        PROVE  /\ home'[a] # None => home'[a] \in volumes'
               /\ \A r \in Req : Steady(a, req[r])' /\ \A q \in Req \ {r} : Apart(a, req[r], req[q])'
               /\ a \notin cut => Exact(a)'
               /\ a \notin doomed => Kept(a)'
    <3>1. /\ home[a] # None => home[a] \in volumes
          /\ \A r \in Req : Steady(a, req[r]) /\ \A q \in Req \ {r} : Apart(a, req[r], req[q])
          /\ a \notin cut => Exact(a)
          /\ a \notin doomed => Kept(a)
      BY DEF MediaInv
    <3>2. \A r \in Req : Steady(a, req[r])'
      BY <2>1, <3>1 DEF Steady
    <3>3. \A r \in Req : \A q \in Req \ {r} : Apart(a, req[r], req[q])'
      BY <2>1, <3>1 DEF Apart, VolumesOf
    <3>4. a \notin cut => Exact(a)'
      BY <2>1, <2>2, <3>1 DEF Exact, Wiped, Expected
    <3>5. a \notin doomed => Kept(a)'
      BY <2>1, <2>2, <3>1 DEF Kept
    <3>6. QED
      BY <2>1, <3>1, <3>2, <3>3, <3>4, <3>5
  <2>7. QED
    BY <2>1, <2>3, <2>4, <2>5, <2>6 DEF MediaInv
<1>3. ASSUME NEW r \in Req, EnsureDefaultVolume(r)
      PROVE  MediaInv'
  <2>17. PICK v \in Volume :
          /\ At(r, "ensure") /\ AddVolume(v) /\ req' = [req EXCEPT ![r].pc = "put", ![r].to = v]
          /\ UNCHANGED <<home, bytes, bounds, clashed, doomed, cut>>
    BY <1>3 DEF EnsureDefaultVolume
  <2>18. used' = [used EXCEPT ![v] = 0]
    BY <2>17 DEF AddVolume
  <2>1. /\ v \notin made /\ made' = made \cup {v} /\ volumes' = volumes \cup {v}
        /\ req[r].pc = "ensure"
        /\ UNCHANGED <<home, bytes, started, faults, clashed, doomed, cut>>
    BY <2>17 DEF At, AddVolume, bounds
  <2>2. PICK b : req[r].asset = b
    OBVIOUS
  <2>3. /\ b \in Asset /\ b # None /\ req[r].op = "upload" /\ req[r].to = None /\ req[r].from = None
        /\ v # None /\ req[r].todo = {}
    BY <2>1, <2>2, Identities DEF MediaInv, Shaped
  <2> DEFINE s == [req[r] EXCEPT !.pc = "put", !.to = v]
  <2>4. s \in Request /\ s.op = "upload" /\ s.pc = "put" /\ s.asset = b /\ s.from = None /\ s.to = v /\ s.todo = {}
    BY <1>1, <2>1, <2>2, <2>3 DEF TypeOK, Request
  <2>5. req' = [req EXCEPT ![r] = s]
    BY <1>1, <2>17 DEF TypeOK
  <2> HIDE DEF s
  <2>6. req' \in [Req -> Request] /\ req'[r] = s /\ \A q \in Req \ {r} : req'[q] = req[q]
    BY <1>1, <2>4, <2>5 DEF TypeOK
  <2>7. TypeOK'
    BY <1>1, <2>1, <2>6, <2>18 DEF TypeOK
  <2>8. \A a : Copies(a)' = Copies(a)
    BY <2>1 DEF Copies
  <2>9. VolumesOf(req[r])' = {v} /\ Shaped(req[r])'
    BY <2>3, <2>4, <2>6 DEF VolumesOf, Shaped
  <2>10. Known'
    <3>1. Known /\ b \in made
      BY <2>2, <2>3 DEF MediaInv, Known
    <3>2. ASSUME NEW q \in Req
          PROVE  /\ VolumesOf(req[q])' \subseteq made'
                 /\ req'[q].asset # None => req'[q].asset \in made'
                 /\ req'[q].todo \subseteq made' \cap doomed'
                 /\ req'[q].op = "remove" => req'[q].asset \in doomed'
      <4>1. CASE q = r
        BY <2>1, <2>4, <2>6, <2>9, <3>1, <4>1
      <4>2. CASE q # r
        <5>1. req'[q] = req[q]
          BY <2>6, <4>2
        <5>2. QED
          BY <2>1, <3>1, <5>1 DEF Known, VolumesOf
      <4>3. QED
        BY <4>1, <4>2
    <3>3. QED
      BY <2>1, <2>8, <3>1, <3>2 DEF Known
  <2>11. /\ b \notin clashed =>
              /\ home[b] # None => home[b] \in volumes
              /\ Steady(b, req[r])
              /\ b \notin cut => Copies(b) = Expected(req[r])
    BY <2>2, <2>3, OwnAsset
  <2>12. b \notin clashed => home[b] = None
    BY <2>1, <2>2, <2>3, <2>11 DEF Steady
  <2>13. b \notin clashed => Steady(b, req[r])'
    BY <2>1, <2>4, <2>6, <2>12 DEF Steady
  <2>14. Expected(req[r]) = {} /\ Expected(req[r])' = {}
    BY <2>1, <2>4, <2>6 DEF Expected
  <2>15. VolumesOf(req[r])' \cap made \subseteq VolumesOf(req[r])
    BY <2>1, <2>9
  <2>16. QED
    BY <2>1, <2>2, <2>3, <2>4, <2>6, <2>7, <2>8, <2>9, <2>10, <2>11, <2>12, <2>13, <2>14, <2>15, AssetStep
<1>4. QED
  BY <1>2, <1>3

-----------------------------------------------------------------------------
(* Requests begin. *)

\* A new request, on an asset or on a volume, that the others are apart from or
\* that clashes.
LEMMA BeginKeeps ==
  ASSUME MediaInv, NEW r \in Req, NEW s \in Request, Begin(r, s), Shaped(s), s.todo = {},
         UNCHANGED <<volumes, used, home, bytes, faults, cut>>,
         made \subseteq made', made' \subseteq Volume \cup Asset, doomed \subseteq doomed', doomed' \subseteq Asset,
         VolumesOf(s) \subseteq made', s.asset # None => s.asset \in made', s.op = "remove" => s.asset \in doomed',
         s.pc \notin {"wipe", "dropVolume", "record", "dropFrom"},
         \A a \in Asset \ clashed : s.asset = a /\ (\A q \in Req : req[q].asset # a) =>
           /\ Steady(a, s)
           /\ \A q \in Req : req[q].op = "deleteVolume" => a \notin req[q].todo \/ req[q].from \in VolumesOf(s)
           /\ a \notin cut /\ (home[a] = None => Copies(a) = {}) /\ (home[a] # None => Copies(a) = {Place[home[a]]})
                => Copies(a) = Expected(s)
           /\ home[a] \in VolumesOf(s) \cup {None}
  PROVE  MediaInv'
<1> USE Identities
<1>1. TypeOK /\ req[r].pc = "idle" /\ Shaped(req[r])
  BY DEF MediaInv, Begin, At
<1>2. req[r].op = "none" /\ req[r].asset = None /\ req[r].todo = {}
  BY <1>1 DEF Shaped
<1>3. req' = [req EXCEPT ![r] = s] /\ started' = started + 1
  BY DEF Begin
<1>4. req' \in [Req -> Request] /\ req'[r] = s /\ \A q \in Req \ {r} : req'[q] = req[q]
  BY <1>1, <1>3 DEF TypeOK
<1>5. /\ clashed \subseteq clashed' /\ clashed' \subseteq Asset
      /\ \A q \in Req \ {r} : Meets(s, req[q]) =>
           /\ s.asset # None => s.asset \in clashed'
           /\ req[q].asset # None => req[q].asset \in clashed'
  <2> DEFINE met == {q \in Req \ {r} : Meets(s, req[q])}
  <2>1. clashed' = IF met = {} THEN clashed
                    ELSE clashed \cup (({s.asset} \cup {req[q].asset : q \in met}) \ {None})
    BY DEF Begin
  <2>2. \A q \in Req : req[q].asset \in Asset \cup {None}
    BY <1>1 DEF TypeOK, Request
  <2>3. s.asset \in Asset \cup {None}
    BY DEF Request
  <2>4. clashed \subseteq clashed' /\ clashed' \subseteq Asset
    BY <1>1, <2>1, <2>2, <2>3 DEF TypeOK
  <2>5. QED
    BY <2>1, <2>4
<1>6. TypeOK'
  BY <1>1, <1>3, <1>4, <1>5 DEF TypeOK
<1>7. \A a : Copies(a)' = Copies(a)
  BY DEF Copies
<1>8. Known'
  <2>1. Known
    BY DEF MediaInv
  <2>2. ASSUME NEW q \in Req
        PROVE  /\ VolumesOf(req[q])' \subseteq made'
               /\ req'[q].asset # None => req'[q].asset \in made'
               /\ req'[q].todo \subseteq made' \cap doomed'
               /\ req'[q].op = "remove" => req'[q].asset \in doomed'
    <3>1. CASE q = r
      BY <1>4, <3>1 DEF VolumesOf
    <3>2. CASE q # r
      <4>1. req'[q] = req[q]
        BY <1>4, <3>2
      <4>2. QED
        BY <2>1, <4>1 DEF Known, VolumesOf
    <3>3. QED
      BY <3>1, <3>2
  <2>3. QED
    BY <1>7, <2>1, <2>2 DEF Known
<1>9. \A q \in Req : Shaped(req[q])'
  BY <1>4 DEF MediaInv
<1>10. ASSUME NEW a \in Asset \ clashed'
       PROVE  /\ a \notin clashed /\ a # None
              /\ s.asset = a => \A q \in Req : req[q].asset # a
              /\ \A q \in Req : Wiped(a, req[q])' <=> Wiped(a, req[q])
              /\ ~Wiped(a, s)
  <2>1. s.asset = a => \A q \in Req : req[q].asset # a
    BY <1>2, <1>5, <1>10 DEF Meets
  <2>2. ~Wiped(a, s) /\ ~Wiped(a, req[r])
    BY <1>1 DEF Wiped
  <2>3. ASSUME NEW q \in Req PROVE Wiped(a, req[q])' <=> Wiped(a, req[q])
    <3>1. CASE q = r
      BY <1>4, <2>2, <3>1 DEF Wiped
    <3>2. CASE q # r
      BY <1>4, <3>2 DEF Wiped
    <3>3. QED
      BY <3>1, <3>2
  <2>4. QED
    BY <1>5, <1>10, <2>1, <2>2, <2>3
<1>11. ASSUME NEW a \in Asset \ clashed', NEW p \in Req
       PROVE  Steady(a, req[p])'
  <2>1. CASE p = r /\ s.asset = a
    BY <1>4, <1>10, <2>1 DEF Steady
  <2>2. CASE p = r /\ s.asset # a
    BY <1>4, <2>2 DEF Steady
  <2>3. CASE p # r
    <3>1. req'[p] = req[p] /\ Steady(a, req[p])
      BY <1>4, <1>10, <2>3 DEF MediaInv
    <3>2. QED
      BY <3>1 DEF Steady
  <2>4. QED
    BY <2>1, <2>2, <2>3
<1>12. ASSUME NEW a \in Asset \ clashed', NEW p \in Req, NEW q \in Req \ {p}
       PROVE  Apart(a, req[p], req[q])'
  <2>1. CASE p = r
    <3>1. req'[p] = s /\ req'[q] = req[q] /\ q # r
      BY <1>4, <2>1
    <3>2. SUFFICES ASSUME s.asset = a
                   PROVE  /\ req[q].asset # a /\ a \notin req[q].todo
                          /\ req[q].op = "deleteVolume" => req[q].from \notin VolumesOf(s)
      BY <3>1 DEF Apart, VolumesOf
    <3>3. ~Meets(s, req[q])
      BY <1>5, <1>10, <3>1, <3>2
    <3>4. Shaped(req[q]) /\ (req[q].op = "deleteVolume" => req[q].from \in VolumesOf(req[q]))
      BY DEF MediaInv, Shaped, VolumesOf
    <3>5. req[q].op = "deleteVolume" => req[q].from \notin VolumesOf(s)
      BY <3>3, <3>4 DEF Meets
    <3>6. a \notin req[q].todo
      BY <1>10, <3>2, <3>4, <3>5 DEF Shaped
    <3>7. QED
      BY <1>10, <3>2, <3>5, <3>6
  <2>2. CASE q = r
    <3>1. req'[p] = req[p] /\ req'[q] = s /\ p # r
      BY <1>4, <2>2
    <3>2. SUFFICES ASSUME req[p].asset = a
                   PROVE  /\ s.asset # a
                          /\ s.op = "deleteVolume" => s.from \notin VolumesOf(req[p])
      BY <3>1 DEF Apart, VolumesOf
    <3>3. ~Meets(s, req[p])
      BY <1>5, <1>10, <3>1, <3>2
    <3>4. s.op = "deleteVolume" => s.from \in VolumesOf(s)
      BY DEF Shaped, VolumesOf
    <3>5. QED
      BY <1>10, <3>2, <3>3, <3>4 DEF Meets
  <2>3. CASE p # r /\ q # r
    <3>1. req'[p] = req[p] /\ req'[q] = req[q] /\ Apart(a, req[p], req[q])
      BY <1>4, <1>10, <2>3 DEF MediaInv
    <3>2. QED
      BY <3>1 DEF Apart, VolumesOf
  <2>4. QED
    BY <2>1, <2>2, <2>3
<1>13. ASSUME NEW a \in Asset \ clashed', a \notin cut
       PROVE  Exact(a)'
  <2>1. Exact(a) /\ Copies(a)' = Copies(a)
    BY <1>7, <1>10, <1>13 DEF MediaInv
  <2>2. CASE s.asset = a
    <3>1. \A q \in Req : req[q].asset # a
      BY <1>10, <2>2
    <3>2. \A q \in Req : ~Wiped(a, req[q])
      <4> SUFFICES ASSUME NEW q \in Req, Wiped(a, req[q]) PROVE FALSE
        OBVIOUS
      <4>1. q # r /\ req'[q] = req[q]
        BY <1>1, <1>4 DEF Wiped
      <4>2. req[q].op = "deleteVolume" /\ req[q].from # None /\ req[q].from = home[a]
        BY DEF MediaInv, Shaped, Wiped
      <4>3. home[a] \in VolumesOf(s)
        BY <1>10, <2>2, <3>1, <4>2
      <4>4. Apart(a, req[r], req[q])'
        BY <1>12, <4>1
      <4>5. QED
        BY <1>4, <2>2, <4>1, <4>2, <4>3, <4>4 DEF Apart, VolumesOf
    <3>3. Copies(a) = Expected(s)
      BY <1>10, <1>13, <2>1, <2>2, <3>1, <3>2 DEF Exact
    <3>4. \A q \in Req : req'[q].asset = a => q = r
      BY <1>4, <3>1
    <3>5. Expected(req[r])' = Expected(s)
      BY <1>4 DEF Expected
    <3>6. QED
      BY <1>4, <1>10, <2>1, <2>2, <3>2, <3>3, <3>4, <3>5 DEF Exact
  <2>3. CASE s.asset # a
    <3>1. \A q \in Req : req'[q].asset = a => q # r /\ req'[q] = req[q]
      BY <1>4, <2>3
    <3>2. \A q \in Req : req'[q].asset = a <=> req[q].asset = a
      BY <1>2, <1>4, <1>10, <2>3
    <3>3. \A q \in Req : req'[q].asset = a => Copies(a)' = Expected(req[q])'
      BY <2>1, <3>1 DEF Exact, Expected
    <3>4. QED
      BY <1>10, <2>1, <3>2, <3>3 DEF Exact
  <2>4. QED
    BY <2>2, <2>3
<1>14. ASSUME NEW a \in Asset \ clashed', a \notin doomed'
       PROVE  Kept(a)'
  <2>1. Kept(a) /\ Copies(a)' = Copies(a)
    BY <1>7, <1>10, <1>14 DEF MediaInv
  <2>2. \A q \in Req : req'[q].pc \in {"record", "dropFrom"} => req'[q] = req[q]
    BY <1>4
  <2>3. QED
    BY <2>1, <2>2 DEF Kept
<1>15. QED
  BY <1>6, <1>8, <1>9, <1>10, <1>11, <1>12, <1>13, <1>14 DEF MediaInv

LEMMA StartsKeep ==
  ASSUME MediaInv, NEW r \in Req, Requested(r)
  PROVE  MediaInv'
<1> USE Identities
<1>1. TypeOK /\ Known
  BY DEF MediaInv
<1>2. CASE StartDeleteVolume(r)
  <2>1. PICK v \in volumes : Begin(r, [Idle EXCEPT !.op = "deleteVolume", !.pc = "list", !.from = v])
    BY <1>2 DEF StartDeleteVolume
  <2>2. UNCHANGED <<volumes, used, home, bytes, faults, made, doomed, cut>>
    BY <1>2 DEF StartDeleteVolume, stores
  <2> DEFINE s == [Idle EXCEPT !.op = "deleteVolume", !.pc = "list", !.from = v]
  <2>3. v \in Volume /\ v \in made
    BY <1>1 DEF TypeOK, Known
  <2>4. /\ s \in Request /\ s.op = "deleteVolume" /\ s.pc = "list" /\ s.asset = None /\ s.from = v
        /\ s.to = None /\ s.todo = {}
    BY <2>3 DEF Idle, Request
  <2> HIDE DEF s
  <2>5. Shaped(s) /\ VolumesOf(s) = {v}
    BY <2>3, <2>4 DEF Shaped, VolumesOf
  <2>6. QED
    BY <1>1, <2>1, <2>2, <2>3, <2>4, <2>5, BeginKeeps DEF TypeOK, s
<1>3. CASE StartUpload(r)
  <2>1. PICK a \in Asset \ made, v \in Volume \cup {None} :
          /\ \/ v \in volumes /\ Begin(r, [Idle EXCEPT !.op = "upload", !.pc = "put", !.asset = a, !.to = v])
             \/ v = None /\ Begin(r, [Idle EXCEPT !.op = "upload", !.pc = "ensure", !.asset = a])
          /\ made' = made \cup {a}
    BY <1>1, <1>3 DEF StartUpload, TypeOK
  <2>2. UNCHANGED <<volumes, used, home, bytes, faults, doomed, cut>>
    BY <1>3 DEF StartUpload, stores
  <2>3. PICK s : /\ Begin(r, s) /\ s \in Request /\ s.op = "upload" /\ s.asset = a /\ s.from = None
                 /\ s.to = v /\ s.todo = {} /\ ((s.pc = "put" /\ v \in volumes) \/ (s.pc = "ensure" /\ v = None))
    <3>1. CASE v \in volumes
      <4> DEFINE s == [Idle EXCEPT !.op = "upload", !.pc = "put", !.asset = a, !.to = v]
      <4>1. s \in Request /\ s.op = "upload" /\ s.asset = a /\ s.from = None /\ s.to = v /\ s.todo = {} /\ s.pc = "put"
        BY <2>1, <3>1 DEF Idle, Request
      <4>2. Begin(r, s)
        BY <1>1, <2>1, <3>1 DEF TypeOK
      <4> HIDE DEF s
      <4>3. QED
        BY <3>1, <4>1, <4>2
    <3>2. CASE v = None
      <4> DEFINE s == [Idle EXCEPT !.op = "upload", !.pc = "ensure", !.asset = a]
      <4>1. s \in Request /\ s.op = "upload" /\ s.asset = a /\ s.from = None /\ s.to = v /\ s.todo = {} /\ s.pc = "ensure"
        BY <3>2 DEF Idle, Request
      <4>2. Begin(r, s)
        BY <1>1, <2>1, <3>2 DEF TypeOK
      <4> HIDE DEF s
      <4>3. QED
        BY <3>2, <4>1, <4>2
    <3>3. QED
      BY <2>1, <3>1, <3>2
  <2>4. v # None => v \in volumes /\ v \in Volume /\ v \in made
    BY <1>1, <2>1 DEF TypeOK, Known
  <2>5. Shaped(s) /\ VolumesOf(s) \subseteq made
    <3>1. CASE v = None
      <4>1. v \notin volumes
        BY <1>1, <3>1 DEF TypeOK
      <4>2. QED
        BY <2>3, <3>1, <4>1 DEF Shaped, VolumesOf
    <3>2. CASE v # None
      BY <2>3, <2>4, <3>2 DEF Shaped, VolumesOf
    <3>3. QED
      BY <3>1, <3>2
  <2>6. home[a] = None /\ Copies(a) = {} /\ \A q \in Req : a \notin req[q].todo
    BY <1>1 DEF Known
  <2>7. Steady(a, s) /\ Expected(s) = {}
    BY <2>3, <2>4, <2>6 DEF Steady, Expected
  <2>8. made' \subseteq Volume \cup Asset
    BY <1>1, <2>1 DEF TypeOK
  <2>9. doomed \subseteq Asset /\ s.asset = a /\ s.todo = {} /\ s.op # "remove" /\ Begin(r, s) /\ s \in Request
        /\ s.pc \notin {"wipe", "dropVolume", "record", "dropFrom"}
    BY <1>1, <2>3 DEF TypeOK
  <2>10. made \subseteq made' /\ a \in made'
    BY <2>1
  <2>11. QED
    BY <2>2, <2>5, <2>6, <2>7, <2>8, <2>9, <2>10, BeginKeeps
<1>4. CASE StartMove(r) \/ StartRemove(r)
  <2>1. PICK a \in Asset, s \in Request :
          /\ home[a] # None /\ Begin(r, s)
          /\ s.asset = a /\ s.from = home[a] /\ s.pc = "source" /\ s.todo = {}
          /\ \/ s.op = "move" /\ s.to \in Volume \cap made /\ doomed' = doomed
             \/ s.op = "remove" /\ s.to = None /\ doomed' = doomed \cup {a}
    <3>1. CASE StartMove(r)
      <4>1. PICK a \in Asset, v \in Volume \cap made :
              /\ home[a] # None /\ doomed' = doomed
              /\ Begin(r, [Idle EXCEPT !.op = "move", !.pc = "source", !.asset = a, !.from = home[a], !.to = v])
        BY <3>1 DEF StartMove
      <4> DEFINE s == [Idle EXCEPT !.op = "move", !.pc = "source", !.asset = a, !.from = home[a], !.to = v]
      <4>2. home[a] \in Volume
        BY <1>1, <4>1 DEF TypeOK
      <4>3. s \in Request /\ s.asset = a /\ s.from = home[a] /\ s.pc = "source" /\ s.todo = {} /\ s.op = "move" /\ s.to = v
        BY <4>2 DEF Idle, Request
      <4>4. Begin(r, s)
        BY <4>1
      <4> HIDE DEF s
      <4>5. QED
        BY <4>1, <4>3, <4>4
    <3>2. CASE StartRemove(r)
      <4>1. PICK a \in Asset :
              /\ home[a] # None /\ doomed' = doomed \cup {a}
              /\ Begin(r, [Idle EXCEPT !.op = "remove", !.pc = "source", !.asset = a, !.from = home[a]])
        BY <3>2 DEF StartRemove
      <4> DEFINE s == [Idle EXCEPT !.op = "remove", !.pc = "source", !.asset = a, !.from = home[a]]
      <4>2. home[a] \in Volume
        BY <1>1, <4>1 DEF TypeOK
      <4>3. s \in Request /\ s.asset = a /\ s.from = home[a] /\ s.pc = "source" /\ s.todo = {} /\ s.op = "remove" /\ s.to = None
        BY <4>2 DEF Idle, Request
      <4>4. Begin(r, s)
        BY <4>1
      <4> HIDE DEF s
      <4>5. QED
        BY <4>1, <4>3, <4>4
    <3>3. QED
      BY <1>4, <3>1, <3>2
  <2>2. UNCHANGED <<volumes, used, home, bytes, faults, made, cut>>
    BY <1>4 DEF StartMove, StartRemove, stores
  <2>3. a \in made /\ home[a] \in Volume
    BY <1>1, <2>1 DEF Known, TypeOK
  <2>4. a \notin clashed => home[a] \in volumes /\ \A q \in Req : Steady(a, req[q])
    BY <2>1 DEF MediaInv
  <2>5. home[a] \in made
    BY <1>1, <2>3 DEF Known
  <2>6. Shaped(s) /\ VolumesOf(s) \subseteq made /\ home[a] \in VolumesOf(s)
    BY <2>1, <2>3, <2>5 DEF Shaped, VolumesOf
  <2>7. Steady(a, s) /\ Expected(s) = {Place[home[a]]}
    BY <2>1, <2>3 DEF Steady, Expected
  <2>8. a \notin clashed => \A q \in Req : req[q].op = "deleteVolume" => a \notin req[q].todo \/ req[q].from \in VolumesOf(s)
    BY <2>1, <2>4, <2>6 DEF Steady
  <2>9. doomed \subseteq doomed' /\ doomed' \subseteq Asset
    BY <1>1, <2>1 DEF TypeOK
  <2>10. QED
    BY <1>1, <2>1, <2>2, <2>3, <2>6, <2>7, <2>8, <2>9, BeginKeeps DEF TypeOK
<1>5. QED
  BY <1>2, <1>3, <1>4 DEF Requested

-----------------------------------------------------------------------------
(* The deletion of a volume. *)

\* What the deletion of a volume knows of an asset that is on it.
LEMMA OnVolume ==
  ASSUME MediaInv, NEW r \in Req, req[r].op = "deleteVolume", NEW a \in Asset \ clashed
  PROVE  /\ req[r].from \in Volume /\ req[r].from # None /\ req[r].from \in VolumesOf(req[r])
         /\ \A q \in Req : req[q].asset = a => req[r].from \notin VolumesOf(req[q]) /\ home[a] # req[r].from
         /\ a \in req[r].todo => home[a] \in {None, req[r].from} /\ \A q \in Req : req[q].asset # a
<1> USE Identities
<1>1. Shaped(req[r])
  BY DEF MediaInv
<1>2. req[r].from \in Volume /\ req[r].asset = None
  BY <1>1 DEF Shaped
<1>3. ASSUME NEW q \in Req, req[q].asset = a
      PROVE  req[r].from \notin VolumesOf(req[q]) /\ home[a] # req[r].from /\ a \notin req[r].todo
  <2>1. q # r /\ Apart(a, req[q], req[r]) /\ Steady(a, req[q]) /\ Shaped(req[q])
    BY <1>2, <1>3 DEF MediaInv
  <2>2. req[r].from \notin VolumesOf(req[q]) /\ a \notin req[r].todo
    BY <1>3, <2>1 DEF Apart
  <2>3. home[a] \in VolumesOf(req[q]) \cup {None}
    BY <1>3, <2>1 DEF Shaped, Steady, VolumesOf
  <2>4. QED
    BY <1>2, <2>2, <2>3
<1>4. Steady(a, req[r])
  BY DEF MediaInv
<1>5. QED
  BY <1>2, <1>3, <1>4 DEF VolumesOf, Steady

\* A step of the deletion of a volume.
LEMMA DeletionStep ==
  ASSUME MediaInv, NEW r \in Req, req[r].op = "deleteVolume",
         TypeOK', Known', Shaped(req[r])', \A q \in Req \ {r} : req'[q] = req[q],
         made' = made, clashed' = clashed, doomed \subseteq doomed', cut \subseteq cut',
         \/ req'[r] = Idle
         \/ req'[r].op = "deleteVolume" /\ req'[r].asset = None /\ req'[r].from = req[r].from /\ req'[r].to = None,
         \A a \in Asset \ clashed :
           /\ home'[a] = home[a] \/ (home[a] = req[r].from /\ home'[a] = None /\ req[r].pc = "wipe" /\ req[r].todo = {})
           /\ home'[a] # None => home'[a] \in volumes'
           /\ Steady(a, req[r])'
           /\ a \in req'[r].todo => \A q \in Req : req[q].asset # a
           /\ \A q \in Req : req[q].asset = a => VolumesOf(req[q]) \cap volumes \subseteq volumes' /\ Copies(a)' = Copies(a)
           /\ Copies(a)' # Copies(a) => a \in doomed'
           /\ a \notin cut' /\ Copies(a)' # Copies(a) => Copies(a)' = {} /\ (home'[a] = None \/ Wiped(a, req[r])')
           /\ a \notin cut' => (Wiped(a, req[r])' => Copies(a)' = {}) /\ (Wiped(a, req[r]) /\ home'[a] # None => Wiped(a, req[r])')
  PROVE  MediaInv'
<1> USE Identities
<1>1. TypeOK /\ Shaped(req[r])
  BY DEF MediaInv
<1>2. req[r].asset = None /\ req'[r].asset = None /\ req'[r].pc \notin {"record", "dropFrom"}
  BY <1>1, IdleRequest DEF Shaped
<1>3. VolumesOf(req[r])' \subseteq VolumesOf(req[r]) /\ (req'[r].op = "deleteVolume" => req'[r].from = req[r].from)
  BY IdleRequest DEF VolumesOf
<1>4. \A q \in Req : Shaped(req[q])'
  BY DEF MediaInv
<1>5. ASSUME NEW a \in Asset \ clashed, NEW p \in Req, NEW q \in Req \ {p}
      PROVE  Apart(a, req[p], req[q])'
  <2>1. Apart(a, req[p], req[q])
    BY DEF MediaInv
  <2>2. CASE p = r
    BY <1>2, <2>2 DEF Apart
  <2>3. CASE q = r
    <3>1. req'[p] = req[p]
      BY <2>3
    <3>2. QED
      BY <1>2, <1>3, <2>1, <2>3, <3>1 DEF Apart, VolumesOf
  <2>4. CASE p # r /\ q # r
    BY <2>1, <2>4 DEF Apart, VolumesOf
  <2>5. QED
    BY <2>2, <2>3, <2>4
<1>6. ASSUME NEW a \in Asset \ clashed, NEW p \in Req
      PROVE  Steady(a, req[p])'
  <2>1. CASE p = r
    BY <2>1
  <2>2. CASE p # r
    <3>1. req'[p] = req[p] /\ Steady(a, req[p]) /\ Shaped(req[p])
      BY <2>2 DEF MediaInv
    <3>2. req[p].pc = "dropVolume" => req[p].from # None
      BY <3>1 DEF Shaped
    <3>3. req[p].asset = a => home'[a] = home[a]
      BY OnVolume
    <3>4. req[p].asset = a /\ req[p].to # None /\ req[p].to \in volumes => req[p].to \in volumes'
      BY DEF VolumesOf
    <3>5. QED
      BY <3>1, <3>2, <3>3, <3>4 DEF Steady
  <2>3. QED
    BY <2>1, <2>2
<1>7. ASSUME NEW a \in Asset \ clashed, NEW p \in Req \ {r}
      PROVE  Wiped(a, req[p])' <=> Wiped(a, req[p]) /\ home'[a] = home[a]
  <2>1. req'[p] = req[p] /\ Shaped(req[p])
    BY DEF MediaInv
  <2>2. req[p].pc = "wipe" => req[p].from # None
    BY <2>1 DEF Shaped
  <2>3. req[r].from # None
    BY OnVolume
  <2>4. QED
    BY <2>1, <2>2, <2>3 DEF Wiped
<1>8. ASSUME NEW a \in Asset \ clashed, NEW q \in Req
      PROVE  /\ req'[q].asset = a <=> req[q].asset = a
             /\ req[q].asset = a => q # r /\ req'[q] = req[q]
  BY <1>2
<1>9. ASSUME NEW a \in Asset \ clashed, a \notin cut'
      PROVE  Exact(a)'
  <2>1. Exact(a) /\ a \notin cut
    BY <1>9 DEF MediaInv
  <2>2. ASSUME NEW q \in Req, req'[q].asset = a
        PROVE  Copies(a)' = Expected(req[q])'
    <3>1. req'[q] = req[q] /\ req[q].asset = a
      BY <1>8, <2>2
    <3>2. QED
      BY <2>1, <3>1 DEF Exact, Expected
  <2>3. ASSUME NEW q \in Req, Wiped(a, req[q])'
        PROVE  Copies(a)' = {}
    <3>1. CASE q = r
      BY <1>9, <2>3, <3>1
    <3>2. CASE q # r
      BY <1>7, <1>9, <2>1, <2>3, <3>2 DEF Exact
    <3>3. QED
      BY <3>1, <3>2
  <2>4. ASSUME \A q \in Req : req'[q].asset # a
        PROVE  IF home'[a] = None THEN Copies(a)' = {}
               ELSE Copies(a)' = {Place[home'[a]]} \/ \E q \in Req : Wiped(a, req[q])'
    <3>1. \A q \in Req : req[q].asset # a
      BY <1>8, <2>4
    <3>2. IF home[a] = None THEN Copies(a) = {}
          ELSE Copies(a) = {Place[home[a]]} \/ \E q \in Req : Wiped(a, req[q])
      BY <2>1, <3>1 DEF Exact
    <3>3. CASE home'[a] = home[a]
      <4>1. CASE Copies(a)' # Copies(a)
        BY <1>9, <3>3, <4>1
      <4>2. CASE Copies(a)' = Copies(a) /\ home[a] = None
        BY <3>2, <3>3, <4>2
      <4>3. CASE Copies(a)' = Copies(a) /\ home[a] # None /\ Copies(a) = {Place[home[a]]}
        BY <3>3, <4>3
      <4>4. CASE Copies(a)' = Copies(a) /\ home[a] # None /\ Copies(a) # {Place[home[a]]}
        <5>1. PICK q \in Req : Wiped(a, req[q])
          BY <3>2, <4>4
        <5>2. Wiped(a, req[q])'
          BY <1>7, <1>9, <3>3, <4>4, <5>1
        <5>3. QED
          BY <3>3, <4>4, <5>2
      <4>5. QED
        BY <4>1, <4>2, <4>3, <4>4
    <3>4. CASE home'[a] # home[a]
      <4>1. Wiped(a, req[r]) /\ home'[a] = None
        BY <3>4 DEF Wiped
      <4>2. Copies(a) = {}
        BY <2>1, <4>1 DEF Exact
      <4>3. QED
        BY <1>9, <4>1, <4>2
    <3>5. QED
      BY <3>3, <3>4
  <2>5. QED
    BY <2>2, <2>3, <2>4 DEF Exact
<1>10. ASSUME NEW a \in Asset \ clashed, a \notin doomed'
       PROVE  Kept(a)'
  <2>1. Kept(a) /\ Copies(a)' = Copies(a)
    BY <1>10 DEF MediaInv
  <2>2. home'[a] # None => home[a] # None
    BY OnVolume
  <2>3. QED
    BY <1>8, <2>1, <2>2 DEF Kept
<1>11. QED
  BY <1>4, <1>5, <1>6, <1>9, <1>10 DEF MediaInv

LEMMA DeletionsKeep ==
  ASSUME MediaInv, NEW r \in Req, ListAssets(r) \/ WipeAsset(r) \/ ForgetAll(r) \/ DropVolume(r)
  PROVE  MediaInv'
<1> USE Identities
<1>1. TypeOK /\ Known /\ Shaped(req[r]) /\ req[r].pc \in {"list", "wipe", "dropVolume"}
  BY DEF MediaInv, ListAssets, WipeAsset, ForgetAll, DropVolume, At
<1>2. req[r].op = "deleteVolume" /\ req[r].asset = None /\ req[r].to = None /\ req[r].from \in Volume
  BY <1>1 DEF Shaped
<1>3. ASSUME NEW a \in Asset \ clashed
      PROVE  /\ Steady(a, req[r]) /\ (home[a] # None => home[a] \in volumes)
             /\ \A q \in Req : req[q].asset = a => req[r].from \notin VolumesOf(req[q]) /\ home[a] # req[r].from
             /\ a \in req[r].todo => home[a] \in {None, req[r].from} /\ \A q \in Req : req[q].asset # a
             /\ a \notin cut => Exact(a)
  BY <1>2, OnVolume DEF MediaInv
<1>4. CASE ListAssets(r)
  <2> DEFINE here == {a \in Asset : home[a] = req[r].from}
             s == [req[r] EXCEPT !.pc = "wipe", !.todo = here]
  <2>1. /\ req' = [req EXCEPT ![r].pc = "wipe", ![r].todo = here] /\ req[r].pc = "list"
        /\ doomed' = doomed \cup here /\ UNCHANGED <<volumes, used, home, bytes, made, clashed, cut, started, faults>>
    BY <1>4 DEF ListAssets, At, stores, bounds
  <2>2. here \subseteq Asset /\ here \subseteq made
    BY <1>1, <1>2 DEF Known
  <2>3. s \in Request /\ s.op = "deleteVolume" /\ s.pc = "wipe" /\ s.asset = None /\ s.from = req[r].from
        /\ s.to = None /\ s.todo = here
    BY ZenonT(60), <1>1, <1>2, <2>2 DEF TypeOK, Request
  <2>4. req' = [req EXCEPT ![r] = s]
    BY <1>1, <2>1 DEF TypeOK
  <2> HIDE DEF s
  <2>5. req' \in [Req -> Request] /\ req'[r] = s /\ \A q \in Req \ {r} : req'[q] = req[q]
    BY <1>1, <2>3, <2>4 DEF TypeOK
  <2>6. UNCHANGED <<volumes, used, home, bytes, made, clashed, cut, started, faults>> /\ doomed' = doomed \cup here
    BY <2>1
  <2>7. TypeOK'
    BY <1>1, <2>2, <2>5, <2>6 DEF TypeOK
  <2>8. Shaped(req[r])' /\ \A c : Copies(c)' = Copies(c)
    BY <1>2, <2>3, <2>5, <2>6 DEF Shaped, Copies
  <2>9. Known'
    <3>1. \A q \in Req : req'[q].todo \subseteq made \cap doomed'
      BY <1>1, <2>2, <2>3, <2>5, <2>6 DEF Known
    <3>2. \A q \in Req : /\ VolumesOf(req[q])' \subseteq made
                         /\ req'[q].asset # None => req'[q].asset \in made
                         /\ req'[q].op = "remove" => req'[q].asset \in doomed'
      <4> SUFFICES ASSUME NEW q \in Req
                   PROVE  /\ VolumesOf(req[q])' \subseteq made
                          /\ req'[q].asset # None => req'[q].asset \in made
                          /\ req'[q].op = "remove" => req'[q].asset \in doomed'
        OBVIOUS
      <4>1. req'[q].from = req[q].from /\ req'[q].to = req[q].to /\ req'[q].asset = req[q].asset /\ req'[q].op = req[q].op
        BY <1>2, <2>3, <2>5
      <4>2. QED
        BY <1>1, <2>6, <4>1 DEF Known, VolumesOf
    <3>3. QED
      BY <1>1, <2>6, <2>8, <3>1, <3>2 DEF Known
  <2>10. ASSUME NEW a \in Asset \ clashed
         PROVE  /\ Steady(a, req[r])' /\ ~Wiped(a, req[r])' /\ ~Wiped(a, req[r])
                /\ a \in req'[r].todo => \A q \in Req : req[q].asset # a
    BY ZenonT(60), <1>2, <1>3, <2>1, <2>3, <2>5, <2>6 DEF Steady, Wiped
  <2>11. QED
    BY <1>2, <1>3, <2>3, <2>5, <2>6, <2>7, <2>8, <2>9, <2>10, DeletionStep
<1>5. CASE WipeAsset(r)
  <2>1. PICK c \in req[r].todo :
          /\ Delete(req[r].from, c) /\ req' = [req EXCEPT ![r].todo = @ \ {c}] /\ req[r].pc = "wipe"
    BY <1>5 DEF WipeAsset, At
  <2>2. UNCHANGED <<volumes, used, home, started, made, clashed, doomed>>
    BY <1>5 DEF WipeAsset
  <2>3. c \in Asset /\ c \in doomed
    BY <1>1 DEF TypeOK, Request, Known
  <2>4. /\ \A a : a # c => Copies(a)' = Copies(a)
        /\ \/ c \in cut' /\ Copies(c)' = Copies(c)
           \/ Copies(c)' = Copies(c) \ {Place[req[r].from]}
        /\ cut \subseteq cut' /\ cut' \subseteq Asset \cup Volume /\ faults' \in Nat
        /\ bytes' \subseteq Places \X Asset
    BY <1>2, <2>1, <2>3, DeleteCopies
  <2> DEFINE s == [req[r] EXCEPT !.todo = @ \ {c}]
  <2>5. s \in Request /\ s.op = "deleteVolume" /\ s.pc = "wipe" /\ s.asset = None /\ s.from = req[r].from
        /\ s.to = None /\ s.todo = req[r].todo \ {c}
    BY <1>1, <1>2, <2>1 DEF TypeOK, Request
  <2>6. req' = [req EXCEPT ![r] = s]
    BY <1>1, <2>1 DEF TypeOK
  <2> HIDE DEF s
  <2>7. req' \in [Req -> Request] /\ req'[r] = s /\ \A q \in Req \ {r} : req'[q] = req[q]
    BY <1>1, <2>5, <2>6 DEF TypeOK
  <2>8. TypeOK'
    BY <1>1, <2>2, <2>4, <2>7 DEF TypeOK
  <2>9. Shaped(req[r])'
    BY <1>2, <2>5, <2>7 DEF Shaped
  <2>10. Known'
    <3>1. \A a \in Asset \ made : Copies(a)' = {}
      BY <1>1, <2>3, <2>4 DEF Known
    <3>2. \A a \in Asset : home'[a] \in made \cup {None}
      BY <1>1, <2>2 DEF Known
    <3>3. \A a \in Asset \ made : home'[a] = None
      BY <1>1, <2>2 DEF Known
    <3>4. QED
      BY <1>2, <2>2, <2>5, <2>7, <3>1, <3>2, <3>3, KnownKept
  <2>11. ASSUME NEW a \in Asset \ clashed
         PROVE  /\ Steady(a, req[r])'
                /\ \A q \in Req : req[q].asset = a => Copies(a)' = Copies(a)
                /\ a \in req'[r].todo => \A q \in Req : req[q].asset # a
                /\ Copies(a)' # Copies(a) => a \in doomed'
                /\ a \notin cut' /\ Copies(a)' # Copies(a) => Copies(a)' = {} /\ (home'[a] = None \/ Wiped(a, req[r])')
                /\ a \notin cut' => (Wiped(a, req[r])' => Copies(a)' = {}) /\ (Wiped(a, req[r]) => Wiped(a, req[r])')
    <3>1. Steady(a, req[r])'
      BY <1>2, <1>3, <2>2, <2>5, <2>7 DEF Steady
    <3>2. CASE a # c
      <4>1. Copies(a)' = Copies(a) /\ (Wiped(a, req[r])' <=> Wiped(a, req[r]))
        BY <2>1, <2>2, <2>4, <2>5, <2>7, <3>2 DEF Wiped
      <4>2. a \notin cut' /\ Wiped(a, req[r]) => Copies(a) = {}
        BY <1>3, <2>4 DEF Exact
      <4>3. QED
        BY <1>3, <2>5, <2>7, <3>1, <4>1, <4>2
    <3>3. CASE a = c
      <4>1. home[a] \in {None, req[r].from} /\ \A q \in Req : req[q].asset # a
        BY <1>3, <2>1, <3>3
      <4>2. ~Wiped(a, req[r]) /\ (Wiped(a, req[r])' <=> home[a] = req[r].from)
        BY <2>1, <2>2, <2>5, <2>7, <3>3 DEF Wiped
      <4>3. a \notin cut' => Copies(a)' = {}
        <5>1. SUFFICES ASSUME a \notin cut' PROVE Copies(a)' = {}
          OBVIOUS
        <5>2. Copies(a)' = Copies(a) \ {Place[req[r].from]} /\ a \notin cut
          BY <2>4, <3>3, <5>1
        <5>3. Copies(a) = {} \/ Copies(a) = {Place[home[a]]} \/ \E q \in Req : Wiped(a, req[q])
          BY <1>3, <4>1, <5>2 DEF Exact
        <5>4. (\E q \in Req : Wiped(a, req[q])) => Copies(a) = {}
          BY <1>3, <5>2 DEF Exact
        <5>5. home[a] = None => Copies(a) = {}
          BY <1>3, <4>1, <5>2 DEF Exact
        <5>6. QED
          BY <4>1, <5>2, <5>3, <5>4, <5>5
      <4>4. QED
        BY <2>2, <2>3, <3>1, <3>3, <4>1, <4>2, <4>3
    <3>4. QED
      BY <3>2, <3>3
  <2>12. QED
    BY <1>2, <1>3, <2>2, <2>4, <2>5, <2>7, <2>8, <2>9, <2>10, <2>11, DeletionStep
<1>6. CASE ForgetAll(r)
  <2>1. /\ req[r].pc = "wipe" /\ req[r].todo = {} /\ Goto(r, "dropVolume")
        /\ home' = [a \in Asset |-> IF home[a] = req[r].from THEN None ELSE home[a]]
        /\ UNCHANGED <<volumes, used, bytes, made, clashed, doomed, cut, started, faults>>
    BY <1>6 DEF ForgetAll, At, ghosts, bounds
  <2>2. /\ req' \in [Req -> Request]
        /\ \A q \in Req \ {r} : req'[q] = req[q]
        /\ req'[r].pc = "dropVolume" /\ req'[r].op = req[r].op /\ req'[r].asset = req[r].asset
        /\ req'[r].from = req[r].from /\ req'[r].to = req[r].to /\ req'[r].todo = req[r].todo
    BY <1>1, <2>1, Going
  <2>3. \A a \in Asset : home'[a] = IF home[a] = req[r].from THEN None ELSE home[a]
    BY <2>1
  <2>4. home' \in [Asset -> Volume \cup {None}]
    BY <1>1, <2>1 DEF TypeOK
  <2>5. UNCHANGED <<volumes, used, bytes, made, clashed, doomed, cut, started, faults>> /\ req[r].pc = "wipe" /\ req[r].todo = {}
    BY <2>1
  <2>6. TypeOK'
    BY <1>1, <2>2, <2>4, <2>5 DEF TypeOK
  <2>7. Shaped(req[r])' /\ \A c : Copies(c)' = Copies(c)
    BY <1>2, <2>2, <2>5 DEF Shaped, Copies
  <2>8. Known'
    <3>1. /\ \A a \in Asset : home'[a] \in made \cup {None}
          /\ \A a \in Asset \ made : home'[a] = None /\ Copies(a)' = {}
      BY <1>1, <2>3, <2>7 DEF Known
    <3>2. QED
      BY <2>2, <2>5, <3>1, KnownKept
  <2>9. ASSUME NEW a \in Asset \ clashed
        PROVE  Steady(a, req[r])' /\ ~Wiped(a, req[r])'
    BY <1>2, <2>2, <2>3, <2>5 DEF Steady, Wiped
  <2>10. \A a \in Asset \ clashed : Wiped(a, req[r]) => home'[a] = None
    BY <2>3 DEF Wiped
  <2>11. QED
    BY <1>2, <1>3, <2>2, <2>3, <2>5, <2>6, <2>7, <2>8, <2>9, <2>10, DeletionStep
<1>7. CASE DropVolume(r)
  <2>1. /\ req[r].pc = "dropVolume" /\ Finish(r) /\ volumes' = volumes \ {req[r].from}
        /\ UNCHANGED <<used, home, bytes, made, clashed, doomed, cut, started, faults>>
    BY <1>7 DEF DropVolume, At, ghosts, bounds
  <2>2. req' \in [Req -> Request] /\ req'[r] = Idle /\ \A q \in Req \ {r} : req'[q] = req[q]
    BY <1>1, <2>1, Finishing
  <2>3. TypeOK'
    BY <1>1, <2>1, <2>2 DEF TypeOK
  <2>4. Shaped(req[r])' /\ \A c : Copies(c)' = Copies(c)
    BY <2>1, <2>2, IdleRequest DEF Copies
  <2>5. Known'
    <3>1. /\ \A a \in Asset : home'[a] \in made \cup {None}
          /\ \A a \in Asset \ made : home'[a] = None /\ Copies(a)' = {}
      BY <1>1, <2>1, <2>4 DEF Known
    <3>2. QED
      BY <2>1, <2>2, <3>1, KnownKept
  <2>6. ASSUME NEW a \in Asset \ clashed
        PROVE  /\ home[a] # req[r].from /\ (home[a] # None => home[a] \in volumes')
               /\ Steady(a, req[r])' /\ ~Wiped(a, req[r])' /\ ~Wiped(a, req[r])
               /\ \A q \in Req : req[q].asset = a => VolumesOf(req[q]) \cap volumes \subseteq volumes'
    <3>1. home[a] # req[r].from
      BY <1>3, <2>1 DEF Steady
    <3>2. QED
      BY <1>3, <2>1, <2>2, <3>1, IdleRequest DEF Steady, Wiped
  <2>7. QED
    BY <1>2, <1>3, <2>1, <2>2, <2>3, <2>4, <2>5, <2>6, IdleRequest, DeletionStep
<1>8. QED
  BY <1>4, <1>5, <1>6, <1>7

-----------------------------------------------------------------------------
(* Failures, and the theorems. *)

LEMMA FailKeeps ==
  ASSUME MediaInv, NEW r \in Req, Fail(r)
  PROVE  MediaInv'
<1> USE Identities
<1>1. /\ req[r].pc # "idle" /\ faults' = faults + 1 /\ Finish(r)
      /\ cut' = cut \cup InHand(r) \cup (IF req[r].op = "deleteVolume" THEN {req[r].from} ELSE {})
      /\ UNCHANGED <<volumes, used, home, bytes, started, made, clashed, doomed>>
  BY DEF Fail, At, stores
<1>2. TypeOK /\ Known /\ Shaped(req[r])
  BY DEF MediaInv
<1>3. faults' \in Nat /\ cut \subseteq cut' /\ cut' \subseteq Asset \cup Volume
  <2>1. InHand(r) \subseteq Asset
    BY DEF InHand
  <2>2. req[r].op = "deleteVolume" => req[r].from \in Volume
    BY <1>2 DEF Shaped
  <2>3. QED
    BY <1>1, <1>2, <2>1, <2>2 DEF TypeOK
<1>4. CASE req[r].op = "deleteVolume"
  <2>1. req' \in [Req -> Request] /\ req'[r] = Idle /\ \A q \in Req \ {r} : req'[q] = req[q]
    BY <1>1, <1>2, Finishing
  <2>2. UNCHANGED <<volumes, used, home, bytes, started, made, clashed, doomed>>
    BY <1>1
  <2>3. TypeOK'
    BY <1>2, <1>3, <2>1, <2>2 DEF TypeOK
  <2>4. Shaped(req[r])' /\ \A c : Copies(c)' = Copies(c)
    BY <2>1, <2>2, IdleRequest DEF Copies
  <2>5. Known'
    <3>1. /\ \A a \in Asset : home'[a] \in made \cup {None}
          /\ \A a \in Asset \ made : home'[a] = None /\ Copies(a)' = {}
      BY <1>2, <2>2, <2>4 DEF Known
    <3>2. QED
      BY <2>1, <2>2, <3>1, KnownKept
  <2>6. ASSUME NEW a \in Asset \ clashed
        PROVE  /\ home[a] # None => home[a] \in volumes
               /\ Steady(a, req[r])' /\ ~Wiped(a, req[r])'
               /\ Wiped(a, req[r]) => a \in cut'
    <3>1. Wiped(a, req[r]) => a \in InHand(r)
      BY <1>4 DEF Wiped, InHand
    <3>2. QED
      BY <1>1, <2>1, <3>1, IdleRequest DEF MediaInv, Steady, Wiped
  <2>7. QED
    BY <1>3, <1>4, <2>1, <2>2, <2>3, <2>4, <2>5, <2>6, IdleRequest, DeletionStep
<1>5. CASE req[r].op # "deleteVolume"
  <2>1. req[r].asset \in Asset /\ req[r].asset # None
    BY <1>1, <1>2, <1>5 DEF Shaped
  <2>2. PICK b : req[r].asset = b
    OBVIOUS
  <2>3. b \in cut'
    BY <1>1, <2>1, <2>2 DEF InHand
  <2>4. b \notin clashed =>
              /\ home[b] # None => home[b] \in volumes
              /\ Steady(b, req[r])
              /\ b \notin doomed => Kept(b)
    BY <2>1, <2>2, OwnAsset
  <2>5. b \notin clashed => home[b] \in VolumesOf(req[r]) \cup {None}
    BY <1>2, <2>1, <2>2, <2>4 DEF Steady, Shaped, VolumesOf
  <2>6. b \notin clashed /\ b \notin doomed /\ home[b] # None => Copies(b) # {}
    BY <2>4 DEF Kept
  <2>7. UNCHANGED <<volumes, used, home, bytes, started, made, clashed, doomed>> /\ Finish(r)
    BY <1>1
  <2>8. used' \in [Volume -> Int] /\ home' \in [Asset -> Volume \cup {None}]
    BY <1>2, <2>7 DEF TypeOK
  <2>9. QED
    BY <1>3, <1>5, <2>1, <2>2, <2>3, <2>4, <2>5, <2>6, <2>7, <2>8, EndKeeps
<1>6. QED
  BY <1>4, <1>5

LEMMA MediaStep ==
  ASSUME MediaInv, [Next]_vars
  PROVE  MediaInv'
<1>1. CASE Next
  BY <1>1, VolumesKeep, StartsKeep, DeletionsKeep, UploadsKeep, AccountsKeep, LooksKeep, MovesKeep, EndsKeep,
     FailKeeps DEF Next
<1>2. CASE UNCHANGED vars
  <2>1. UNCHANGED <<volumes, used, home, bytes, req, made, clashed, doomed, cut, started, faults>>
    BY <1>2 DEF vars, stores, ghosts, bounds
  <2>2. TypeOK' /\ \A r \in Req : Shaped(req[r])'
    BY <2>1 DEF MediaInv, TypeOK, Shaped
  <2>3. \A a : Copies(a)' = Copies(a)
    BY <2>1 DEF Copies
  <2>4. Known'
    BY <2>1, <2>3 DEF MediaInv, Known, VolumesOf
  <2>5. ASSUME NEW a \in Asset \ clashed
        PROVE  /\ \A r \in Req : Steady(a, req[r])' /\ \A q \in Req \ {r} : Apart(a, req[r], req[q])'
               /\ a \notin cut => Exact(a)'
               /\ a \notin doomed => Kept(a)'
    <3>1. /\ \A r \in Req : Steady(a, req[r]) /\ \A q \in Req \ {r} : Apart(a, req[r], req[q])
          /\ a \notin cut => Exact(a)
          /\ a \notin doomed => Kept(a)
      BY DEF MediaInv
    <3>2. \A r \in Req : Steady(a, req[r])'
      BY <2>1, <3>1 DEF Steady
    <3>3. \A r \in Req : \A q \in Req \ {r} : Apart(a, req[r], req[q])'
      BY <2>1, <3>1 DEF Apart, VolumesOf
    <3>4. a \notin cut => Exact(a)'
      BY <2>1, <2>3, <3>1 DEF Exact, Wiped, Expected
    <3>5. a \notin doomed => Kept(a)'
      BY <2>1, <2>3, <3>1 DEF Kept
    <3>6. QED
      BY <3>1, <3>2, <3>3, <3>4, <3>5
  <2>6. QED
    BY <2>1, <2>2, <2>4, <2>5 DEF MediaInv
<1>3. QED
  BY <1>1, <1>2

LEMMA MediaAlways == Spec => []MediaInv
<1>1. MediaInv /\ [Next]_vars => MediaInv'
  BY MediaStep
<1>2. QED
  BY <1>1, MediaInit, PTL DEF Spec

\* The state of the media service has its types.
THEOREM MediaTypes == Spec => []TypeOK
<1>1. MediaInv => TypeOK
  BY DEF MediaInv
<1>2. QED
  BY <1>1, MediaAlways, PTL

LEMMA MediaInvSafe == MediaInv => BytesSafe
<1> USE Identities
<1> SUFFICES ASSUME MediaInv PROVE BytesSafe
  OBVIOUS
<1>1. Served
  <2> SUFFICES ASSUME NEW a \in Asset \ (clashed \cup cut), \A r \in Req : a \notin InHand(r)
               PROVE  /\ home[a] # None => Serve(a)
                      /\ Copies(a) = IF home[a] = None THEN {} ELSE {Place[home[a]]}
    BY DEF Served
  <2>1. \A r \in Req : req[r].asset # a /\ ~Wiped(a, req[r])
    <3>1. ASSUME NEW r \in Req, Wiped(a, req[r]) PROVE FALSE
      <4>1. req[r].op = "deleteVolume"
        BY <3>1 DEF MediaInv, Shaped, Wiped
      <4>2. QED
        BY <3>1, <4>1 DEF InHand, Wiped
    <3>2. QED
      BY <3>1 DEF InHand
  <2>2. Exact(a) /\ (home[a] # None => home[a] \in volumes)
    BY DEF MediaInv
  <2>3. Copies(a) = IF home[a] = None THEN {} ELSE {Place[home[a]]}
    BY <2>1, <2>2 DEF Exact
  <2>4. home[a] # None => Serve(a)
    BY <2>2, <2>3 DEF Serve, Get, Copies
  <2>5. QED
    BY <2>3, <2>4
<1>2. CopyKept
  BY DEF CopyKept, MediaInv, Kept
<1>3. QED
  BY <1>1, <1>2 DEF BytesSafe

\* The volume an asset's record names stores its bytes, and no other place does,
\* once the requests on it are over, and a move that fails or dies loses none
\* (upload, move, remove and deleteVolume of media.service.ts).
THEOREM BytesKept == Spec => []BytesSafe
BY MediaAlways, MediaInvSafe, PTL

-----------------------------------------------------------------------------
(* The usage of the volumes. *)

\* The bytes of the asset of s are in the usage of v while s is under way.
Bears(s, v) ==
  \/ /\ s.op \in {"move", "remove"} /\ s.from = v
     /\ s.pc \in {"source", "target", "get", "putTo", "dropFrom", "erase", "discharge"}
  \/ s.pc = "rehome" /\ s.to = v

Counts(a, v) ==
  \/ \E r \in Req : req[r].asset = a /\ Bears(req[r], v)
  \/ home[a] = v /\ \A r \in Req : req[r].asset # a

On(v) == {a \in Asset : Counts(a, v)}

\* The records on v are deleted, and v is about to be.
Emptied(v) == \E r \in Req : req[r].pc = "dropVolume" /\ req[r].from = v

UsageInv ==
  /\ IsFiniteSet(made)
  /\ clashed \cup cut = {} => \A v \in volumes : Emptied(v) \/ used[v] = SumOf(Size, On(v))

LEMMA OnKnown ==
  ASSUME MediaInv, IsFiniteSet(made), NEW v \in Volume
  PROVE  IsFiniteSet(On(v)) /\ On(v) \subseteq made /\ \A a \in Asset : Size[a] \in Int
<1>1. On(v) \subseteq made
  <2> SUFFICES ASSUME NEW a \in Asset, Counts(a, v) PROVE a \in made
    BY DEF On
  <2>1. v # None /\ a # None
    BY Identities
  <2>2. QED
    BY <2>1 DEF Counts, MediaInv, Known
<1>2. QED
  BY <1>1, FS_Subset, SizeAssumption

LEMMA UsageInit == Init => UsageInv
<1> SUFFICES ASSUME Init PROVE UsageInv
  OBVIOUS
<1>1. volumes = {} /\ made = {}
  BY DEF Init
<1>2. QED
  BY <1>1, FS_EmptySet DEF UsageInv

\* What a step leaves as it was for v.
Unmoved(v) ==
  /\ v \in volumes /\ used'[v] = used[v]
  /\ Emptied(v) => Emptied(v)'
  /\ \A a \in Asset : Counts(a, v)' <=> Counts(a, v)

LEMMA UsageStep ==
  ASSUME UsageInv, clashed \subseteq clashed', cut \subseteq cut', IsFiniteSet(made'),
         clashed' \cup cut' = {} =>
           \A v \in volumes' : Unmoved(v) \/ Emptied(v)' \/ used'[v] = SumOf(Size, On(v)')
  PROVE  UsageInv'
<1> SUFFICES ASSUME clashed' \cup cut' = {}, NEW v \in volumes'
             PROVE  Emptied(v)' \/ used'[v] = SumOf(Size, On(v)')
  BY DEF UsageInv
<1>1. clashed \cup cut = {}
  OBVIOUS
<1>2. CASE Unmoved(v)
  <2>1. On(v)' = On(v)
    BY <1>2 DEF On, Unmoved
  <2>2. Emptied(v) \/ used[v] = SumOf(Size, On(v))
    BY <1>1, <1>2 DEF UsageInv, Unmoved
  <2>3. QED
    BY <1>2, <2>1, <2>2 DEF Unmoved
<1>3. QED
  BY <1>2

\* What a step of r, on b, does to what counts.
Moves(r, b) ==
  /\ \A v : Emptied(v)' <=> Emptied(v)
  /\ \A a \in Asset \ {b} : \A v : Counts(a, v)' <=> Counts(a, v)
  /\ \A v : Counts(b, v) <=> Bears(req[r], v)
  /\ \A v : req'[r].asset = b => (Counts(b, v)' <=> Bears(req[r], v)')
  /\ \A v : req'[r].asset # b => (Counts(b, v)' <=> home'[b] = v)

\* A step of a request on b moves no asset but b.
LEMMA HandedOn ==
  ASSUME MediaInv, NEW r \in Req, NEW b \in Asset, req[r].asset = b, clashed = {},
         \A q \in Req \ {r} : req'[q] = req[q],
         req'[r].asset \in {b, None}, req'[r].pc # "dropVolume", req[r].op # "deleteVolume",
         \A a \in Asset \ {b} : home'[a] = home[a]
  PROVE  Moves(r, b)
<1>1. b # None
  BY Identities
<1>2. \A q \in Req \ {r} : req[q].asset # b
  BY DEF MediaInv, Apart
<1>3. req[r].pc # "dropVolume"
  BY DEF MediaInv, Shaped
<1>4. \A v : Emptied(v)' <=> Emptied(v)
  BY <1>3 DEF Emptied
<1>5. ASSUME NEW a \in Asset \ {b}, NEW v PROVE Counts(a, v)' <=> Counts(a, v)
  <2>1. req'[r].asset # a /\ req[r].asset # a /\ home'[a] = home[a]
    BY Identities
  <2>2. \A q \in Req : req'[q].asset = a => req'[q] = req[q]
    BY <2>1
  <2>3. \A q \in Req : req'[q].asset = a <=> req[q].asset = a
    BY <2>1
  <2>4. \A q \in Req : req'[q].asset = a => (Bears(req[q], v)' <=> Bears(req[q], v))
    BY <2>2 DEF Bears
  <2>5. QED
    BY <2>1, <2>3, <2>4 DEF Counts
<1>6. \A v : Counts(b, v) <=> Bears(req[r], v)
  BY <1>2 DEF Counts
<1>7. \A q \in Req \ {r} : req'[q].asset # b
  BY <1>2
<1>8. ASSUME NEW v
      PROVE  /\ req'[r].asset = b => (Counts(b, v)' <=> Bears(req[r], v)')
             /\ req'[r].asset # b => (Counts(b, v)' <=> home'[b] = v)
  BY <1>7 DEF Counts
<1>9. QED
  BY <1>4, <1>5, <1>6, <1>8 DEF Moves

\* A step of a request on b that charges no volume.
LEMMA Uncharged ==
  ASSUME MediaInv, UsageInv, NEW r \in Req, NEW b, req[r].asset = b, b # None,
         \A q \in Req \ {r} : req'[q] = req[q],
         req'[r].asset \in {b, None}, req'[r].pc # "dropVolume", req[r].op # "deleteVolume",
         \A a \in Asset \ {b} : home'[a] = home[a],
         UNCHANGED <<volumes, used, made>>, clashed \subseteq clashed', cut \subseteq cut',
         clashed' \cup cut' = {} =>
           \A v \in volumes : Bears(req[r], v) <=> IF req'[r].asset = b THEN Bears(req[r], v)' ELSE home'[b] = v
  PROVE  UsageInv'
<1>1. SUFFICES ASSUME clashed' \cup cut' = {}, NEW v \in volumes PROVE Unmoved(v)
  BY UsageStep DEF UsageInv
<1>2. b \in Asset /\ Moves(r, b)
  <2>1. clashed = {} /\ b \in Asset
    BY <1>1 DEF MediaInv, TypeOK, Request
  <2>2. QED
    BY <2>1, HandedOn
<1>3. \A a \in Asset : Counts(a, v)' <=> Counts(a, v)
  <2>1. Counts(b, v)' <=> Counts(b, v)
    BY <1>1, <1>2 DEF Moves
  <2>2. QED
    BY <1>2, <2>1 DEF Moves
<1>4. QED
  BY <1>1, <1>2, <1>3 DEF Unmoved, Moves

\* Steps of uploads, moves and removals that leave storageUsed alone.
LEMMA UnchargedKeep ==
  ASSUME MediaInv, UsageInv, NEW r \in Req,
         \/ FindSource(r) \/ FindTarget(r) \/ GetBytes(r) \/ PutTarget(r) \/ DropSource(r) \/ Rehome(r)
         \/ PutUpload(r) \/ RecordAsset(r) \/ EraseBytes(r) \/ ForgetAsset(r)
  PROVE  UsageInv'
<1> USE Identities
<1>1. TypeOK /\ Shaped(req[r])
  BY DEF MediaInv
<1>2. req[r].pc \in {"source", "target", "get", "putTo", "dropFrom", "rehome", "put", "record", "erase", "forget"}
  BY DEF FindSource, FindTarget, GetBytes, PutTarget, DropSource, Rehome, PutUpload, RecordAsset, EraseBytes,
         ForgetAsset, At
<1>3. PICK b : req[r].asset = b
  OBVIOUS
<1>4. b # None /\ req[r].op # "deleteVolume"
  BY <1>2, <1>3, AwaitsOfAsset
<1>5. clashed = {} => (home[b] # None => home[b] \in volumes) /\ Steady(b, req[r])
  BY <1>3, <1>4, OwnAsset
<1>6. UNCHANGED <<volumes, used, made>> /\ clashed \subseteq clashed' /\ cut \subseteq cut'
  <2>1. CASE DropSource(r)
    BY <2>1 DEF DropSource, Delete
  <2>2. CASE EraseBytes(r)
    BY <2>2 DEF EraseBytes, Delete
  <2>3. CASE ~DropSource(r) /\ ~EraseBytes(r)
    BY <2>3 DEF FindSource, FindTarget, GetBytes, PutTarget, Rehome, PutUpload, RecordAsset, ForgetAsset, stores, ghosts
  <2>4. QED
    BY <2>1, <2>2, <2>3
<1>7. \A v \in volumes : v # None
  BY <1>1 DEF TypeOK
<1>8. ASSUME NEW pc, Goto(r, pc), home' = home,
             \/ req[r].pc \in {"source", "target", "get", "putTo", "dropFrom", "erase"}
                /\ pc \in {"target", "get", "putTo", "dropFrom", "erase", "discharge"}
             \/ req[r].pc = "put" /\ pc = "record"
             \/ req[r].pc = "source" /\ req[r].op = "remove" /\ req[r].from \notin volumes /\ pc = "forget"
      PROVE  UsageInv'
  <2>1. /\ \A q \in Req \ {r} : req'[q] = req[q]
        /\ req'[r].pc = pc /\ req'[r].op = req[r].op /\ req'[r].asset = req[r].asset
        /\ req'[r].from = req[r].from /\ req'[r].to = req[r].to
    BY <1>1, <1>8, Going
  <2>2. clashed = {} => ~(req[r].pc = "source" /\ req[r].op = "remove" /\ req[r].from \notin volumes)
    BY <1>1, <1>3, <1>5 DEF Steady, Shaped
  <2>3. clashed = {} => \A v \in volumes : Bears(req[r], v) <=> Bears(req[r], v)'
    BY <1>1, <1>8, <2>1, <2>2 DEF Bears
  <2>4. clashed' \cup cut' = {} => clashed = {}
    BY <1>6
  <2>5. QED
    BY <1>3, <1>4, <1>6, <1>8, <2>1, <2>3, <2>4, Uncharged
<1>9. ASSUME Finish(r), home' = home, req[r].pc \in {"source", "target", "get"}
      PROVE  UsageInv'
  <2>1. req'[r] = Idle /\ \A q \in Req \ {r} : req'[q] = req[q]
    BY <1>1, <1>9, Finishing
  <2>2. clashed = {} => \A v \in volumes : Bears(req[r], v) <=> home[b] = v
    BY <1>1, <1>3, <1>5, <1>9 DEF Bears, Steady, Shaped
  <2>3. clashed' \cup cut' = {} => clashed = {}
    BY <1>6
  <2>4. req'[r].asset = None /\ req'[r].pc # "dropVolume"
    BY <2>1, IdleRequest
  <2>5. QED
    BY <1>3, <1>4, <1>6, <1>9, <2>1, <2>2, <2>3, <2>4, Uncharged
<1>10. CASE FindSource(r) \/ FindTarget(r) \/ GetBytes(r)
  <2>1. home' = home
    BY <1>10 DEF FindSource, FindTarget, GetBytes, stores
  <2>2. req[r].pc = "source" /\ req[r].op # "move" => req[r].op = "remove"
    BY <1>1 DEF Shaped
  <2>3. CASE FindSource(r)
    BY <1>8, <1>9, <2>1, <2>2, <2>3 DEF FindSource, At
  <2>4. CASE FindTarget(r)
    BY <1>8, <1>9, <2>1, <2>4 DEF FindTarget, At
  <2>5. CASE GetBytes(r)
    BY <1>8, <1>9, <2>1, <2>5 DEF GetBytes, At
  <2>6. QED
    BY <1>10, <2>3, <2>4, <2>5
<1>11. CASE PutTarget(r) \/ DropSource(r) \/ PutUpload(r) \/ EraseBytes(r)
  BY <1>8, <1>11 DEF PutTarget, DropSource, PutUpload, EraseBytes, At
<1>12. CASE RecordAsset(r)
  <2>1. req[r].pc = "record" /\ Goto(r, "charge") /\ home' = [home EXCEPT ![b] = req[r].to]
    BY <1>3, <1>12 DEF RecordAsset, At
  <2>2. /\ \A q \in Req \ {r} : req'[q] = req[q]
        /\ req'[r].pc = "charge" /\ req'[r].op = req[r].op /\ req'[r].asset = req[r].asset
    BY <1>1, <2>1, Going
  <2>3. \A v \in volumes : ~Bears(req[r], v) /\ ~Bears(req[r], v)'
    BY <2>1, <2>2, <1>1 DEF Bears, Shaped
  <2>4. \A a \in Asset \ {b} : home'[a] = home[a]
    BY <1>1, <2>1 DEF TypeOK
  <2>5. QED
    BY <1>3, <1>4, <1>6, <2>2, <2>3, <2>4, Uncharged
<1>13. CASE Rehome(r)
  <2>1. /\ req[r].pc = "rehome" /\ Finish(r)
        /\ home' = IF home[b] = None THEN home ELSE [home EXCEPT ![b] = req[r].to]
    BY <1>3, <1>13 DEF Rehome, At
  <2>2. req'[r] = Idle /\ \A q \in Req \ {r} : req'[q] = req[q]
    BY <1>1, <2>1, Finishing
  <2>3. req'[r].asset = None /\ req'[r].pc # "dropVolume"
    BY <2>2, IdleRequest
  <2>4. b \in Asset /\ \A a \in Asset \ {b} : home'[a] = home[a]
    BY <1>1, <1>3, <1>4, <2>1 DEF TypeOK, Request
  <2>5. clashed = {} => home'[b] = req[r].to
    BY <1>1, <1>3, <1>5, <2>1, <2>4 DEF TypeOK, Steady, Shaped
  <2>6. clashed = {} => \A v \in volumes : Bears(req[r], v) <=> home'[b] = v
    BY <2>1, <2>5 DEF Bears
  <2>7. clashed' \cup cut' = {} => clashed = {}
    BY <1>6
  <2>8. QED
    BY <1>3, <1>4, <1>6, <2>2, <2>3, <2>4, <2>6, <2>7, Uncharged
<1>14. CASE ForgetAsset(r)
  <2>1. req[r].pc = "forget" /\ Finish(r) /\ home' = [home EXCEPT ![b] = None]
    BY <1>3, <1>14 DEF ForgetAsset, At
  <2>2. req'[r] = Idle /\ \A q \in Req \ {r} : req'[q] = req[q]
    BY <1>1, <2>1, Finishing
  <2>3. req'[r].asset = None /\ req'[r].pc # "dropVolume"
    BY <2>2, IdleRequest
  <2>4. b \in Asset /\ home'[b] = None /\ \A a \in Asset \ {b} : home'[a] = home[a]
    BY <1>1, <1>3, <1>4, <2>1 DEF TypeOK, Request
  <2>5. \A v \in volumes : Bears(req[r], v) <=> home'[b] = v
    BY <1>7, <2>1, <2>4 DEF Bears
  <2>6. QED
    BY <1>3, <1>4, <1>6, <2>2, <2>3, <2>4, <2>5, Uncharged
<1>15. QED
  BY <1>10, <1>11, <1>12, <1>13, <1>14

\* A step of a request on b that adds the bytes of b to the usage of w, where b
\* counts from now on, or takes them off that of w, where it counted.
LEMMA Charged ==
  ASSUME MediaInv, UsageInv, NEW r \in Req, NEW b \in Asset, NEW w \in volumes, Moves(r, b),
         UNCHANGED <<volumes, made, clashed, cut>>,
         \A v \in volumes \ {w} : used'[v] = used[v] /\ (Counts(b, v)' <=> Counts(b, v)),
         \/ used'[w] = used[w] + Size[b] /\ ~Counts(b, w) /\ Counts(b, w)'
         \/ used'[w] = used[w] - Size[b] /\ Counts(b, w) /\ ~Counts(b, w)'
  PROVE  UsageInv'
<1>1. TypeOK /\ IsFiniteSet(made)
  BY DEF MediaInv, UsageInv
<1>2. SUFFICES ASSUME clashed \cup cut = {}, NEW v \in volumes
               PROVE  Unmoved(v) \/ Emptied(v)' \/ used'[v] = SumOf(Size, On(v)')
  BY <1>1, UsageStep
<1>3. CASE v # w
  <2>1. \A a \in Asset : Counts(a, v)' <=> Counts(a, v)
    BY <1>3 DEF Moves
  <2>2. QED
    BY <1>3, <2>1 DEF Unmoved, Moves
<1>4. CASE v = w /\ Emptied(w)
  BY <1>4 DEF Moves
<1>5. CASE v = w /\ ~Emptied(w)
  <2>1. used[w] = SumOf(Size, On(w))
    BY <1>2, <1>5 DEF UsageInv
  <2>2. IsFiniteSet(On(w)) /\ (\A a \in Asset : Size[a] \in Int)
    BY <1>1, OnKnown DEF TypeOK
  <2>3. On(w) \subseteq Asset /\ (b \in On(w) <=> Counts(b, w))
    BY DEF On
  <2>4. CASE used'[w] = used[w] + Size[b] /\ ~Counts(b, w) /\ Counts(b, w)'
    <3>1. On(w)' = On(w) \cup {b}
      BY <2>4 DEF On, Moves
    <3>2. SumOf(Size, On(w) \cup {b}) = Size[b] + SumOf(Size, On(w))
      BY <2>2, <2>3, <2>4, SumWith
    <3>3. used[w] \in Int /\ Size[b] \in Int
      BY <1>1, <2>2 DEF TypeOK
    <3>4. QED
      BY <1>5, <2>1, <2>4, <3>1, <3>2, <3>3
  <2>5. CASE used'[w] = used[w] - Size[b] /\ Counts(b, w) /\ ~Counts(b, w)'
    <3>1. On(w)' = On(w) \ {b}
      BY <2>5 DEF On, Moves
    <3>2. SumOf(Size, On(w)) = Size[b] + SumOf(Size, On(w) \ {b})
      BY <2>2, <2>3, <2>5, SumWithout
    <3>3. SumOf(Size, On(w) \ {b}) \in Int
      <4>1. IsFiniteSet(On(w) \ {b})
        BY <2>2, FS_Subset
      <4>2. QED
        BY <2>2, <2>3, <4>1, SumType
    <3>4. used[w] \in Int /\ Size[b] \in Int
      BY <1>1, <2>2 DEF TypeOK
    <3>5. QED
      BY <1>5, <2>1, <2>5, <3>1, <3>2, <3>3, <3>4
  <2>6. QED
    BY <2>4, <2>5
<1>6. QED
  BY <1>3, <1>4, <1>5

\* bumpUsage.
LEMMA ChargesKeep ==
  ASSUME MediaInv, UsageInv, NEW r \in Req, Charge(r) \/ Discharge(r)
  PROVE  UsageInv'
<1> USE Identities
<1>1. TypeOK /\ Shaped(req[r]) /\ IsFiniteSet(made)
  BY DEF MediaInv, UsageInv
<1>2. req[r].pc \in {"charge", "discharge"} /\ UNCHANGED <<volumes, home, made, clashed, cut>>
  BY DEF Charge, Discharge, At, ghosts
<1>3. PICK b : req[r].asset = b
  OBVIOUS
<1>4. b # None /\ req[r].op # "deleteVolume" /\ b \in Asset
  BY <1>1, <1>2, <1>3, AwaitsOfAsset DEF TypeOK, Request
<1>5. SUFFICES ASSUME clashed = {} PROVE UsageInv'
  <2>1. clashed' \cup cut' = {} => clashed = {}
    BY <1>2
  <2>2. QED
    BY <1>1, <1>2, <1>5, <2>1 DEF UsageInv
<1>6. (home[b] # None => home[b] \in volumes) /\ Steady(b, req[r])
  BY <1>3, <1>4, <1>5, OwnAsset
<1>7. ASSUME NEW w \in volumes, NEW d \in Int, Bump(w, d)
      PROVE  used'[w] = used[w] + d /\ \A v \in volumes \ {w} : used'[v] = used[v]
  BY <1>1, <1>7 DEF Bump, TypeOK
<1>8. ASSUME NEW pc, Goto(r, pc), pc \in {"rehome", "charge", "forget"}
      PROVE  /\ Moves(r, b) /\ req'[r].pc = pc /\ req'[r].op = req[r].op
             /\ req'[r].asset = b /\ req'[r].from = req[r].from /\ req'[r].to = req[r].to
  <2>1. /\ \A q \in Req \ {r} : req'[q] = req[q]
        /\ req'[r].pc = pc /\ req'[r].op = req[r].op /\ req'[r].asset = req[r].asset
        /\ req'[r].from = req[r].from /\ req'[r].to = req[r].to
    BY <1>1, <1>8, Going
  <2>2. req'[r].pc # "dropVolume" /\ \A a \in Asset \ {b} : home'[a] = home[a]
    BY <1>2, <1>8, <2>1
  <2>3. QED
    BY <1>3, <1>4, <1>5, <2>1, <2>2, HandedOn
<1>9. Size[b] \in Int /\ -Size[b] \in Int
  BY <1>4, SizeAssumption
<1>10. CASE Charge(r)
  <2>1. req[r].pc = "charge" /\ Bump(req[r].to, Size[b]) /\ (req[r].op = "move" => Goto(r, "rehome"))
        /\ (req[r].op # "move" => Finish(r))
    BY <1>3, <1>10 DEF Charge, At
  <2>2. req[r].op \in {"upload", "move"} /\ req[r].to \in volumes
    BY <1>1, <1>3, <1>6, <2>1 DEF Shaped, Steady
  <2>3. used'[req[r].to] = used[req[r].to] + Size[b] /\ \A v \in volumes \ {req[r].to} : used'[v] = used[v]
    BY <1>7, <1>9, <2>1, <2>2
  <2>4. \A v : ~Bears(req[r], v)
    BY <2>1 DEF Bears
  <2>5. Moves(r, b) /\ \A v : Counts(b, v)' <=> v = req[r].to
    <3>1. CASE req[r].op = "move"
      <4>1. Moves(r, b) /\ req'[r].pc = "rehome" /\ req'[r].asset = b /\ req'[r].to = req[r].to
        BY <1>8, <2>1, <3>1
      <4>2. \A v : Bears(req[r], v)' <=> v = req[r].to
        BY <4>1 DEF Bears
      <4>3. QED
        BY <4>1, <4>2 DEF Moves
    <3>2. CASE req[r].op = "upload"
      <4>1. req'[r] = Idle /\ \A q \in Req \ {r} : req'[q] = req[q]
        BY <1>1, <2>1, <3>2, Finishing
      <4>2. req'[r].asset = None /\ req'[r].pc # "dropVolume" /\ \A a \in Asset \ {b} : home'[a] = home[a]
        BY <1>2, <4>1, IdleRequest
      <4>3. Moves(r, b)
        BY <1>3, <1>4, <1>5, <4>1, <4>2, HandedOn
      <4>4. home'[b] = req[r].to
        BY <1>2, <1>3, <1>6, <2>1, <3>2 DEF Steady
      <4>5. QED
        BY <1>4, <4>2, <4>3, <4>4 DEF Moves
    <3>3. QED
      BY <2>2, <3>1, <3>2
  <2>6. \A v : ~Counts(b, v)
    BY <2>4, <2>5 DEF Moves
  <2>7. QED
    BY <1>2, <1>4, <2>2, <2>3, <2>5, <2>6, Charged
<1>11. CASE Discharge(r)
  <2>1. req[r].pc = "discharge" /\ Bump(req[r].from, -Size[b])
        /\ (Goto(r, "charge") \/ Goto(r, "forget"))
    BY <1>3, <1>11 DEF Discharge, At
  <2>2. req[r].op \in {"remove", "move"} /\ req[r].from \in volumes
    BY <1>1, <1>3, <1>6, <2>1 DEF Shaped, Steady
  <2>3. used'[req[r].from] = used[req[r].from] + (-Size[b]) /\ \A v \in volumes \ {req[r].from} : used'[v] = used[v]
    BY <1>7, <1>9, <2>1, <2>2
  <2>4. \A v : Bears(req[r], v) <=> v = req[r].from
    BY <2>1, <2>2 DEF Bears
  <2>5. Moves(r, b) /\ req'[r].asset = b /\ req'[r].pc \in {"charge", "forget"}
    BY <1>8, <2>1
  <2>6. \A v : ~Bears(req[r], v)'
    BY <2>5 DEF Bears
  <2>7. \A v : ~Counts(b, v)' /\ (Counts(b, v) <=> v = req[r].from)
    BY <2>4, <2>5, <2>6 DEF Moves
  <2>8. used'[req[r].from] = used[req[r].from] - Size[b]
    <3>1. used[req[r].from] \in Int
      BY <1>1, <2>2 DEF TypeOK
    <3>2. QED
      BY <1>9, <2>3, <3>1
  <2>9. QED
    BY <1>2, <1>4, <2>2, <2>3, <2>5, <2>7, <2>8, Charged
<1>12. QED
  BY <1>10, <1>11

\* A new volume has no asset, and storageUsed 0.
LEMMA NewVolumesKeep ==
  ASSUME MediaInv, UsageInv, (\E v \in Volume : CreateVolume(v)) \/ \E r \in Req : EnsureDefaultVolume(r)
  PROVE  UsageInv'
<1> USE Identities
<1>1. TypeOK /\ Known /\ IsFiniteSet(made)
  BY DEF MediaInv, UsageInv
<1>2. PICK w \in Volume : AddVolume(w) /\ UNCHANGED <<home, clashed, cut>>
        /\ \/ req' = req
           \/ \E r \in Req : req[r].pc = "ensure" /\ req' = [req EXCEPT ![r].pc = "put", ![r].to = w]
  BY DEF CreateVolume, EnsureDefaultVolume, At
<1>3. w \notin made /\ made' = made \cup {w} /\ volumes' = volumes \cup {w} /\ used' = [used EXCEPT ![w] = 0]
  BY <1>2 DEF AddVolume
<1>4. ASSUME NEW q \in Req
      PROVE  /\ req'[q].asset = req[q].asset
             /\ req'[q].pc = "dropVolume" <=> req[q].pc = "dropVolume"
             /\ req'[q].from = req[q].from
             /\ \A v : Bears(req[q], v)' <=> Bears(req[q], v)
  <2>1. CASE req'[q] = req[q]
    BY <2>1 DEF Bears
  <2>2. CASE req[q].pc = "ensure" /\ req' = [req EXCEPT ![q].pc = "put", ![q].to = w]
    <3>1. req'[q].pc = "put" /\ req'[q].asset = req[q].asset /\ req'[q].from = req[q].from
      BY <1>1, <2>2 DEF TypeOK, Request
    <3>2. QED
      BY <2>2, <3>1 DEF Bears
  <2>3. QED
    BY <1>1, <1>2, <2>1, <2>2 DEF TypeOK
<1>5. \A a, v : Counts(a, v)' <=> Counts(a, v)
  BY <1>2, <1>4 DEF Counts
<1>6. \A v : Emptied(v)' <=> Emptied(v)
  BY <1>4 DEF Emptied
<1>7. ASSUME NEW v \in volumes PROVE Unmoved(v)
  <2>1. v # w /\ v \in Volume
    BY <1>1, <1>3 DEF Known, TypeOK
  <2>2. used'[v] = used[v]
    BY <1>1, <1>3, <2>1 DEF TypeOK
  <2>3. QED
    BY <1>5, <1>6, <2>2 DEF Unmoved
<1>8. used'[w] = SumOf(Size, On(w)')
  <2>1. \A a \in Asset : ~Counts(a, w)
    <3>1. ASSUME NEW q \in Req PROVE ~Bears(req[q], w)
      BY <1>1, <1>3 DEF Bears, Known, VolumesOf
    <3>2. \A a \in Asset : home[a] # w
      BY <1>1, <1>3 DEF Known
    <3>3. QED
      BY <3>1, <3>2 DEF Counts
  <2>2. On(w)' = {}
    BY <1>5, <2>1 DEF On
  <2>3. SumOf(Size, {}) = 0
    BY FS_EmptySet, SumRecursion
  <2>4. QED
    BY <1>1, <1>3, <2>2, <2>3 DEF TypeOK
<1>9. IsFiniteSet(made')
  BY <1>1, <1>3, FS_AddElement
<1>10. \A v \in volumes' : Unmoved(v) \/ Emptied(v)' \/ used'[v] = SumOf(Size, On(v)')
  BY <1>3, <1>7, <1>8
<1>11. QED
  BY <1>2, <1>9, <1>10, UsageStep

\* A request that begins, on an asset that nobody works on.
LEMMA Begun ==
  ASSUME MediaInv, UsageInv, NEW r \in Req, NEW s, Begin(r, s), s.pc # "dropVolume",
         UNCHANGED <<volumes, used, home, cut>>, IsFiniteSet(made'),
         s.asset = None \/ /\ s.asset \in Asset
                           /\ \A v \in volumes : Bears(s, v) <=> home[s.asset] = v
  PROVE  UsageInv'
<1> USE Identities
<1>1. TypeOK /\ Shaped(req[r]) /\ req[r].pc = "idle"
  BY DEF MediaInv, Begin, At
<1>2. req[r].asset = None
  BY <1>1 DEF Shaped
<1>3. req'[r] = s /\ \A q \in Req \ {r} : req'[q] = req[q]
  BY <1>1 DEF Begin, TypeOK
<1>4. clashed \subseteq clashed'
  BY DEF Begin
<1>5. ASSUME clashed' \cup cut' = {}, NEW v \in volumes
      PROVE  Unmoved(v)
  <2>1. \A q \in Req \ {r} : s.asset # None => req[q].asset # s.asset
    <3>1. SUFFICES ASSUME NEW q \in Req \ {r}, s.asset # None, req[q].asset = s.asset PROVE FALSE
      OBVIOUS
    <3>2. Meets(s, req[q])
      BY <3>1 DEF Meets
    <3>3. s.asset \in clashed'
      BY <3>1, <3>2 DEF Begin
    <3>4. QED
      BY <1>5, <3>3
  <2>2. Emptied(v) => Emptied(v)'
    BY <1>1, <1>3 DEF Emptied
  <2>3. ASSUME NEW a \in Asset PROVE Counts(a, v)' <=> Counts(a, v)
    <3>1. \A q \in Req \ {r} : req'[q] = req[q] /\ (Bears(req[q], v)' <=> Bears(req[q], v))
      BY <1>3
    <3>2. CASE a = s.asset
      <4>1. \A q \in Req : req[q].asset # a
        BY <1>2, <2>1, <3>2
      <4>2. Counts(a, v) <=> home[a] = v
        BY <4>1 DEF Counts
      <4>3. Counts(a, v)' <=> Bears(s, v)
        BY <1>3, <3>1, <3>2, <4>1 DEF Counts
      <4>4. QED
        BY <1>5, <3>2, <4>2, <4>3
    <3>3. CASE a # s.asset
      <4>1. req'[r].asset # a /\ req[r].asset # a /\ home'[a] = home[a]
        BY <1>2, <1>3, <3>3
      <4>2. QED
        BY <3>1, <4>1 DEF Counts
    <3>4. QED
      BY <3>2, <3>3
  <2>4. QED
    BY <2>2, <2>3 DEF Unmoved
<1>6. QED
  BY <1>4, <1>5, UsageStep

LEMMA BeginningsKeep ==
  ASSUME MediaInv, UsageInv, NEW r \in Req, Requested(r)
  PROVE  UsageInv'
<1> USE Identities
<1>1. TypeOK /\ Known /\ IsFiniteSet(made)
  BY DEF MediaInv, UsageInv
<1>2. \A v \in volumes : v \in Volume /\ v # None
  BY <1>1 DEF TypeOK
<1>3. CASE StartDeleteVolume(r)
  <2>1. PICK w \in volumes : Begin(r, [Idle EXCEPT !.op = "deleteVolume", !.pc = "list", !.from = w])
    BY Zenon, <1>3 DEF StartDeleteVolume
  <2>2. UNCHANGED <<volumes, used, home, made, cut>>
    BY Zenon, <1>3 DEF StartDeleteVolume, stores
  <2> DEFINE s == [Idle EXCEPT !.op = "deleteVolume", !.pc = "list", !.from = w]
  <2>3. s.asset = None /\ s.pc # "dropVolume" /\ Begin(r, s)
    BY <2>1 DEF Idle
  <2> HIDE DEF s
  <2>4. QED
    BY <1>1, <2>2, <2>3, Begun
<1>4. CASE StartUpload(r)
  <2>1. PICK a \in Asset \ made :
          /\ \/ \E v \in volumes :
                  Begin(r, [Idle EXCEPT !.op = "upload", !.pc = "put", !.asset = a, !.to = v])
             \/ Begin(r, [Idle EXCEPT !.op = "upload", !.pc = "ensure", !.asset = a])
          /\ made' = made \cup {a}
    BY Zenon, <1>4 DEF StartUpload
  <2>2. UNCHANGED <<volumes, used, home, cut>>
    BY Zenon, <1>4 DEF StartUpload, stores
  <2>3. IsFiniteSet(made')
    BY Zenon, <1>1, <2>1, FS_AddElement
  <2>4. ASSUME NEW s, Begin(r, s), s.op = "upload", s.pc \in {"put", "ensure"}, s.asset = a
        PROVE  UsageInv'
    <3>1. \A v \in volumes : ~Bears(s, v) /\ home[a] # v
      BY <1>1, <1>2, <2>4 DEF Bears, Known
    <3>2. QED
      BY <2>2, <2>3, <2>4, <3>1, Begun
  <2>5. CASE Begin(r, [Idle EXCEPT !.op = "upload", !.pc = "ensure", !.asset = a])
    <3> DEFINE s == [Idle EXCEPT !.op = "upload", !.pc = "ensure", !.asset = a]
    <3>1. s.op = "upload" /\ s.pc = "ensure" /\ s.asset = a /\ Begin(r, s)
      BY <2>5 DEF Idle
    <3> HIDE DEF s
    <3>2. QED
      BY <2>4, <3>1
  <2>6. ASSUME NEW v \in volumes,
               Begin(r, [Idle EXCEPT !.op = "upload", !.pc = "put", !.asset = a, !.to = v])
        PROVE  UsageInv'
    <3> DEFINE s == [Idle EXCEPT !.op = "upload", !.pc = "put", !.asset = a, !.to = v]
    <3>1. s.op = "upload" /\ s.pc = "put" /\ s.asset = a /\ Begin(r, s)
      BY <2>6 DEF Idle
    <3> HIDE DEF s
    <3>2. QED
      BY <2>4, <3>1
  <2>7. QED
    BY Zenon, <2>1, <2>5, <2>6
<1>5. CASE StartMove(r)
  <2>1. PICK a \in Asset, v \in Volume \cap made :
          Begin(r, [Idle EXCEPT !.op = "move", !.pc = "source", !.asset = a, !.from = home[a], !.to = v])
    BY Zenon, <1>5 DEF StartMove
  <2>2. UNCHANGED <<volumes, used, home, made, cut>>
    BY Zenon, <1>5 DEF StartMove, stores
  <2> DEFINE s == [Idle EXCEPT !.op = "move", !.pc = "source", !.asset = a, !.from = home[a], !.to = v]
  <2>3. s.op = "move" /\ s.asset = a /\ s.pc = "source" /\ s.from = home[a] /\ Begin(r, s)
    BY <2>1 DEF Idle
  <2> HIDE DEF s
  <2>4. \A w \in volumes : Bears(s, w) <=> home[s.asset] = w
    BY <2>3 DEF Bears
  <2>5. QED
    BY <1>1, <2>1, <2>2, <2>3, <2>4, Begun
<1>6. CASE StartRemove(r)
  <2>1. PICK a \in Asset :
          Begin(r, [Idle EXCEPT !.op = "remove", !.pc = "source", !.asset = a, !.from = home[a]])
    BY Zenon, <1>6 DEF StartRemove
  <2>2. UNCHANGED <<volumes, used, home, made, cut>>
    BY Zenon, <1>6 DEF StartRemove, stores
  <2> DEFINE s == [Idle EXCEPT !.op = "remove", !.pc = "source", !.asset = a, !.from = home[a]]
  <2>3. s.op = "remove" /\ s.asset = a /\ s.pc = "source" /\ s.from = home[a] /\ Begin(r, s)
    BY <2>1 DEF Idle
  <2> HIDE DEF s
  <2>4. \A w \in volumes : Bears(s, w) <=> home[s.asset] = w
    BY <2>3 DEF Bears
  <2>5. QED
    BY <1>1, <2>1, <2>2, <2>3, <2>4, Begun
<1>7. QED
  BY <1>3, <1>4, <1>5, <1>6 DEF Requested

\* deleteVolume: until the records are gone the usage stays, and then the volume
\* is about to go.
LEMMA VolumeDeletionsKeep ==
  ASSUME MediaInv, UsageInv, NEW r \in Req, ListAssets(r) \/ WipeAsset(r) \/ ForgetAll(r) \/ DropVolume(r)
  PROVE  UsageInv'
<1> USE Identities
<1>1. TypeOK /\ Shaped(req[r]) /\ IsFiniteSet(made)
  BY DEF MediaInv, UsageInv
<1>2. /\ UNCHANGED <<used, made, clashed>> /\ cut \subseteq cut' /\ volumes' \subseteq volumes
      /\ req[r].pc \in {"list", "wipe", "dropVolume"}
  BY DEF ListAssets, WipeAsset, ForgetAll, DropVolume, Delete, At, stores, ghosts
<1>3. req[r].op = "deleteVolume" /\ req[r].asset = None /\ \A v : ~Bears(req[r], v)
  BY <1>1, <1>2 DEF Shaped, Bears
<1>4. /\ req'[r].asset = None /\ \A q \in Req \ {r} : req'[q] = req[q]
      /\ ForgetAll(r) => req'[r].pc = "dropVolume" /\ req'[r].from = req[r].from
  BY <1>1, <1>3, IdleRequest DEF ListAssets, WipeAsset, ForgetAll, DropVolume, Goto, Finish, TypeOK, Request
<1>5. ASSUME NEW a \in Asset, NEW v, home'[a] = v <=> home[a] = v
      PROVE  Counts(a, v)' <=> Counts(a, v)
  <2>1. \A q \in Req : req'[q].asset = a => req'[q] = req[q]
    BY <1>4
  <2>2. \A q \in Req : req'[q].asset = a <=> req[q].asset = a
    BY <1>3, <1>4
  <2>3. \A q \in Req : req'[q].asset = a => (Bears(req[q], v)' <=> Bears(req[q], v))
    BY <2>1
  <2>4. QED
    BY <1>5, <2>2, <2>3 DEF Counts
<1>6. ASSUME NEW v \in volumes', Emptied(v) PROVE Emptied(v)'
  <2>1. PICK q \in Req : req[q].pc = "dropVolume" /\ req[q].from = v
    BY <1>6 DEF Emptied
  <2>2. CASE q # r
    BY <1>4, <2>1, <2>2 DEF Emptied
  <2>3. CASE q = r
    <3>1. volumes' = volumes \ {v}
      BY <2>1, <2>3 DEF ListAssets, WipeAsset, ForgetAll, DropVolume, At
    <3>2. QED
      BY <1>6, <3>1
  <2>4. QED
    BY <2>2, <2>3
<1>7. ASSUME NEW v \in volumes' PROVE Unmoved(v) \/ Emptied(v)'
  <2>1. CASE ForgetAll(r) /\ v = req[r].from
    BY <1>4, <2>1 DEF Emptied
  <2>2. CASE ~ForgetAll(r) \/ v # req[r].from
    <3>1. v \in Volume /\ v # None
      BY <1>1, <1>2 DEF TypeOK
    <3>2. \A a \in Asset : home'[a] = v <=> home[a] = v
      BY <2>2, <3>1 DEF ListAssets, WipeAsset, ForgetAll, DropVolume, stores
    <3>3. \A a \in Asset : Counts(a, v)' <=> Counts(a, v)
      BY <1>5, <3>2
    <3>4. QED
      BY <1>2, <1>6, <3>3 DEF Unmoved
  <2>3. QED
    BY <2>1, <2>2
<1>8. QED
  BY <1>1, <1>2, <1>7, UsageStep

\* Nothing is said of the usage once a request failed.
LEMMA FailedKeeps ==
  ASSUME MediaInv, UsageInv, NEW r \in Req, Fail(r)
  PROVE  UsageInv'
<1>1. UNCHANGED made /\ cut' = cut \cup InHand(r) \cup (IF req[r].op = "deleteVolume" THEN {req[r].from} ELSE {})
      /\ req[r].pc # "idle"
  BY DEF Fail, At
<1>2. TypeOK /\ Shaped(req[r])
  BY DEF MediaInv
<1>3. req[r].op # "deleteVolume" => req[r].asset \in InHand(r)
  BY <1>1, <1>2 DEF Shaped, InHand
<1>4. cut' # {}
  BY <1>1, <1>3
<1>5. QED
  BY <1>1, <1>4 DEF UsageInv

LEMMA UsageAlways == Spec => [](MediaInv /\ UsageInv)
<1>1. MediaInv /\ UsageInv /\ [Next]_vars => MediaInv' /\ UsageInv'
  <2> SUFFICES ASSUME MediaInv, UsageInv, [Next]_vars PROVE UsageInv'
    BY MediaStep
  <2>1. CASE Next
    BY <2>1, UnchargedKeep, ChargesKeep, NewVolumesKeep, BeginningsKeep, VolumeDeletionsKeep, FailedKeeps DEF Next
  <2>2. CASE UNCHANGED vars
    <3>1. UNCHANGED <<volumes, used, home, req, made, clashed, cut>>
      BY <2>2 DEF vars, stores, ghosts
    <3>2. QED
      BY <3>1 DEF UsageInv, Emptied, On, Counts
  <2>3. QED
    BY <2>1, <2>2
<1>2. Init => MediaInv /\ UsageInv
  BY MediaInit, UsageInit
<1>3. QED
  BY <1>1, <1>2, PTL DEF Spec

\* At rest every asset counts on the volume its record names, which is stored.
LEMMA UsageInvExact == MediaInv /\ UsageInv => UsageExact
<1> SUFFICES ASSUME MediaInv, UsageInv, \A r \in Req : At(r, "idle"), clashed \cup cut = {}
             PROVE  /\ \A v \in volumes : used[v] = SumOf(Size, {a \in Asset : home[a] = v})
                    /\ SumOf(used, volumes) = UsedBytes
  BY DEF UsageExact
<1> USE Identities
<1>1. TypeOK /\ Known /\ IsFiniteSet(made)
  BY DEF MediaInv, UsageInv
<1>2. \A r \in Req : req[r].pc = "idle" /\ req[r].asset = None
  BY DEF At, MediaInv, Shaped
<1>3. \A v \in volumes : used[v] = SumOf(Size, On(v))
  BY <1>2 DEF UsageInv, Emptied
<1>4. \A v : On(v) = {a \in Asset : home[a] = v}
  BY <1>2 DEF On, Counts, Bears
<1>5. \A v \in volumes : used[v] = SumOf(Size, {a \in Asset : home[a] = v})
  BY <1>3, <1>4
<1> DEFINE Stored == {a \in Asset : home[a] # None}
<1>6. IsFiniteSet(Stored) /\ IsFiniteSet(volumes)
  <2>1. Stored \subseteq made /\ volumes \subseteq made
    BY <1>1 DEF Known
  <2>2. QED
    BY <1>1, <2>1, FS_Subset
<1>7. \A a \in Stored : Size[a] \in Int /\ home[a] \in volumes
  BY SizeAssumption DEF MediaInv
<1>8. \A v \in volumes : used[v] = SumOf(Size, Part(home, Stored, v))
  <2>1. \A v \in volumes : Part(home, Stored, v) = {a \in Asset : home[a] = v}
    BY <1>1 DEF TypeOK, Part
  <2>2. QED
    BY <1>5, <2>1
<1> HIDE DEF Stored
<1>9. SumOf(used, volumes) = SumOf(Size, Stored)
  BY <1>6, <1>7, <1>8, SumPartition
<1>10. QED
  BY <1>5, <1>9 DEF UsedBytes, Stored

\* Without failures and overlaps on one asset, storageUsed of every volume is,
\* at rest, the sum of the sizes of the assets on it, however uploads, moves and
\* removals of different assets overlapped; and the overview adds up
\* (bumpUsage and its callers, overview of media.service.ts).
THEOREM UsageSafe == Spec => []UsageExact
BY UsageAlways, UsageInvExact, PTL
=============================================================================
