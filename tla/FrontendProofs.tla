--------------------------- MODULE FrontendProofs ---------------------------
(***************************************************************************)
(* Proofs about the pages of the frontend, for all rows, documents,        *)
(* queries, calls and so on.  Each part gives, for one module, an          *)
(* inductive invariant, a lemma for the initial states, one for the steps, *)
(* and the theorem:                                                        *)
(*                                                                         *)
(*   LatestSafe   the results shown are those of the last query            *)
(*   PagesSafe    texts stay with their documents, reads are told once,    *)
(*                profiles are saved as they were edited                   *)
(*   PanelsSafe   a quiet panel shows the records, a refused draft is kept *)
(*   ListingSafe  moves lose and double nothing, counts add up             *)
(*   EditsSafe    a schema applied reads as typed, a snippet stands apart  *)
(*   TypesSafe    the service and the pages keep their types               *)
(***************************************************************************)
EXTENDS Frontend, MediaProofs, SequenceTheorems

\* Whichever part is in focus stays so, and steps as its own module says.
LEMMA FocusStays ==
  ASSUME [FocusNext]_focusVars
  PROVE  /\ focus' = focus
         /\ focus = "panels" => [P!Next]_(P!vars)
         /\ focus = "fields" => [F!Next]_(F!vars)
         /\ focus = "doc" => [D!Next]_(D!vars)
         /\ focus = "queries" => [Q!Next]_(Q!vars)
         /\ focus = "listing" => [L!Next]_(L!vars)
         /\ focus = "profile" => [U!Next]_(U!vars)
<1>1. CASE FocusNext
  BY <1>1 DEF FocusNext
<1>2. CASE UNCHANGED focusVars
  <2>1. UNCHANGED <<focus, steps, started, faults>> /\ UNCHANGED panelVars /\ UNCHANGED docVars
        /\ UNCHANGED queryVars /\ UNCHANGED listVars /\ UNCHANGED userVars /\ UNCHANGED fieldVars
    BY <1>2 DEF focusVars, vars, bounds
  <2>2. UNCHANGED P!vars /\ UNCHANGED D!vars /\ UNCHANGED F!vars
    BY <2>1 DEF panelVars, P!vars, P!history, docVars, D!vars, D!history, fieldVars, F!vars
  <2>3. UNCHANGED Q!vars /\ UNCHANGED L!vars /\ UNCHANGED U!vars
    BY <2>1 DEF queryVars, Q!vars, listVars, L!vars, L!history, userVars, U!vars
  <2>4. QED
    BY <2>1, <2>2, <2>3
<1>3. QED
  BY <1>1, <1>2

-----------------------------------------------------------------------------
(* Queries: what a page that asks again shows. *)

\* Nothing is under way but the last query, which the search makes after a pause;
\* the library asks for older items of the filter it shows, or has mixed them.
LatestInv ==
  /\ page \in {"search", "insights", "media", "palette"}
  /\ page # "palette" => live \subseteq {query}
  /\ page \in {"insights", "media"} => query # None
  /\ None \notin live
  /\ pause => page = "search" /\ live = {} /\ query # None
  /\ page \in {"search", "insights"} => more = None /\ (loading <=> pause \/ live # {})
  /\ page # "palette" /\ live = {} /\ ~pause /\ ~failed /\ ~blended => hits = {query} \ {None}
  /\ more # None => page = "media" /\ (blended \/ (more = query /\ live = {}))

LEMMA InitLatest == Q!Init => LatestInv
BY QueriesAssumption DEF Q!Init, LatestInv

LEMMA SearchLatest ==
  ASSUME LatestInv, NEW q \in Query \cup {None}, Q!Search(q) \/ Q!Pause
  PROVE  LatestInv'
BY DEF LatestInv, Q!Search, Q!Pause, Q!NextSignal, Q!Abort

LEMMA LoadLatest ==
  ASSUME LatestInv, NEW q \in Query, Q!LoadAnalytics(q) \/ Q!LoadMedia(q)
  PROVE  LatestInv'
<1>0. q # None
  BY QueriesAssumption
<1>1. CASE Q!LoadAnalytics(q)
  BY <1>0, <1>1 DEF LatestInv, Q!LoadAnalytics, Q!NextSignal
<1>2. CASE Q!LoadMedia(q)
  <2>1. /\ page = "media" /\ page' = page /\ query' = q /\ live' = {q}
        /\ UNCHANGED <<pause, more, hits, loading>>
    BY <1>2 DEF Q!LoadMedia, Q!NextSignal
  <2>2. more # None => blended'
    BY <1>2 DEF Q!LoadMedia
  <2>3. QED
    BY <1>0, <2>1, <2>2 DEF LatestInv
<1>3. QED
  BY <1>1, <1>2

LEMMA AnswerLatest ==
  ASSUME LatestInv, NEW q \in Query, Q!Answer(q) \/ Q!Fail(q)
  PROVE  LatestInv'
<1>0. q # None
  BY QueriesAssumption
<1>1. /\ q \in live /\ live' = live \ {q} /\ ~loading'
      /\ UNCHANGED <<page, query, pause, more>>
  BY DEF Q!Answer, Q!Fail
<1>2. page # "palette" => live = {q} /\ query = q /\ ~pause
  BY <1>1 DEF LatestInv
<1>3. hits' = {q} \/ failed'
  BY DEF Q!Answer, Q!Fail
<1>4. more # None => blended'
  <2>1. more # None => blended
    BY <1>1 DEF LatestInv
  <2>2. CASE Q!Answer(q)
    <3>1. blended' <=> (blended /\ more # None)
      BY <2>2 DEF Q!Answer
    <3>2. QED
      BY <2>1, <3>1
  <2>3. CASE Q!Fail(q)
    <3>1. blended' <=> blended
      BY <2>3 DEF Q!Fail
    <3>2. QED
      BY <2>1, <3>1
  <2>4. QED
    BY <2>2, <2>3
<1>5. QED
  BY <1>0, <1>1, <1>2, <1>3, <1>4 DEF LatestInv

LEMMA MoreLatest ==
  ASSUME LatestInv, Q!LoadMoreAssets \/ Q!AnswerMore
  PROVE  LatestInv'
<1>1. UNCHANGED <<page, query, pause, live, loading, failed>>
  BY DEF Q!LoadMoreAssets, Q!AnswerMore
<1>2. CASE Q!LoadMoreAssets
  <2>1. page = "media" /\ more' = query /\ hits' = hits
    BY <1>2 DEF Q!LoadMoreAssets
  <2>2. blended' <=> (blended \/ live # {})
    BY <1>2 DEF Q!LoadMoreAssets
  <2>3. QED
    BY <1>1, <2>1, <2>2 DEF LatestInv
<1>3. CASE Q!AnswerMore
  <2>1. more # None /\ more' = None /\ hits' \in {hits, hits \cup {more}}
    BY <1>3 DEF Q!AnswerMore
  <2>2. blended' <=> blended
    BY <1>3 DEF Q!AnswerMore
  <2>3. page = "media" /\ query # None
    BY <2>1 DEF LatestInv
  <2>4. ~failed /\ ~blended => hits = {query} \ {None} /\ more = query
    BY <1>1, <2>1, <2>3 DEF LatestInv
  <2>5. QED
    BY <1>1, <2>1, <2>2, <2>3, <2>4 DEF LatestInv
<1>4. QED
  BY <1>2, <1>3

LEMMA PaletteLatest ==
  ASSUME LatestInv, Q!Toggle \/ Q!LoadDocuments \/ Q!SeeAbort \/ UNCHANGED Q!vars
  PROVE  LatestInv'
BY DEF LatestInv, Q!Toggle, Q!LoadDocuments, Q!SeeAbort, Q!Abort, Q!vars

LEMMA StepLatest ==
  ASSUME LatestInv, [Q!Next]_(Q!vars)
  PROVE  LatestInv'
BY SearchLatest, LoadLatest, AnswerLatest, MoreLatest, PaletteLatest DEF Q!Next

\* However fast the user asks again, and in whatever order the answers come, the
\* page ends with the results of what was asked last.
THEOREM LatestSafe == FocusSpec => []LatestShown
<1> DEFINE Inv == focus = "queries" => LatestInv
<1>1. FocusInit => Inv
  BY InitLatest DEF FocusInit
<1>2. Inv /\ [FocusNext]_focusVars => Inv'
  BY FocusStays, StepLatest
<1>3. Inv => LatestShown
  BY DEF LatestInv, LatestShown, Q!LatestShown
<1>4. QED
  BY <1>1, <1>2, <1>3, PTL DEF FocusSpec

-----------------------------------------------------------------------------
(* Profile: the account page. *)

\* A call for the profile, with what it has read.
Answer(g) == g = [id |-> g.id, seen |-> g.seen] /\ g.seen \in U!User \cup {None}

ProfileTyped ==
  /\ user \in U!User /\ profile \in U!User \cup {None}
  /\ fields \in U!Form \cup {None} /\ patch \in U!Patch \cup {None}
  /\ \A g \in gets : Answer(g)

\* Without a form, answers under way carry what is stored; a form that is open is
\* the only one to change it, and knows what it was not asked to change.
Edited ==
  /\ ~unasked
  /\ fields = None => /\ \A g \in gets : g.seen \in {None, user}
                      /\ gets = {} /\ ~broken => profile = user
  /\ fields # None =>
       /\ gets = {} /\ profile # None
       /\ patch = None \/ ~patch.done => profile = user
       /\ ~fields.typed => fields.text = profile.text
       /\ ~fields.picked => fields.avatar = profile.avatar /\ files = {}
       /\ patch # None => /\ ~patch.typed => patch.text = profile.text
                          /\ ~patch.picked => patch.avatar = None

ProfileInv ==
  /\ ProfileTyped
  /\ patch # None => fields # None
  /\ ~behind => Edited

LEMMA InitProfile == U!Init => ProfileInv
<1> SUFFICES ASSUME U!Init PROVE ProfileInv
  OBVIOUS
<1>1. profile = None /\ fields = None /\ patch = None /\ ~unasked /\ gets = {[id |-> 0, seen |-> None]}
  BY DEF U!Init
<1>2. user \in U!User
  BY DEF U!Init, U!User
<1>3. \A g \in gets : Answer(g) /\ g.seen = None
  BY <1>1 DEF Answer
<1>4. gets # {}
  BY <1>1
<1>5. QED
  BY <1>1, <1>2, <1>3, <1>4 DEF ProfileInv, ProfileTyped, Edited

LEMMA FormProfile ==
  ASSUME ProfileInv, U!OpenEdit \/ U!Close \/ (\E t \in Text \cup {None} : U!Type(t))
  PROVE  ProfileInv'
<1>1. UNCHANGED <<user, profile, patch, gets, files, broken, unasked>>
  BY DEF U!OpenEdit, U!Close, U!Type
<1>2. CASE U!OpenEdit
  <2> DEFINE s == [text |-> profile.text, avatar |-> profile.avatar, typed |-> FALSE, picked |-> FALSE]
  <2>1. profile # None /\ fields = None /\ fields' = s /\ patch = None /\ ~broken
    BY <1>2 DEF U!OpenEdit, ProfileInv
  <2>2. s \in U!Form
    BY <2>1 DEF ProfileInv, ProfileTyped, U!User, U!Form
  <2>3. s.text = profile.text /\ s.avatar = profile.avatar /\ s # None
    BY <2>2, ProfileAssumption
  <2>4. ~behind' => ~behind /\ gets = {} /\ files = {}
    <3>1. behind' <=> (behind \/ gets # {} \/ files # {})
      BY <1>2 DEF U!OpenEdit
    <3>2. QED
      BY <3>1
  <2> HIDE DEF s
  <2>5. ~behind' => profile = user
    BY <2>1, <2>4 DEF ProfileInv, Edited
  <2>6. ~behind' => Edited'
    BY <1>1, <2>1, <2>3, <2>4, <2>5 DEF ProfileInv, Edited
  <2>7. QED
    BY <1>1, <2>1, <2>2, <2>6 DEF ProfileInv, ProfileTyped
<1>3. CASE U!Close
  <2>1. fields # None /\ fields' = None /\ patch = None /\ behind' = behind
    BY <1>3 DEF U!Close
  <2>2. QED
    BY <1>1, <2>1 DEF ProfileInv, ProfileTyped, Edited
<1>4. ASSUME NEW t \in Text \cup {None}, U!Type(t)
      PROVE  ProfileInv'
  <2> DEFINE s == [fields EXCEPT !.text = t, !.typed = TRUE]
  <2>1. fields # None /\ fields' = s /\ behind' = behind
    BY <1>4 DEF U!Type
  <2>2. fields \in U!Form
    BY <2>1 DEF ProfileInv, ProfileTyped
  <2>3. s \in U!Form /\ s.avatar = fields.avatar /\ s.picked = fields.picked /\ s.typed
    BY <2>2 DEF U!Form
  <2>4. s # None
    BY <2>3, ProfileAssumption
  <2> HIDE DEF s
  <2>5. QED
    BY <1>1, <2>1, <2>3, <2>4 DEF ProfileInv, ProfileTyped, Edited
<1>5. QED
  BY <1>2, <1>3, <1>4

LEMMA AvatarProfile ==
  ASSUME ProfileInv, NEW a \in Avatar, U!PickAvatar(a) \/ U!AvatarReady(a)
  PROVE  ProfileInv'
<1>1. UNCHANGED <<user, profile, patch, gets, broken, unasked, behind>>
  BY DEF U!PickAvatar, U!AvatarReady
<1>2. CASE U!PickAvatar(a)
  <2> DEFINE s == [fields EXCEPT !.picked = TRUE]
  <2>1. fields # None /\ fields' = s
    BY <1>2 DEF U!PickAvatar
  <2>2. fields \in U!Form
    BY <2>1 DEF ProfileInv, ProfileTyped
  <2>3. s \in U!Form /\ s.text = fields.text /\ s.typed = fields.typed /\ s.picked
    BY <2>2 DEF U!Form
  <2>4. s # None
    BY <2>3, ProfileAssumption
  <2> HIDE DEF s
  <2>5. QED
    BY <1>1, <2>1, <2>3, <2>4 DEF ProfileInv, ProfileTyped, Edited
<1>3. CASE U!AvatarReady(a) /\ fields # None
  <2> DEFINE s == [fields EXCEPT !.avatar = a]
  <2>1. a \in files /\ fields' = s
    BY <1>3 DEF U!AvatarReady
  <2>2. fields \in U!Form
    BY <1>3 DEF ProfileInv, ProfileTyped
  <2>3. s \in U!Form /\ s.text = fields.text /\ s.typed = fields.typed /\ s.picked = fields.picked
    BY <2>2 DEF U!Form
  <2>4. s # None
    BY <2>3, ProfileAssumption
  <2> HIDE DEF s
  <2>5. ~behind => fields.picked
    BY <1>3, <2>1 DEF ProfileInv, Edited
  <2>6. QED
    BY <1>1, <1>3, <2>1, <2>3, <2>4, <2>5 DEF ProfileInv, ProfileTyped, Edited
<1>4. CASE U!AvatarReady(a) /\ fields = None
  <2>1. fields' = None
    BY <1>4 DEF U!AvatarReady
  <2>2. QED
    BY <1>1, <1>4, <2>1 DEF ProfileInv, ProfileTyped, Edited
<1>5. QED
  BY <1>2, <1>3, <1>4

LEMMA SaveProfile ==
  ASSUME ProfileInv, U!Save
  PROVE  ProfileInv'
<1> DEFINE v == IF fields.avatar = profile.avatar THEN None ELSE fields.avatar
           s == [text |-> fields.text, avatar |-> v,
                 typed |-> fields.typed, picked |-> fields.picked, done |-> FALSE]
<1>1. /\ fields # None /\ fields.text # None /\ patch = None /\ patch' = s
      /\ UNCHANGED <<user, profile, fields, gets, files, broken, behind, unasked>>
  BY DEF U!Save
<1>2. fields \in U!Form
  BY <1>1 DEF ProfileInv, ProfileTyped
<1>3. fields.text \in Text /\ v \in Avatar \cup {None} /\ fields.typed \in BOOLEAN /\ fields.picked \in BOOLEAN
  BY <1>1, <1>2 DEF U!Form
<1>4. s \in U!Patch
  BY <1>3 DEF U!Patch
<1>5. /\ s # None /\ s.text = fields.text /\ s.avatar = v
      /\ s.typed = fields.typed /\ s.picked = fields.picked /\ ~s.done
  BY <1>4, ProfileAssumption
<1>6. fields.avatar = profile.avatar => v = None
  OBVIOUS
<1> HIDE DEF s, v
<1>7. QED
  BY <1>1, <1>4, <1>5, <1>6 DEF ProfileInv, ProfileTyped, Edited

LEMMA UpdateProfile ==
  ASSUME ProfileInv, U!UpdateProfile
  PROVE  ProfileInv'
<1> DEFINE u == U!Updated(user, patch)
           s == [patch EXCEPT !.done = TRUE]
<1>1. /\ patch # None /\ ~patch.done /\ user' = u /\ patch' = s
      /\ UNCHANGED <<profile, fields, gets, files, broken, behind>>
  BY DEF U!UpdateProfile
<1>2. unasked' <=> \/ unasked
                   \/ u.text # user.text /\ ~patch.typed
                   \/ u.avatar # user.avatar /\ ~patch.picked
  BY DEF U!UpdateProfile
<1>3. patch \in U!Patch /\ user \in U!User /\ fields # None
  BY <1>1 DEF ProfileInv, ProfileTyped
<1>4. /\ u \in U!User /\ u.text = patch.text
      /\ u.avatar = (IF patch.avatar = None THEN user.avatar ELSE patch.avatar)
  BY <1>3 DEF U!Updated, U!Patch, U!User
<1>5. /\ s \in U!Patch /\ s.text = patch.text /\ s.avatar = patch.avatar
      /\ s.typed = patch.typed /\ s.picked = patch.picked /\ s.done = TRUE
  BY <1>3 DEF U!Patch
<1>6. s # None
  BY <1>5, ProfileAssumption
<1> HIDE DEF u, s
<1>7. ~behind => profile = user /\ ~unasked'
  <2>1. ASSUME ~behind
        PROVE  /\ profile = user /\ ~unasked
               /\ ~patch.typed => patch.text = profile.text
               /\ ~patch.picked => patch.avatar = None
    BY <1>1, <1>3, <2>1 DEF ProfileInv, Edited
  <2>2. QED
    BY <1>2, <1>4, <2>1
<1>8. ~behind => Edited'
  BY <1>1, <1>3, <1>5, <1>6, <1>7 DEF ProfileInv, Edited
<1>9. QED
  BY <1>1, <1>3, <1>4, <1>5, <1>8 DEF ProfileInv, ProfileTyped

LEMMA EndProfile ==
  ASSUME ProfileInv, U!EndSave \/ U!FailSave
  PROVE  ProfileInv'
<1>1. UNCHANGED <<user, profile, files, broken, unasked>> /\ patch # None /\ patch' = None
  BY DEF U!EndSave, U!FailSave
<1>2. CASE U!EndSave
  <2> DEFINE h == [id |-> steps, seen |-> None]
  <2>1. fields' = None /\ gets' = gets \cup {h} /\ behind' = behind
    BY <1>2 DEF U!EndSave, U!Reload
  <2>2. Answer(h) /\ h.seen = None
    BY DEF Answer
  <2> HIDE DEF h
  <2>3. ~behind => gets = {} /\ ~unasked
    BY <1>1 DEF ProfileInv, Edited
  <2>4. QED
    BY <1>1, <2>1, <2>2, <2>3 DEF ProfileInv, ProfileTyped, Edited
<1>3. CASE U!FailSave
  <2>1. fields' = fields /\ gets' = gets
    BY <1>3 DEF U!FailSave
  <2>2. ~behind' => ~behind /\ ~patch.done
    <3>1. behind' <=> (behind \/ patch.done)
      BY <1>3 DEF U!FailSave
    <3>2. QED
      BY <3>1
  <2>3. ~behind' => Edited'
    BY <1>1, <2>1, <2>2 DEF ProfileInv, Edited
  <2>4. QED
    BY <1>1, <2>1, <2>3 DEF ProfileInv, ProfileTyped
<1>4. QED
  BY <1>2, <1>3

LEMMA GetProfile ==
  ASSUME ProfileInv, NEW g \in gets, U!GetProfile(g) \/ U!SetProfile(g) \/ U!FailGet(g)
  PROVE  ProfileInv'
<1>1. UNCHANGED <<user, fields, patch, files, behind, unasked>>
  BY DEF U!GetProfile, U!SetProfile, U!FailGet
<1>2. ~behind => fields = None /\ g.seen \in {None, user}
  BY DEF ProfileInv, Edited
<1>3. Answer(g)
  BY DEF ProfileInv, ProfileTyped
<1>4. CASE U!GetProfile(g)
  <2> DEFINE h == [g EXCEPT !.seen = user]
  <2>1. gets' = (gets \ {g}) \cup {h} /\ UNCHANGED <<profile, broken>>
    BY <1>4 DEF U!GetProfile
  <2>2. Answer(h) /\ h.seen = user
    BY <1>3 DEF Answer, ProfileInv, ProfileTyped
  <2> HIDE DEF h
  <2>3. QED
    BY <1>1, <1>2, <2>1, <2>2 DEF ProfileInv, ProfileTyped, Edited
<1>5. CASE U!SetProfile(g)
  <2>1. g.seen # None /\ profile' = g.seen /\ gets' = gets \ {g} /\ broken' = broken
    BY <1>5 DEF U!SetProfile
  <2>2. g.seen \in U!User
    BY <1>3, <2>1 DEF Answer
  <2>3. QED
    BY <1>1, <1>2, <2>1, <2>2 DEF ProfileInv, ProfileTyped, Edited
<1>6. CASE U!FailGet(g)
  <2>1. broken' = TRUE /\ gets' = gets \ {g} /\ profile' = profile
    BY <1>6 DEF U!FailGet
  <2>2. QED
    BY <1>1, <1>2, <2>1 DEF ProfileInv, ProfileTyped, Edited
<1>7. QED
  BY <1>4, <1>5, <1>6

LEMMA StepProfile ==
  ASSUME ProfileInv, [U!Next]_(U!vars)
  PROVE  ProfileInv'
<1>1. CASE UNCHANGED U!vars
  BY <1>1 DEF U!vars, ProfileInv, ProfileTyped, Edited, Answer
<1>2. QED
  BY <1>1, FormProfile, AvatarProfile, SaveProfile, UpdateProfile, EndProfile, GetProfile DEF U!Next

LEMMA ProfileHolds == ProfileInv => U!ProfileSound
BY DEF ProfileInv, Edited, U!ProfileSound

-----------------------------------------------------------------------------
(* DocPage: the editor, the reader and the history. *)

\* Unless something was mixed up or the path changed by hand, the editor holds the
\* text of the address, or waits for it.
EditorHolds ==
  kind = "editor" =>
    /\ ~renamed => filePath = path
    /\ ~mixed => \A c \in calls : c.what = path
    /\ ~mixed /\ ~renamed /\ calls = {} => doc \in {None, path}

\* The same for the history and the revision selected.
HistoryHolds ==
  kind = "history" =>
    /\ ~mixed => \A c \in calls : c.what = selected
    /\ ~mixed /\ calls = {} => doc \in {None, selected}

\* A save that is under way is as good as the text it brings.
SavingGood ==
  saving # None => /\ kind = "editor"
                   /\ saving.text = saving.path \/ saving.path \in odd

DocInv ==
  /\ stored = [p \in Path |-> stored[p]]
  /\ {shows, dwells} \subseteq Nat
  /\ EditorHolds /\ HistoryHolds /\ SavingGood
  /\ D!PagesSound

LEMMA InitDoc == D!Init => DocInv
<1> SUFFICES ASSUME D!Init PROVE DocInv
  OBVIOUS
<1>1. /\ stored \in {s \in [Path -> Path \cup {None}] : \A p \in Path : s[p] \in {p, None}}
      /\ doc = None /\ saving = None /\ timer = "off" /\ shows = 0 /\ dwells = 0 /\ restored = {}
  BY DEF D!Init
<1>2. PICK k, p : /\ kind = k /\ path = p /\ filePath = p
                  /\ calls = IF p = None \/ k = "history" THEN {} ELSE {[what |-> p, n |-> 0]}
  BY DEF D!Init
<1>3. kind = "history" => calls = {}
  BY <1>2
<1>4. \A c \in calls : c.what = path
  BY <1>2
<1>5. D!PagesSound
  BY <1>1 DEF D!PagesSound, D!TextInPlace, D!ReadsMatch, D!RestoreExact, D!Seconds
<1>6. QED
  BY <1>1, <1>2, <1>3, <1>4, <1>5 DEF DocInv, EditorHolds, HistoryHolds, SavingGood

\* What a step leaves alone of the reads and of what was restored.
ReadsStay == UNCHANGED <<shows, dwells, timer>>

LEMMA EditDoc ==
  ASSUME DocInv, \/ \E p \in Path \cup {None} : D!OpenInEditor(p)
                 \/ D!TypeText
                 \/ \E p \in Path : D!TypePath(p)
  PROVE  DocInv'
<1>1. UNCHANGED <<kind, stored, saving, odd, restored>> /\ ReadsStay /\ kind = "editor"
  BY DEF D!OpenInEditor, D!TypeText, D!TypePath, ReadsStay
<1>2. DocInv' <=> EditorHolds'
  BY <1>1 DEF DocInv, HistoryHolds, SavingGood, ReadsStay, D!PagesSound, D!TextInPlace, D!ReadsMatch,
              D!RestoreExact, D!Seconds
<1>3. ASSUME NEW p, D!OpenInEditor(p)
      PROVE  EditorHolds'
  <2>1. /\ path' = p /\ filePath' = p /\ (mixed' <=> p = None \/ calls # {})
        /\ calls' = IF p = None THEN calls ELSE calls \cup {D!Ask(p)}
    BY <1>3 DEF D!OpenInEditor
  <2>2. D!Ask(p).what = p
    BY DEF D!Ask
  <2>3. QED
    BY <2>1, <2>2 DEF EditorHolds
<1>4. CASE D!TypeText
  <2>1. /\ UNCHANGED <<path, calls, filePath, renamed>>
        /\ mixed' <=> mixed \/ calls # {} \/ filePath = None
        /\ doc' = IF filePath = None THEN doc ELSE filePath
    BY <1>4 DEF D!TypeText
  <2>2. QED
    BY <1>1, <1>2, <2>1 DEF EditorHolds, DocInv
<1>5. ASSUME NEW p, D!TypePath(p)
      PROVE  EditorHolds'
  <2>1. UNCHANGED <<path, calls, mixed>> /\ renamed' = TRUE
    BY <1>5 DEF D!TypePath
  <2>2. QED
    BY <1>1, <2>1 DEF EditorHolds, DocInv
<1>6. QED
  BY <1>2, <1>3, <1>4, <1>5

LEMMA SaveDoc ==
  ASSUME DocInv, D!StartSave \/ D!EndSave \/ D!FailSave
  PROVE  DocInv'
<1>1. UNCHANGED <<kind, doc, selected, restored>> /\ ReadsStay
  BY DEF D!StartSave, D!EndSave, D!FailSave, D!history, ReadsStay
<1>2. (D!ReadsMatch /\ D!RestoreExact)'
  BY <1>1 DEF DocInv, D!PagesSound, D!ReadsMatch, D!RestoreExact, D!Seconds, ReadsStay
<1>3. CASE D!StartSave
  <2> DEFINE s == [path |-> filePath, text |-> doc, fresh |-> path = None]
  <2>1. /\ kind = "editor" /\ doc # None /\ saving' = s
        /\ odd' = IF renamed \/ mixed \/ calls # {} THEN odd \cup {filePath} ELSE odd
        /\ UNCHANGED <<path, calls, filePath, stored, renamed, mixed>>
    BY <1>3 DEF D!StartSave
  <2>2. s.path = filePath /\ s.text = doc
    OBVIOUS
  <2> HIDE DEF s
  <2>3. doc = filePath \/ filePath \in odd'
    BY <2>1 DEF DocInv, EditorHolds
  <2>4. odd \subseteq odd'
    BY <2>1
  <2>5. QED
    BY <1>1, <1>2, <2>1, <2>2, <2>3, <2>4 DEF DocInv, EditorHolds, HistoryHolds, SavingGood, ReadsStay,
                                              D!PagesSound, D!TextInPlace
<1>4. CASE D!EndSave
  <2>1. /\ saving # None /\ stored' = [stored EXCEPT ![saving.path] = saving.text]
        /\ saving' = None /\ odd' = odd
    BY <1>4 DEF D!EndSave
  <2>2. D!TextInPlace'
    BY <2>1 DEF DocInv, SavingGood, D!PagesSound, D!TextInPlace
  <2>3. stored' = [p \in Path |-> stored'[p]]
    BY <2>1 DEF DocInv
  <2>4. CASE UNCHANGED <<path, filePath, renamed, calls, mixed>>
    BY <1>1, <1>2, <2>1, <2>2, <2>3, <2>4 DEF DocInv, EditorHolds, HistoryHolds, SavingGood, ReadsStay, D!PagesSound
  <2>5. CASE /\ path' = saving.path /\ filePath' = saving.path
             /\ calls' = calls \cup {D!Ask(saving.path)} /\ mixed' = (calls # {})
    <3>1. mixed' <=> calls # {}
      BY <2>5
    <3>2. D!Ask(saving.path).what = saving.path
      BY DEF D!Ask
    <3>3. EditorHolds'
      BY <2>5, <3>1, <3>2 DEF EditorHolds
    <3>4. kind # "history"
      BY <2>1 DEF DocInv, SavingGood
    <3>5. QED
      BY <1>1, <1>2, <2>1, <2>2, <2>3, <3>3, <3>4 DEF DocInv, HistoryHolds, SavingGood, ReadsStay, D!PagesSound
  <2>6. QED
    BY <1>4, <2>4, <2>5 DEF D!EndSave
<1>5. CASE D!FailSave
  <2>1. saving' = None /\ UNCHANGED <<path, calls, filePath, stored, renamed, mixed, odd>>
    BY <1>5 DEF D!FailSave, D!history
  <2>2. QED
    BY <1>1, <1>2, <2>1 DEF DocInv, EditorHolds, HistoryHolds, SavingGood, ReadsStay, D!PagesSound, D!TextInPlace
<1>6. QED
  BY <1>3, <1>4, <1>5

LEMMA ReadDoc ==
  ASSUME DocInv, D!Hide \/ \E p \in Path, v \in BOOLEAN : D!OpenInReader(p, v)
  PROVE  DocInv'
<1>1. UNCHANGED <<kind, stored, saving, odd, restored, shows>> /\ kind = "reader"
  BY DEF D!OpenInReader, D!Hide
<1>2. dwells' = dwells + D!Seconds /\ timer' \in {"off", "sent"}
  BY DEF D!OpenInReader, D!Hide
<1>3. D!Seconds \in {0, 1} /\ D!Seconds' = 0
  BY <1>2 DEF D!Seconds
<1>4. shows \in Nat /\ dwells \in Nat /\ dwells = shows - D!Seconds
  BY DEF DocInv, D!PagesSound, D!ReadsMatch
<1>5. dwells' \in Nat /\ dwells' = shows' - D!Seconds'
  BY <1>1, <1>2, <1>3, <1>4
<1>6. QED
  BY <1>1, <1>4, <1>5 DEF DocInv, EditorHolds, HistoryHolds, SavingGood, D!PagesSound, D!TextInPlace,
                          D!RestoreExact, D!ReadsMatch

LEMMA HistoryDoc ==
  ASSUME DocInv, D!Restore \/ \E r \in Revision : D!Select(r)
  PROVE  DocInv'
<1>1. UNCHANGED <<kind, path, doc, filePath, saving, renamed, odd>> /\ kind = "history" /\ ReadsStay
  BY DEF D!Restore, D!Select, ReadsStay
<1>2. (EditorHolds /\ SavingGood /\ D!ReadsMatch)'
  BY <1>1 DEF DocInv, EditorHolds, SavingGood, ReadsStay, D!PagesSound, D!ReadsMatch, D!Seconds
<1>3. CASE D!Restore
  <2>1. /\ None \notin {selected, doc} /\ UNCHANGED <<calls, selected, mixed>>
        /\ stored' = [stored EXCEPT ![path] = path]
        /\ restored' = IF calls = {} /\ ~mixed THEN restored \cup {<<selected, doc>>} ELSE restored
    BY <1>3 DEF D!Restore
  <2>2. calls = {} /\ ~mixed => selected = doc
    BY <1>1, <2>1 DEF DocInv, HistoryHolds
  <2>3. D!RestoreExact'
    BY <2>1, <2>2 DEF DocInv, D!PagesSound, D!RestoreExact
  <2>4. D!TextInPlace' /\ stored' = [p \in Path |-> stored'[p]]
    BY <1>1, <2>1 DEF DocInv, D!PagesSound, D!TextInPlace
  <2>5. QED
    BY <1>1, <1>2, <2>1, <2>3, <2>4 DEF DocInv, HistoryHolds, ReadsStay, D!PagesSound
<1>4. ASSUME NEW r, D!Select(r)
      PROVE  DocInv'
  <2>1. /\ selected' = r /\ calls' = calls \cup {D!Ask(r)} /\ (mixed' <=> mixed \/ calls # {})
        /\ UNCHANGED <<stored, restored>>
    BY <1>4 DEF D!Select
  <2>2. D!Ask(r).what = r
    BY DEF D!Ask
  <2>3. HistoryHolds'
    BY <2>1, <2>2 DEF HistoryHolds
  <2>4. QED
    BY <1>1, <1>2, <2>1, <2>3 DEF DocInv, ReadsStay, D!PagesSound, D!TextInPlace, D!RestoreExact
<1>5. QED
  BY <1>3, <1>4

LEMMA AnswerDoc ==
  ASSUME DocInv, NEW c \in calls, D!Arrive(c) \/ D!Reject(c)
  PROVE  DocInv'
<1>1. UNCHANGED <<kind, path, filePath, saving, selected, stored, renamed, odd, restored>>
  BY DEF D!Arrive, D!Reject
<1>2. calls' = calls \ {c}
  BY DEF D!Arrive, D!Reject
<1>3. SavingGood' /\ D!TextInPlace' /\ D!RestoreExact'
  BY <1>1 DEF DocInv, SavingGood, D!PagesSound, D!TextInPlace, D!RestoreExact
<1>4. CASE D!Arrive(c)
  <2>1. doc' = c.what /\ mixed' = mixed
    BY <1>4 DEF D!Arrive
  <2>2. EditorHolds' /\ HistoryHolds'
    BY <1>1, <1>2, <2>1 DEF DocInv, EditorHolds, HistoryHolds
  <2>3. shows \in Nat /\ dwells \in Nat /\ dwells = shows - D!Seconds /\ D!Seconds \in {0, 1}
    BY DEF DocInv, D!PagesSound, D!ReadsMatch, D!Seconds
  <2>4. shows' \in Nat /\ dwells' \in Nat /\ dwells' = shows' - D!Seconds'
    <3>1. CASE timer' = "on" /\ dwells' = dwells + D!Seconds /\ shows' = shows + 1
      <4>1. D!Seconds' = 1
        BY <3>1 DEF D!Seconds
      <4>2. QED
        BY <2>3, <3>1, <4>1
    <3>2. CASE UNCHANGED <<timer, dwells, shows>>
      <4>1. D!Seconds' = D!Seconds
        BY <3>2 DEF D!Seconds
      <4>2. QED
        BY <2>3, <3>2, <4>1
    <3>3. QED
      BY <1>4, <3>1, <3>2 DEF D!Arrive
  <2>5. QED
    BY <1>1, <1>3, <2>2, <2>4 DEF DocInv, D!PagesSound, D!ReadsMatch
<1>5. CASE D!Reject(c)
  <2>1. /\ UNCHANGED <<shows, dwells, timer>> /\ (mixed' <=> mixed \/ kind = "editor")
        /\ kind = "history" => doc' = None
    BY <1>5 DEF D!Reject
  <2>2. EditorHolds' /\ HistoryHolds'
    BY <1>1, <1>2, <2>1 DEF DocInv, EditorHolds, HistoryHolds
  <2>3. D!ReadsMatch'
    BY <2>1 DEF DocInv, D!PagesSound, D!ReadsMatch, D!Seconds
  <2>4. QED
    BY <1>1, <1>3, <2>1, <2>2, <2>3 DEF DocInv, D!PagesSound
<1>6. QED
  BY <1>4, <1>5

LEMMA StepDoc ==
  ASSUME DocInv, [D!Next]_(D!vars)
  PROVE  DocInv'
<1>1. CASE UNCHANGED D!vars
  BY <1>1 DEF D!vars, D!history, DocInv, EditorHolds, HistoryHolds, SavingGood, D!PagesSound, D!TextInPlace,
              D!ReadsMatch, D!RestoreExact, D!Seconds
<1>2. QED
  BY <1>1, EditDoc, SaveDoc, ReadDoc, HistoryDoc, AnswerDoc DEF D!Next

-----------------------------------------------------------------------------
\* No document is overwritten with the text of another, every read is told once,
\* the revision shown is the one restored; and a saved profile brings no older
\* value back: under the conditions that DocPage and Profile name.
THEOREM PagesSafe == FocusSpec => []PagesSound
<1> DEFINE Inv == (focus = "doc" => DocInv) /\ (focus = "profile" => ProfileInv)
<1>1. FocusInit => Inv
  BY InitDoc, InitProfile DEF FocusInit
<1>2. Inv /\ [FocusNext]_focusVars => Inv'
  BY FocusStays, StepDoc, StepProfile
<1>3. Inv => PagesSound
  BY ProfileHolds DEF DocInv, PagesSound
<1>4. QED
  BY <1>1, <1>2, <1>3, PTL DEF FocusSpec

-----------------------------------------------------------------------------
(* Listing: bulk operations, imports, and moves in the tree. *)

ListTyped ==
  /\ at \in [L!File -> L!Docs \cup {None}]
  /\ born \in 0..MaxDocs
  /\ listed \subseteq L!File /\ ticked \subseteq L!File
  /\ job \in L!Job

\* A document that was made and not deleted is at one path; no other is anywhere.
Placed ==
  /\ removed \subseteq 1..born
  /\ \A p \in L!File : at[p] # None => at[p] \in (1..born) \ removed
  /\ \A p, q \in L!File : at[p] # None /\ at[p] = at[q] => p = q
  /\ \A d \in (1..born) \ removed : \E p \in L!File : at[p] = d

\* An operation has counted what it has dealt with, and an operation that may
\* have changed something has counted it.
Counted ==
  /\ job.op \in {"none", "load"} => job.todo = <<>>
  /\ job.op = "none" => job.ok = 0
  /\ job.op # "none" => job.ok + job.failed + Len(job.todo) = job.asked
  /\ job.op \in {"move", "rename"} => job.to \in Folder

Followed == ~dated /\ ~halted /\ ~missed => job.ok > 0 \/ listed = L!Stored

ListingInv == ListTyped /\ Placed /\ Counted /\ Followed

LEMMA SameCardinality == \A S : L!Cardinality(S) = Cardinality(S)
BY DEF L!Cardinality, Cardinality

LEMMA PathFacts ==
  /\ \A f \in Folder, p \in L!File : p[2] \in Base /\ <<f, p[2]>> \in L!File
  /\ IsFiniteSet(L!File)
BY ListingAssumption, FS_Product DEF L!File

LEMMA IdleListing ==
  /\ L!Idle \in L!Job /\ L!Idle.op = "none" /\ L!Idle.todo = <<>>
  /\ L!Idle.ok = 0 /\ L!Idle.failed = 0
BY DEF L!Idle, L!Job

LEMMA DocsNotNone == None \notin Nat /\ MaxDocs \in Nat /\ L!Docs = 1..MaxDocs /\ None \notin L!Docs
BY ListingAssumption DEF L!Docs

LEMMA InitListing == L!Init => ListingInv
<1> SUFFICES ASSUME L!Init PROVE ListingInv
  OBVIOUS
<1>1. /\ born \in (0..2) \cap (0..MaxDocs) /\ removed = {} /\ job = L!Idle /\ ticked = {}
      /\ at \in [L!File -> (1..born) \cup {None}] /\ listed = L!Stored
      /\ \A d \in 1..born : Cardinality({p \in L!File : at[p] = d}) = 1
  BY SameCardinality DEF L!Init
<1>2. ListTyped
  <2>1. 1..born \subseteq L!Docs
    BY <1>1, DocsNotNone
  <2>2. at \in [L!File -> L!Docs \cup {None}]
    BY <1>1, <2>1
  <2>3. QED
    BY <1>1, <2>2, IdleListing DEF ListTyped, L!Stored
<1>3. ASSUME NEW d \in 1..born
      PROVE  \E x : {p \in L!File : at[p] = d} = {x}
  <2>1. IsFiniteSet({p \in L!File : at[p] = d})
    BY PathFacts, FS_Subset
  <2>2. QED
    BY <1>1, <2>1, FS_Singleton
<1>4. Placed
  <2>1. \A p \in L!File : at[p] # None => at[p] \in 1..born
    BY <1>1
  <2>2. ASSUME NEW p \in L!File, NEW q \in L!File, at[p] # None, at[p] = at[q]
        PROVE  p = q
    BY <1>3, <2>1, <2>2
  <2>3. QED
    BY <1>1, <1>3, <2>1, <2>2 DEF Placed
<1>5. QED
  BY <1>1, <1>2, <1>4, IdleListing DEF ListingInv, Counted, Followed

-----------------------------------------------------------------------------
(* What happens to one file. *)

LEMMA MovedPlaced ==
  ASSUME ListTyped, Placed, NEW p \in L!File, NEW q \in L!File, at' \in L!Moved(p, q)
  PROVE  /\ at' \in [L!File -> L!Docs \cup {None}]
         /\ UNCHANGED <<born, removed>> => Placed'
         /\ \A x \in L!File : at'[x] # None => at'[x] \in 1..born
<1>1. CASE at' = at
  BY <1>1 DEF ListTyped, Placed
<1>2. CASE p # q /\ at[p] # None /\ at[q] = None /\ at' = [at EXCEPT ![q] = at[p], ![p] = None]
  <2>1. at' \in [L!File -> L!Docs \cup {None}]
    BY <1>2 DEF ListTyped
  <2>2. at'[q] = at[p] /\ at'[p] = None /\ \A x \in L!File \ {p, q} : at'[x] = at[x]
    BY <1>2 DEF ListTyped
  <2>3. \A x \in L!File : at'[x] # None => \E y \in L!File : at'[x] = at[y]
    BY <2>2
  <2>4. \A x, y \in L!File : at'[x] # None /\ at'[x] = at'[y] => x = y
    <3>1. \A x \in L!File : at'[x] # None => x # p /\ at'[x] = at[IF x = q THEN p ELSE x]
      BY <2>2
    <3>2. QED
      BY <3>1 DEF Placed
  <2>5. ASSUME NEW d \in (1..born) \ removed
        PROVE  \E x \in L!File : at'[x] = d
    <3>1. PICK x \in L!File : at[x] = d
      BY <2>5 DEF Placed
    <3>2. d # None
      BY <2>5, DocsNotNone DEF ListTyped
    <3>3. QED
      BY <1>2, <2>2, <3>1, <3>2
  <2>6. \A x \in L!File : at'[x] # None => at'[x] \in (1..born) \ removed
    BY <2>3 DEF Placed
  <2>7. ASSUME UNCHANGED <<born, removed>>
        PROVE  Placed'
    BY <2>4, <2>5, <2>6, <2>7 DEF Placed
  <2>8. QED
    BY <2>1, <2>6, <2>7
<1>3. QED
  BY <1>1, <1>2 DEF L!Moved

LEMMA DeletedPlaced ==
  ASSUME ListTyped, Placed, NEW p \in L!File, at' \in L!Deleted(p)
  PROVE  /\ at' \in [L!File -> L!Docs \cup {None}]
         /\ removed' = removed \cup {at[p]} /\ born' = born => Placed'
         /\ \A x \in L!File : at'[x] # None => at'[x] \in 1..born
<1>1. at[p] # None /\ at' = [at EXCEPT ![p] = None]
  BY DEF L!Deleted
<1>2. at' \in [L!File -> L!Docs \cup {None}]
  BY <1>1 DEF ListTyped
<1>3. at'[p] = None /\ \A x \in L!File \ {p} : at'[x] = at[x]
  BY <1>1 DEF ListTyped
<1>4. ASSUME removed' = removed \cup {at[p]}, born' = born
      PROVE  Placed'
  <2>1. removed' \subseteq 1..born'
    BY <1>1, <1>4 DEF Placed
  <2>2. \A x \in L!File : at'[x] # None => at'[x] \in (1..born') \ removed'
    BY <1>1, <1>3, <1>4 DEF Placed
  <2>3. \A x, y \in L!File : at'[x] # None /\ at'[x] = at'[y] => x = y
    BY <1>3 DEF Placed
  <2>4. \A d \in (1..born') \ removed' : \E x \in L!File : at'[x] = d
    BY <1>3, <1>4 DEF Placed
  <2>5. QED
    BY <2>1, <2>2, <2>3, <2>4 DEF Placed
<1>5. QED
  BY <1>2, <1>3, <1>4 DEF Placed

\* A save at a free path makes the next document.
LEMMA SavedPlaced ==
  ASSUME ListTyped, Placed, NEW p \in L!File, at[p] = None, at' \in L!Saved(p)
  PROVE  /\ at' = [at EXCEPT ![p] = born + 1] /\ at'[p] = born + 1
         /\ at' \in [L!File -> L!Docs \cup {None}]
         /\ born + 1 \in 0..MaxDocs
         /\ born' = born + 1 /\ removed' = removed => Placed'
<1>1. at' = [at EXCEPT ![p] = born + 1] /\ born # MaxDocs
  BY DEF L!Saved
<1>2. born \in Nat /\ born + 1 \in 0..MaxDocs /\ born + 1 \in L!Docs /\ born + 1 # None
  BY <1>1, DocsNotNone DEF ListTyped
<1>3. at' \in [L!File -> L!Docs \cup {None}] /\ at'[p] = born + 1 /\ \A x \in L!File \ {p} : at'[x] = at[x]
  BY <1>1, <1>2 DEF ListTyped
<1>4. ASSUME born' = born + 1, removed' = removed
      PROVE  Placed'
  <2>1. 1..born' = (1..born) \cup {born + 1} /\ born + 1 \notin 1..born /\ removed \subseteq 1..born
    BY <1>2, <1>4 DEF Placed
  <2>2. \A x \in L!File : at'[x] # None => at'[x] \in (1..born') \ removed'
    BY <1>3, <1>4, <2>1 DEF Placed
  <2>3. \A x, y \in L!File : at'[x] # None /\ at'[x] = at'[y] => x = y
    BY <1>3, <2>1 DEF Placed
  <2>4. ASSUME NEW d \in (1..born') \ removed'
        PROVE  \E x \in L!File : at'[x] = d
    <3>1. CASE d = born + 1
      BY <1>3, <3>1
    <3>2. CASE d \in (1..born) \ removed
      <4>1. PICK x \in L!File : at[x] = d
        BY <3>2 DEF Placed
      <4>2. d # None
        BY <1>2, <3>2, DocsNotNone
      <4>3. QED
        BY <1>3, <4>1, <4>2
    <3>3. QED
      BY <1>4, <2>1, <3>1, <3>2
  <2>5. QED
    BY <1>4, <2>1, <2>2, <2>3, <2>4 DEF Placed
<1>5. QED
  BY <1>1, <1>2, <1>3, <1>4

LEMMA AfterPlaced ==
  ASSUME ListTyped, Placed, Counted, job.todo # <<>>, NEW p \in L!File,
         at' \in L!After(p), born' = L!Fresh(at'),
         removed' = IF job.op = "delete" THEN removed \cup {at[p]} ELSE removed
  PROVE  Placed' /\ at' \in [L!File -> L!Docs \cup {None}] /\ born' \in 0..MaxDocs
<1>1. born \in Nat /\ born + 1 \notin 1..born /\ born + 1 # None /\ born \in 0..MaxDocs
  BY DocsNotNone DEF ListTyped
<1>2. ASSUME \A x \in L!File : at'[x] # None => at'[x] \in 1..born
      PROVE  born' = born
  BY <1>1, <1>2 DEF L!Fresh
<1>3. CASE job.op = "delete"
  <2>1. at' \in L!Deleted(p)
    BY <1>3 DEF L!After
  <2>2. QED
    BY <1>1, <1>2, <1>3, <2>1, DeletedPlaced
<1>4. CASE job.op \in {"move", "rename"}
  <2>1. at' \in L!Moved(p, <<job.to, p[2]>>) /\ <<job.to, p[2]>> \in L!File
    BY <1>4, PathFacts DEF L!After, Counted
  <2>2. QED
    BY <1>1, <1>2, <1>4, <2>1, MovedPlaced
<1>5. CASE job.op \in {"import", "create"}
  <2>1. at' \in L!Saved(p) /\ removed' = removed
    BY <1>5 DEF L!After
  <2>2. CASE at[p] # None
    <3>1. at' = at
      BY <2>1, <2>2 DEF L!Saved
    <3>2. \A x \in L!File : at'[x] # None => at'[x] \in 1..born
      BY <3>1 DEF Placed
    <3>3. QED
      BY <1>1, <1>2, <2>1, <3>1, <3>2 DEF Placed, ListTyped
  <2>3. CASE at[p] = None
    <3>1. born' = born + 1
      BY <2>1, <2>3, SavedPlaced DEF L!Fresh
    <3>2. QED
      BY <2>1, <2>3, <3>1, SavedPlaced
  <2>4. QED
    BY <2>2, <2>3
<1>6. job.op \in {"none", "delete", "move", "rename", "import", "create", "load"}
  BY DEF ListTyped, L!Job
<1>7. QED
  BY <1>3, <1>4, <1>5, <1>6 DEF Counted

-----------------------------------------------------------------------------
(* The actions. *)

LEMMA CountedRecord ==
  ASSUME NEW O, NEW S, NEW T, NEW t \in S, NEW n \in Nat,
         NEW j \in [op: O, todo: S, to: T, ok: Nat, failed: Nat, asked: Nat]
  PROVE  /\ [j EXCEPT !.todo = t, !.ok = n] \in [op: O, todo: S, to: T, ok: Nat, failed: Nat, asked: Nat]
         /\ [j EXCEPT !.todo = t, !.failed = n] \in [op: O, todo: S, to: T, ok: Nat, failed: Nat, asked: Nat]
OBVIOUS

LEMMA CountedFields ==
  ASSUME NEW O, NEW S, NEW T, NEW t, NEW n,
         NEW j \in [op: O, todo: S, to: T, ok: Nat, failed: Nat, asked: Nat]
  PROVE  LET s == [j EXCEPT !.todo = t, !.ok = n]
             f == [j EXCEPT !.todo = t, !.failed = n]
         IN  /\ s.op = j.op /\ s.to = j.to /\ s.asked = j.asked /\ s.failed = j.failed /\ s.todo = t /\ s.ok = n
             /\ f.op = j.op /\ f.to = j.to /\ f.asked = j.asked /\ f.ok = j.ok /\ f.todo = t /\ f.failed = n
OBVIOUS

LEMMA NewRecord ==
  ASSUME NEW O, NEW S, NEW T, NEW o \in O, NEW t \in S, NEW x \in T, NEW n \in Nat,
         NEW j \in [op: O, todo: S, to: T, ok: Nat, failed: Nat, asked: Nat]
  PROVE  LET s == [j EXCEPT !.op = o, !.todo = t, !.to = x, !.asked = n]
         IN  /\ s \in [op: O, todo: S, to: T, ok: Nat, failed: Nat, asked: Nat]
             /\ s.op = o /\ s.todo = t /\ s.to = x /\ s.ok = j.ok /\ s.failed = j.failed /\ s.asked = n
OBVIOUS

LEMMA BeginListing ==
  ASSUME ListingInv, NEW op \in {"delete", "move", "rename", "import", "create"},
         NEW todo \in Seq(L!File), NEW to \in Folder \cup {None},
         op \in {"move", "rename"} => to \in Folder, L!Begin(op, todo, to)
  PROVE  ListingInv'
<1> DEFINE s == [L!Idle EXCEPT !.op = op, !.todo = todo, !.to = to, !.asked = Len(todo)]
<1>1. job.op = "none" /\ job' = s /\ UNCHANGED <<at, listed, ticked, born, removed, dated, halted, missed>>
  BY DEF L!Begin, L!history
<1>2. Len(todo) \in Nat
  BY LenProperties
<1>3. s \in L!Job
  BY <1>2, NewRecord, IdleListing DEF L!Job
<1>4. s.op = op /\ s.todo = todo /\ s.to = to /\ s.asked = Len(todo) /\ s.ok = L!Idle.ok /\ s.failed = L!Idle.failed
  BY <1>2, NewRecord, IdleListing DEF L!Job
<1>5. s.ok = 0 /\ s.failed = 0
  BY <1>4, IdleListing
<1> HIDE DEF s
<1>6. ListTyped' /\ Placed'
  BY <1>1, <1>3 DEF ListingInv, ListTyped, Placed
<1>7. Counted'
  BY <1>1, <1>2, <1>4, <1>5 DEF Counted
<1>8. Followed'
  BY <1>1, <1>5 DEF ListingInv, Counted, Followed, L!Stored
<1>9. QED
  BY <1>6, <1>7, <1>8 DEF ListingInv

LEMMA SomeOrder ==
  ASSUME NEW S \in SUBSET L!File, NEW todo \in L!SetToSeqs(S)
  PROVE  todo \in Seq(L!File)
<1>1. IsFiniteSet(S)
  BY PathFacts, FS_Subset
<1>2. Cardinality(S) \in Nat
  BY <1>1, FS_CardinalityType
<1>3. todo \in [1..Cardinality(S) -> S]
  BY SameCardinality DEF L!SetToSeqs
<1>4. todo \in Seq(S)
  BY <1>2, <1>3, SeqDef
<1>5. QED
  BY <1>4, SeqMonotonic

LEMMA StartListing ==
  ASSUME ListingInv, L!StartBulk \/ L!StartImport \/ L!StartCreate \/ L!StartMove \/ L!StartRename
  PROVE  ListingInv'
<1>0. ticked \subseteq L!File /\ listed \subseteq L!File
  BY DEF ListingInv, ListTyped
<1>1. CASE L!StartBulk
  <2>1. PICK todo \in L!SetToSeqs(ticked), to \in Folder : L!Begin("delete", todo, None) \/ L!Begin("move", todo, to)
    BY <1>1 DEF L!StartBulk
  <2>2. todo \in Seq(L!File)
    BY <1>0, SomeOrder
  <2>3. QED
    BY <2>1, <2>2, BeginListing
<1>2. CASE L!StartImport
  <2>1. PICK p \in L!File, q \in L!File : L!Begin("import", <<p, q>>, None)
    BY <1>2 DEF L!StartImport
  <2>2. <<p, q>> \in Seq(L!File)
    OBVIOUS
  <2>3. QED
    BY <2>1, <2>2, BeginListing
<1>3. CASE L!StartCreate
  <2>1. PICK p \in L!File : L!Begin("create", <<p>>, None)
    BY <1>3 DEF L!StartCreate
  <2>2. <<p>> \in Seq(L!File)
    OBVIOUS
  <2>3. QED
    BY <2>1, <2>2, BeginListing
<1>4. CASE L!StartMove
  <2>1. PICK p \in listed : \E to \in Folder \ {p[1]} : L!Begin("rename", <<p>>, to)
    BY <1>4 DEF L!StartMove
  <2>2. <<p>> \in Seq(L!File)
    BY <1>0
  <2>3. QED
    BY <2>1, <2>2, BeginListing
<1>5. CASE L!StartRename
  <2>1. PICK f \in Folder, to \in Folder :
          \E todo \in L!SetToSeqs({p \in listed : p[1] = f}) : L!Begin("rename", todo, to)
    BY <1>5 DEF L!StartRename
  <2>2. PICK todo \in L!SetToSeqs({p \in listed : p[1] = f}) : L!Begin("rename", todo, to)
    BY <2>1
  <2>3. todo \in Seq(L!File)
    BY <1>0, SomeOrder
  <2>4. QED
    BY <2>1, <2>2, <2>3, BeginListing
<1>6. QED
  BY <1>1, <1>2, <1>3, <1>4, <1>5

LEMMA TurnListing ==
  ASSUME ListingInv, L!Turn
  PROVE  ListingInv'
<1> DEFINE p == Head(job.todo)
           s == [job EXCEPT !.todo = Tail(@), !.ok = @ + 1]
<1>1. /\ job.todo # <<>> /\ job' = s
      /\ at' \in L!After(p) /\ born' = L!Fresh(at')
      /\ removed' = IF job.op = "delete" THEN removed \cup {at[p]} ELSE removed
      /\ UNCHANGED <<listed, ticked, dated, halted, missed>>
  BY DEF L!Turn
<1>2. job \in L!Job /\ job.todo \in Seq(L!File) /\ job.ok \in Nat /\ job.failed \in Nat /\ job.asked \in Nat
  BY DEF ListingInv, ListTyped, L!Job
<1>3. p \in L!File /\ Tail(job.todo) \in Seq(L!File) /\ Len(Tail(job.todo)) = Len(job.todo) - 1
  BY <1>1, <1>2, HeadTailProperties
<1>4. /\ s.op = job.op /\ s.to = job.to /\ s.ok = job.ok + 1 /\ s.failed = job.failed
      /\ s.asked = job.asked /\ s.todo = Tail(job.todo) /\ s \in L!Job
  <2>1. job.ok + 1 \in Nat
    BY <1>2
  <2>2. s \in L!Job
    BY <1>2, <1>3, <2>1, CountedRecord DEF L!Job
  <2>3. QED
    BY <1>2, <2>2, CountedFields DEF L!Job
<1> HIDE DEF p, s
<1>5. Placed' /\ at' \in [L!File -> L!Docs \cup {None}] /\ born' \in 0..MaxDocs
  BY <1>1, <1>3, AfterPlaced DEF ListingInv
<1>6. ListTyped'
  BY <1>1, <1>4, <1>5 DEF ListingInv, ListTyped
<1>7. Len(job.todo) \in Nat
  BY <1>2, LenProperties
<1>8. Counted'
  BY SMTT(30), <1>1, <1>2, <1>3, <1>4, <1>7 DEF ListingInv, Counted
<1>9. Followed'
  BY <1>1, <1>2, <1>4 DEF Followed
<1>10. QED
  BY <1>5, <1>6, <1>8, <1>9 DEF ListingInv

\* After a file that fails, the operation is counted on or over.
LEMMA SkipCounted ==
  ASSUME ListingInv, job.todo # <<>>, L!Skip
  PROVE  /\ job' \in L!Job /\ Counted'
         /\ ~halted' => ~halted /\ (job'.ok > 0 \/ ~(job.ok > 0))
<1>1. job \in L!Job /\ job.todo \in Seq(L!File) /\ job.ok \in Nat /\ job.failed \in Nat /\ job.asked \in Nat
  BY DEF ListingInv, ListTyped, L!Job
<1>2. Tail(job.todo) \in Seq(L!File) /\ Len(Tail(job.todo)) = Len(job.todo) - 1
  BY <1>1, HeadTailProperties
<1>3. Len(job.todo) \in Nat
  BY <1>1, LenProperties
<1>4. CASE job.op \in {"delete", "move", "import"}
  <2> DEFINE s == [job EXCEPT !.todo = Tail(@), !.failed = @ + 1]
  <2>1. job' = s /\ halted' = halted
    BY <1>4 DEF L!Skip
  <2>2. /\ s.op = job.op /\ s.to = job.to /\ s.ok = job.ok /\ s.failed = job.failed + 1
        /\ s.asked = job.asked /\ s.todo = Tail(job.todo) /\ s \in L!Job
    <3>1. job.failed + 1 \in Nat
      BY <1>1
    <3>2. s \in L!Job
      BY <1>1, <1>2, <3>1, CountedRecord DEF L!Job
    <3>3. QED
      BY <1>1, <3>2, CountedFields DEF L!Job
  <2> HIDE DEF s
  <2>3. job.op \notin {"none", "load"} /\ (job.op = "move" => job.to \in Folder)
    BY <1>4 DEF ListingInv, Counted
  <2>4. job.ok + job.failed + Len(job.todo) = job.asked
    BY <2>3 DEF ListingInv, Counted
  <2>5. s.ok + s.failed + Len(s.todo) = s.asked
    BY SMTT(30), <1>1, <1>2, <1>3, <2>2, <2>4
  <2>6. Counted'
    BY <1>4, <2>1, <2>2, <2>3, <2>5 DEF Counted
  <2>7. QED
    BY <2>1, <2>2, <2>6
<1>5. CASE job.op \notin {"delete", "move", "import"}
  <2>1. job' = L!Idle /\ (halted' <=> halted \/ job.ok > 0)
    BY <1>5 DEF L!Skip
  <2>2. QED
    BY <2>1, IdleListing DEF Counted
<1>6. QED
  BY <1>4, <1>5

LEMMA RefuseListing ==
  ASSUME ListingInv, L!RefuseTurn \/ L!LoseAnswer
  PROVE  ListingInv'
<1>1. job.todo # <<>> /\ L!Skip /\ UNCHANGED <<listed, ticked, dated, removed>>
  BY DEF L!RefuseTurn, L!LoseAnswer
<1>2. CASE L!RefuseTurn
  <2>1. UNCHANGED <<at, born, missed>>
    BY <1>2 DEF L!RefuseTurn
  <2>2. ListTyped' /\ Placed'
    BY <1>1, <2>1, SkipCounted DEF ListingInv, ListTyped, Placed
  <2>3. Followed'
    BY <1>1, <2>1, SkipCounted DEF ListingInv, Followed, L!Stored
  <2>4. QED
    BY <1>1, <2>2, <2>3, SkipCounted DEF ListingInv
<1>3. CASE L!LoseAnswer
  <2>1. /\ missed' = TRUE /\ job.op # "delete"
        /\ at' \in L!After(Head(job.todo)) /\ born' = L!Fresh(at')
    BY <1>3 DEF L!LoseAnswer
  <2>2. job.todo \in Seq(L!File)
    BY DEF ListingInv, ListTyped, L!Job
  <2>3. Head(job.todo) \in L!File
    BY <1>1, <2>2, HeadTailProperties
  <2>4. Placed' /\ at' \in [L!File -> L!Docs \cup {None}] /\ born' \in 0..MaxDocs
    BY <1>1, <2>1, <2>3, AfterPlaced DEF ListingInv
  <2>5. ListTyped'
    BY <1>1, <2>4, SkipCounted DEF ListingInv, ListTyped
  <2>6. Followed'
    BY <2>1 DEF Followed
  <2>7. QED
    BY <1>1, <2>4, <2>5, <2>6, SkipCounted DEF ListingInv
<1>4. QED
  BY <1>2, <1>3

LEMMA EndListing ==
  ASSUME ListingInv, L!Finish \/ L!Load \/ L!FailLoad \/ L!Select
  PROVE  ListingInv'
<1>1. UNCHANGED <<at, born, removed>>
  BY DEF L!Finish, L!Load, L!FailLoad, L!Select, L!history
<1>2. Placed'
  BY <1>1 DEF ListingInv, Placed
<1>3. L!Stored \subseteq L!File /\ L!Stored' = L!Stored
  BY <1>1 DEF L!Stored
<1>4. CASE L!Select
  <2>1. UNCHANGED <<job, listed, dated, halted, missed>> /\ ticked' \subseteq ticked \cup listed
    BY <1>4 DEF L!Select, L!history, L!Flip
  <2>2. QED
    BY <1>1, <1>2, <1>3, <2>1 DEF ListingInv, ListTyped, Counted, Followed
<1>5. CASE L!Finish
  <2> DEFINE s == [job EXCEPT !.op = "load"]
  <2>1. /\ job.op \notin {"none", "load"} /\ job.todo = <<>> /\ job' = s
        /\ UNCHANGED <<listed, dated, halted, missed>> /\ ticked' \subseteq ticked
    BY <1>5 DEF L!Finish, L!history
  <2>2. job \in L!Job
    BY DEF ListingInv, ListTyped
  <2>3. /\ s.op = "load" /\ s.to = job.to /\ s.ok = job.ok /\ s.failed = job.failed
        /\ s.asked = job.asked /\ s.todo = job.todo /\ s \in L!Job
    BY <2>2 DEF L!Job
  <2> HIDE DEF s
  <2>4. Counted'
    BY <2>1, <2>3 DEF ListingInv, Counted
  <2>5. Followed'
    BY <1>3, <2>1, <2>3 DEF ListingInv, Followed
  <2>6. QED
    BY <1>1, <1>2, <2>1, <2>3, <2>4, <2>5 DEF ListingInv, ListTyped
<1>6. CASE L!Load
  <2>1. job' = L!Idle /\ listed' = L!Stored /\ ticked' = ticked
    BY <1>6 DEF L!Load
  <2>2. QED
    BY <1>1, <1>2, <1>3, <2>1, IdleListing DEF ListingInv, ListTyped, Counted, Followed
<1>7. CASE L!FailLoad
  <2>1. job' = L!Idle /\ listed' \subseteq listed /\ ticked' = ticked /\ missed' = TRUE
    BY <1>7 DEF L!FailLoad
  <2>2. QED
    BY <1>1, <1>2, <2>1, IdleListing DEF ListingInv, ListTyped, Counted, Followed
<1>8. QED
  BY <1>4, <1>5, <1>6, <1>7

LEMMA ForeignListing ==
  ASSUME ListingInv, L!Foreign
  PROVE  ListingInv'
<1>1. dated' = TRUE /\ UNCHANGED <<listed, ticked, job>>
  BY DEF L!Foreign
<1>2. Counted' /\ Followed'
  BY <1>1 DEF ListingInv, Counted, Followed
<1>3. born \in 0..MaxDocs
  BY DEF ListingInv, ListTyped
<1>4. PICK p \in L!File :
        \/ at[p] = None /\ at' \in L!Saved(p) /\ born' = born + 1 /\ UNCHANGED removed
        \/ at' \in L!Deleted(p) /\ removed' = removed \cup {at[p]} /\ UNCHANGED born
        \/ \E q \in L!File \ {p} : at' \in L!Moved(p, q) /\ UNCHANGED <<born, removed>>
  BY DEF L!Foreign
<1>5. Placed' /\ at' \in [L!File -> L!Docs \cup {None}] /\ born' \in 0..MaxDocs
  <2>1. CASE at[p] = None /\ at' \in L!Saved(p) /\ born' = born + 1 /\ UNCHANGED removed
    BY <2>1, SavedPlaced DEF ListingInv
  <2>2. CASE at' \in L!Deleted(p) /\ removed' = removed \cup {at[p]} /\ UNCHANGED born
    BY <1>3, <2>2, DeletedPlaced DEF ListingInv
  <2>3. CASE \E q \in L!File \ {p} : at' \in L!Moved(p, q) /\ UNCHANGED <<born, removed>>
    BY <1>3, <2>3, MovedPlaced DEF ListingInv
  <2>4. QED
    BY <1>4, <2>1, <2>2, <2>3
<1>6. QED
  BY <1>1, <1>2, <1>5 DEF ListingInv, ListTyped

LEMMA StepListing ==
  ASSUME ListingInv, [L!Next]_(L!vars)
  PROVE  ListingInv'
<1>1. CASE UNCHANGED L!vars
  BY <1>1 DEF L!vars, L!history, ListingInv, ListTyped, Placed, Counted, Followed, L!Stored
<1>2. QED
  BY <1>1, StartListing, TurnListing, RefuseListing, EndListing, ForeignListing DEF L!Next

LEMMA ListingHolds == ListingInv => L!ListingSound
<1> SUFFICES ASSUME ListingInv PROVE L!ListingSound
  OBVIOUS
<1>1. ASSUME NEW d \in 1..born
      PROVE  L!Cardinality({p \in L!File : at[p] = d}) = IF d \in removed THEN 0 ELSE 1
  <2>0. d # None
    BY DocsNotNone DEF ListingInv, ListTyped
  <2>1. CASE d \in removed
    <3>1. {p \in L!File : at[p] = d} = {}
      BY <2>0, <2>1 DEF ListingInv, Placed
    <3>2. QED
      BY <2>1, <3>1, FS_EmptySet, SameCardinality
  <2>2. CASE d \notin removed
    <3>1. PICK x \in L!File : at[x] = d
      BY <2>2 DEF ListingInv, Placed
    <3>2. {p \in L!File : at[p] = d} = {x}
      BY <2>0, <3>1 DEF ListingInv, Placed
    <3>3. QED
      BY <2>2, <3>2, FS_Singleton, SameCardinality
  <2>3. QED
    BY <2>1, <2>2
<1>2. L!CountsTold
  <2>1. ASSUME job.op = "load"
        PROVE  job.ok + job.failed = job.asked
    <3>1. job.todo = <<>> /\ job.ok + job.failed + Len(job.todo) = job.asked
      BY <2>1 DEF ListingInv, Counted
    <3>2. job.ok \in Nat /\ job.failed \in Nat
      BY DEF ListingInv, ListTyped, L!Job
    <3>3. QED
      BY <3>1, <3>2
  <2>2. QED
    BY <2>1 DEF L!CountsTold
<1>3. L!ListCurrent
  BY DEF ListingInv, Counted, Followed, L!ListCurrent
<1>4. QED
  BY <1>1, <1>2, <1>3 DEF L!ListingSound, L!NothingLost

\* Moves, half done or run into others' changes, lose no document and double none;
\* the message counts every file; and the page follows what is stored.
THEOREM ListingSafe == FocusSpec => []ListingSound
<1> DEFINE Inv == focus = "listing" => ListingInv
<1>1. FocusInit => Inv
  BY InitListing DEF FocusInit
<1>2. Inv /\ [FocusNext]_focusVars => Inv'
  BY FocusStays, StepListing
<1>3. Inv => ListingSound
  BY ListingHolds DEF ListingSound
<1>4. QED
  BY <1>1, <1>2, <1>3, PTL DEF FocusSpec

-----------------------------------------------------------------------------
(* Panels: what a page shows beside the records of the server. *)

Records   == [Row -> Name \cup {None}]
PanelCall == [pc: {"idle", "sent", "done", "failed", "load", "loaded"},
              op: {"none", "save", "remove", "clear"},
              row: Row \cup {None}, name: Name \cup {None}, list: Records \cup {None}]

\* The lists on their way are lists.
PanelTyped ==
  /\ panel \in P!Managers \cup P!Lists \cup P!Switches
  /\ rows \in Records /\ shown \in Records
  /\ form \in [row: Row \cup {None}, name: Name \cup {None}]
  /\ call \in [Call -> PanelCall]
  /\ \A c \in Call :
       /\ call[c].pc = "sent" => call[c].op \in {"save", "remove"} \/ (call[c].op = "clear" /\ panel = "bell")
       /\ call[c].pc = "loaded" \/ (call[c].pc = "done" /\ P!Answers(call[c])) => call[c].list \in Records
       /\ panel \in P!Switches /\ call[c].pc # "idle" =>
            call[c].pc \in {"sent", "done", "failed"} /\ call[c].row \in Row /\ call[c].list \in Records

\* At most one call is in flight, or for the media loads a list.
Solo ==
  /\ ~overlapped => \A c, d \in Call :
       \/ c = d \/ call[c].pc = "idle" \/ call[d].pc = "idle"
       \/ panel = "media" /\ (call[c].pc \notin {"load", "loaded"} \/ call[d].pc \notin {"load", "loaded"})
  /\ panel \in P!Managers => ~overlapped

\* A page that does not show the records will: a call is done, or a list is loaded
\* that has them or that a call done will have loaded again.
Answered == \E c \in Call : call[c].pc = "done"
Coming   == \E c \in Call : call[c].pc = "load" \/ (call[c].pc = "loaded" /\ call[c].list = rows)

Shows ==
  /\ ~overlapped /\ ~stale =>
       \A c \in Call : call[c].pc = "done" /\ P!Answers(call[c]) => call[c].list = rows
  /\ panel \notin P!Switches /\ ~overlapped /\ ~stale /\ ~lost =>
       /\ shown = rows \/ Answered \/ Coming
       /\ Answered \/ \A c \in Call : call[c].pc = "loaded" => call[c].list = rows

\* A switch is shown before it is answered, and the list before is kept for a failure.
Switched ==
  panel \in P!Switches /\ ~overlapped /\ ~stale /\ ~lost =>
    /\ \A c \in Call : call[c].pc \in {"sent", "failed"} =>
         call[c].list = rows /\ shown = [rows EXCEPT ![call[c].row] = call[c].name]
    /\ (\A c \in Call : call[c].pc \in {"idle", "done"}) => shown = rows

\* A save holds what the form holds; a refused form is touched only when it is let go.
Drafted ==
  /\ panel \notin P!Managers => refused = None
  /\ panel \in P!Managers /\ P!Busy => refused = None
  /\ panel \in P!Managers => \A c \in Call :
       call[c].pc \in {"sent", "done", "failed"} /\ call[c].op = "save" => form.row = call[c].row /\ form.name # None
  /\ refused # None => form = refused /\ form.name # None

PanelInv == PanelTyped /\ Solo /\ Shows /\ Switched /\ Drafted

LEMMA NamesNamed == P!Names \subseteq Name /\ P!List \subseteq Records
<1>1. (CHOOSE n \in Name : TRUE) \in Name
  BY PanelsAssumption
<1>2. P!Names \subseteq Name
  BY <1>1 DEF P!Names
<1>3. QED
  BY <1>2 DEF P!List, Records

LEMMA QuietCall ==
  /\ P!Quiet \in PanelCall /\ P!Quiet.pc = "idle" /\ P!Quiet.op = "none" /\ P!Quiet.list = None
BY DEF P!Quiet, PanelCall

LEMMA InitPanel == P!Init => PanelInv
<1> SUFFICES ASSUME P!Init PROVE PanelInv
  OBVIOUS
<1>1. /\ panel \in P!Managers \cup P!Lists \cup P!Switches
      /\ rows \in P!List /\ shown = rows /\ form = P!Empty /\ call = [c \in Call |-> P!Quiet]
      /\ refused = None /\ stale = FALSE /\ lost = FALSE /\ overlapped = FALSE
  BY DEF P!Init
<1>2. call \in [Call -> PanelCall] /\ \A c \in Call : call[c].pc = "idle"
  BY <1>1, QuietCall
<1>3. form \in [row: Row \cup {None}, name: Name \cup {None}]
  BY <1>1 DEF P!Empty
<1>4. PanelTyped
  BY <1>1, <1>2, <1>3, NamesNamed DEF PanelTyped
<1>5. Solo /\ Shows /\ Switched /\ Drafted
  BY <1>1, <1>2 DEF Solo, Shows, Switched, Drafted, P!Busy
<1>6. QED
  BY <1>4, <1>5 DEF PanelInv

\* One call changes.
LEMMA SetCall ==
  ASSUME PanelTyped, NEW c \in Call, NEW k \in PanelCall, call' = [call EXCEPT ![c] = k]
  PROVE  /\ call' \in [Call -> PanelCall] /\ call'[c] = k
         /\ \A d \in Call : d # c => call'[d] = call[d]
BY DEF PanelTyped

\* The pages by name.
LEMMA Pages ==
  /\ \A p \in P!Managers : p \notin P!Switches \cup {"media", "access", "review", "watching", "bell", "share", "source", "muted"}
  /\ \A p \in P!Switches : p \notin {"media", "access", "review", "watching", "bell", "share", "team", "comments"}
BY DEF P!Managers, P!Switches

-----------------------------------------------------------------------------
(* The form, and calls that are sent. *)

LEMMA FormPanel ==
  ASSUME PanelInv, panel \in P!Managers,
         P!Reset \/ (\E n \in Name : P!Type(n)) \/ (\E x \in Row : P!Edit(x))
  PROVE  PanelInv'
<1>1. UNCHANGED <<panel, rows, shown, call, stale, lost, overlapped>> /\ refused' = None
  BY DEF P!Reset, P!Type, P!Edit
<1>2. form \in [row: Row \cup {None}, name: Name \cup {None}] /\ shown \in [Row -> Name \cup {None}]
  BY DEF PanelInv, PanelTyped, Records
<1>3. PanelTyped' /\ Solo' /\ Shows' /\ Switched' /\ Drafted'
  <2>1. Solo' /\ Shows' /\ Switched'
    BY <1>1 DEF PanelInv, Solo, Shows, Switched, Answered, Coming, P!Answers, Records
  <2>2. form' \in [row: Row \cup {None}, name: Name \cup {None}] /\ Drafted'
    <3>1. CASE P!Reset \/ \E x \in Row : P!Edit(x)
      <4>1. ~P!Busy
        BY <3>1 DEF P!Reset, P!Edit
      <4>2. form' \in [row: Row \cup {None}, name: Name \cup {None}]
        BY <1>2, <3>1 DEF P!Reset, P!Edit, P!Empty
      <4>3. QED
        BY <1>1, <4>1, <4>2 DEF Drafted, P!Busy
    <3>2. CASE \E n \in Name : P!Type(n)
      <4>1. PICK n \in Name : form' = [form EXCEPT !.name = n]
        BY <3>2 DEF P!Type
      <4>2. form' \in [row: Row \cup {None}, name: Name \cup {None}] /\ form'.row = form.row /\ form'.name = n
        BY <1>2, <4>1
      <4>3. QED
        BY <1>1, <4>2, PanelsAssumption DEF PanelInv, Drafted, P!Busy
    <3>3. QED
      BY <3>1, <3>2
  <2>3. PanelTyped'
    BY <1>1, <2>2 DEF PanelInv, PanelTyped, P!Answers
  <2>4. QED
    BY <2>1, <2>2, <2>3
<1>4. QED
  BY <1>3 DEF PanelInv

\* A call that is sent, on a page without switches.
LEMMA SendPanel ==
  ASSUME PanelInv, NEW c \in Call, NEW s \in PanelCall, P!Send(c, s), panel \notin P!Switches,
         \/ s.pc = "sent" /\ (s.op \in {"save", "remove"} \/ (s.op = "clear" /\ panel = "bell"))
         \/ s.pc = "load" /\ panel = "bell",
         UNCHANGED <<panel, rows, shown, form, stale, lost>>,
         refused' = None \/ (refused' = refused /\ panel \notin P!Managers),
         panel \in P!Managers /\ s.op = "save" => form.row = s.row /\ form.name # None
  PROVE  PanelInv'
<1>1. /\ call[c].pc = "idle" /\ (panel \in P!Managers => ~P!Busy) /\ call' = [call EXCEPT ![c] = s]
      /\ overlapped' = (overlapped \/ (P!Busy /\ panel # "media"))
  BY DEF P!Send
<1>2. call' \in [Call -> PanelCall] /\ call'[c] = s /\ \A d \in Call : d # c => call'[d] = call[d]
  BY <1>1, SetCall DEF PanelInv
<1>3. PanelTyped'
  BY <1>2 DEF PanelInv, PanelTyped, P!Answers
<1>4. Solo'
  BY <1>1, <1>2, Pages DEF PanelInv, Solo, P!Busy
<1>5. Shows' /\ Switched'
  BY <1>1, <1>2 DEF PanelInv, Shows, Switched, Answered, Coming, P!Answers, P!Busy
<1>6. Drafted'
  BY <1>1, <1>2 DEF PanelInv, Drafted, P!Busy
<1>7. QED
  BY <1>3, <1>4, <1>5, <1>6 DEF PanelInv

LEMMA ManagerPanel ==
  ASSUME PanelInv, NEW c \in Call, panel \in P!Managers, P!Save(c) \/ P!Remove(c)
  PROVE  PanelInv'
<1>0. panel \notin P!Switches /\ form \in [row: Row \cup {None}, name: Name \cup {None}]
  BY Pages DEF PanelInv, PanelTyped
<1>1. UNCHANGED <<panel, rows, shown, form, stale, lost>> /\ refused' = None
  BY DEF P!Save, P!Remove
<1>2. CASE P!Save(c)
  <2> DEFINE s == [P!Quiet EXCEPT !.pc = "sent", !.op = "save", !.row = form.row, !.name = form.name]
  <2>1. P!Send(c, s) /\ form.name # None
    BY <1>2 DEF P!Save
  <2>2. s \in PanelCall /\ s.pc = "sent" /\ s.op = "save" /\ s.row = form.row
    BY <1>0 DEF P!Quiet, PanelCall
  <2> HIDE DEF s
  <2>3. QED
    BY <1>0, <1>1, <2>1, <2>2, SendPanel
<1>3. CASE P!Remove(c)
  <2>1. PICK x \in Row : P!Send(c, [P!Quiet EXCEPT !.pc = "sent", !.op = "remove", !.row = x])
    BY <1>3 DEF P!Remove
  <2> DEFINE s == [P!Quiet EXCEPT !.pc = "sent", !.op = "remove", !.row = x]
  <2>2. s \in PanelCall /\ s.pc = "sent" /\ s.op = "remove"
    BY DEF P!Quiet, PanelCall
  <2>3. P!Send(c, s)
    BY <2>1
  <2> HIDE DEF s
  <2>4. QED
    BY <1>0, <1>1, <2>2, <2>3, SendPanel
<1>4. QED
  BY <1>2, <1>3

LEMMA ListPanel ==
  ASSUME PanelInv, NEW c \in Call, panel \in P!Lists,
         \/ P!Add(c) \/ P!Change(c) \/ P!PutAnywhere(c) \/ P!Remove(c)
         \/ panel = "bell" /\ (P!RefreshCount(c) \/ P!MarkAll(c))
  PROVE  PanelInv'
<1>0. panel \notin P!Switches /\ panel \notin P!Managers
  BY DEF P!Lists, P!Switches, P!Managers
<1>1. CASE \E x \in Row \cup {None}, n \in Name : P!Put(c, x, n)
  <2>1. PICK x \in Row \cup {None}, n \in Name : P!Put(c, x, n)
    BY <1>1
  <2> DEFINE s == [P!Quiet EXCEPT !.pc = "sent", !.op = "save", !.row = x, !.name = n]
  <2>2. P!Send(c, s) /\ UNCHANGED <<panel, rows, shown, form, refused, stale, lost>>
    BY <2>1 DEF P!Put
  <2>3. s \in PanelCall /\ s.pc = "sent" /\ s.op = "save"
    BY DEF P!Quiet, PanelCall
  <2> HIDE DEF s
  <2>4. QED
    BY <1>0, <2>2, <2>3, SendPanel
<1>2. CASE P!Remove(c)
  <2>1. PICK x \in Row : P!Send(c, [P!Quiet EXCEPT !.pc = "sent", !.op = "remove", !.row = x])
    BY <1>2 DEF P!Remove
  <2> DEFINE s == [P!Quiet EXCEPT !.pc = "sent", !.op = "remove", !.row = x]
  <2>2. s \in PanelCall /\ s.pc = "sent" /\ s.op = "remove"
    BY DEF P!Quiet, PanelCall
  <2>3. P!Send(c, s) /\ UNCHANGED <<panel, rows, shown, form, stale, lost>> /\ refused' = None
    BY <1>2, <2>1 DEF P!Remove
  <2> HIDE DEF s
  <2>4. QED
    BY <1>0, <2>2, <2>3, SendPanel
<1>3. CASE panel = "bell" /\ P!RefreshCount(c)
  <2> DEFINE s == [P!Quiet EXCEPT !.pc = "load"]
  <2>1. P!Send(c, s) /\ UNCHANGED <<panel, rows, shown, form, refused, stale, lost>>
    BY <1>3 DEF P!RefreshCount
  <2>2. s \in PanelCall /\ s.pc = "load"
    BY DEF P!Quiet, PanelCall
  <2> HIDE DEF s
  <2>3. QED
    BY <1>0, <1>3, <2>1, <2>2, SendPanel
<1>4. CASE panel = "bell" /\ P!MarkAll(c)
  <2> DEFINE s == [P!Quiet EXCEPT !.pc = "sent", !.op = "clear"]
  <2>1. P!Send(c, s) /\ UNCHANGED <<panel, rows, shown, form, refused, stale, lost>>
    BY <1>4 DEF P!MarkAll
  <2>2. s \in PanelCall /\ s.pc = "sent" /\ s.op = "clear"
    BY DEF P!Quiet, PanelCall
  <2> HIDE DEF s
  <2>3. QED
    BY <1>0, <1>4, <2>1, <2>2, SendPanel
<1>5. (P!Add(c) \/ P!Change(c) \/ P!PutAnywhere(c)) => \E x \in Row \cup {None}, n \in Name : P!Put(c, x, n)
  BY NamesNamed DEF P!Add, P!Change, P!PutAnywhere
<1>6. QED
  BY <1>1, <1>2, <1>3, <1>4, <1>5

LEMMA TogglePanel ==
  ASSUME PanelInv, NEW c \in Call, panel \in P!Switches, P!Toggle(c)
  PROVE  PanelInv'
<1>1. PICK x \in Row, n \in P!Names :
        /\ shown' = [shown EXCEPT ![x] = IF @ = n THEN None ELSE n]
        /\ P!Send(c, [P!Quiet EXCEPT !.pc = "sent", !.op = "save", !.row = x, !.name = shown'[x], !.list = shown])
  BY DEF P!Toggle
<1>2. UNCHANGED <<panel, rows, form, refused, stale, lost>>
  BY DEF P!Toggle
<1>3. shown \in Records /\ shown' \in Records /\ shown'[x] \in Name \cup {None} /\ shown' = [shown EXCEPT ![x] = shown'[x]]
  BY <1>1, NamesNamed DEF PanelInv, PanelTyped, Records
<1> DEFINE s == [P!Quiet EXCEPT !.pc = "sent", !.op = "save", !.row = x, !.name = shown'[x], !.list = shown]
<1>4. /\ s \in PanelCall /\ s.pc = "sent" /\ s.op = "save" /\ s.row = x /\ s.name = shown'[x] /\ s.list = shown
  BY <1>3 DEF P!Quiet, PanelCall
<1>5. /\ call[c].pc = "idle" /\ call' = [call EXCEPT ![c] = s]
      /\ overlapped' = (overlapped \/ (P!Busy /\ panel # "media"))
  BY <1>1 DEF P!Send
<1> HIDE DEF s
<1>6. call' \in [Call -> PanelCall] /\ call'[c] = s /\ \A d \in Call : d # c => call'[d] = call[d]
  BY <1>4, <1>5, SetCall DEF PanelInv
<1>7. panel \notin P!Managers /\ panel # "media"
  BY Pages
<1>8. PanelTyped'
  BY <1>2, <1>3, <1>4, <1>6 DEF PanelInv, PanelTyped, P!Answers
<1>9. Solo'
  BY <1>2, <1>4, <1>5, <1>6, <1>7 DEF PanelInv, Solo, P!Busy
<1>10. Shows'
  BY <1>2, <1>4, <1>5, <1>6 DEF PanelInv, Shows, P!Answers
<1>11. Switched'
  <2>1. SUFFICES ASSUME ~overlapped', ~stale', ~lost'
                 PROVE  Switched'
    BY DEF Switched
  <2>2. ~P!Busy /\ shown = rows
    BY <1>2, <1>5, <1>7, <2>1 DEF PanelInv, Switched, P!Busy
  <2>3. \A d \in Call : d # c => call'[d].pc = "idle"
    BY <1>6, <2>2 DEF P!Busy
  <2>4. s.list = rows' /\ shown' = [rows' EXCEPT ![s.row] = s.name]
    BY <1>2, <1>3, <1>4, <2>2
  <2>5. QED
    BY <1>4, <1>6, <2>3, <2>4 DEF Switched
<1>12. Drafted'
  BY <1>2, <1>7 DEF PanelInv, Drafted
<1>13. QED
  BY <1>8, <1>9, <1>10, <1>11, <1>12 DEF PanelInv

-----------------------------------------------------------------------------
(* The services. *)

\* Whatever a call does, what is recorded after it is a list, of any set N of names
\* that has those of the records and of the call.
LEMMA AfterLists ==
  ASSUME PanelInv, NEW c \in Call, NEW k, k = call[c], k.pc = "sent", NEW next \in P!After(k),
         NEW N, P!Names \subseteq N, k.name \in N \cup {None},
         NEW R, R = [Row -> N \cup {None}], rows \in R,
         panel \in P!Switches => k.list \in R
  PROVE  /\ next \in R
         /\ panel \in P!Switches => next = [(IF panel = "muted" THEN k.list ELSE rows) EXCEPT ![k.row] = k.name]
<1>1. /\ k.row \in Row \cup {None}
      /\ k.op \in {"save", "remove"} \/ (k.op = "clear" /\ panel = "bell")
      /\ panel \in P!Managers \cup P!Lists \cup P!Switches
  BY DEF PanelInv, PanelTyped, PanelCall
<1>2. \A l \in R : \A x, n : n \in N \cup {None} => [l EXCEPT ![x] = n] \in R
  OBVIOUS
<1>3. P!Nothing \in R /\ P!List \subseteq R
  BY DEF P!Nothing, P!List
<1>4. /\ P!Created(k.name) \subseteq R /\ P!Updated(k.row, k.name) \subseteq R
      /\ P!Removed(k.row) \subseteq R /\ P!Written(k.row, k.name) \subseteq R
      /\ P!Written(k.row, None) \subseteq R
  <2>1. P!Created(k.name) \subseteq R
    BY <1>3 DEF P!Created
  <2>2. \A x : P!Removed(x) \subseteq R
    BY <1>2 DEF P!Removed
  <2>3. \A x, n : n \in N \cup {None} => P!Written(x, n) \subseteq R /\ P!Updated(x, n) \subseteq R
    <3> SUFFICES ASSUME NEW x, NEW n \in N \cup {None}
                 PROVE  P!Written(x, n) \subseteq R /\ P!Updated(x, n) \subseteq R
      OBVIOUS
    <3>1. [rows EXCEPT ![x] = n] \in R
      BY <1>2
    <3>2. QED
      BY <3>1 DEF P!Written, P!Updated
  <2>4. QED
    BY <1>1, <2>1, <2>2, <2>3
<1>5. CASE panel \in P!Managers \cup {"team", "media", "share"}
  <2>1. next \in P!Catalogue(k)
    BY <1>5 DEF P!After, P!Switches, P!Managers
  <2>2. panel \notin P!Switches /\ panel # "bell"
    BY <1>5 DEF P!Switches, P!Managers
  <2>3. QED
    BY <1>1, <1>4, <2>1, <2>2 DEF P!Catalogue
<1>6. CASE panel = "comments"
  <2>1. panel \notin P!Switches /\ next \in P!Comments(k)
    BY <1>6 DEF P!After, P!Switches, P!Managers
  <2>2. QED
    BY <1>4, <2>1 DEF P!Comments
<1>7. CASE panel \in {"access", "review", "watching", "bell"}
  <2>1. panel \notin P!Switches /\ next \in P!Marks(k)
    BY <1>7 DEF P!After, P!Switches, P!Managers
  <2>2. QED
    BY <1>1, <1>3, <1>4, <2>1 DEF P!Marks
<1>8. CASE panel \in P!Switches
  <2>1. next \in P!Settings(k)
    BY <1>8 DEF P!After, P!Switches, P!Managers
  <2>2. next = [(IF panel = "muted" THEN k.list ELSE rows) EXCEPT ![k.row] = k.name]
    BY <2>1 DEF P!Settings, P!Written
  <2>3. QED
    BY <1>1, <1>2, <1>8, <2>2
<1>9. QED
  BY <1>1, <1>5, <1>6, <1>7, <1>8 DEF P!Lists

LEMMA AfterRecords ==
  ASSUME PanelInv, NEW c \in Call, call[c].pc = "sent", NEW next \in P!After(call[c])
  PROVE  /\ next \in Records
         /\ panel \in P!Switches =>
              next = [(IF panel = "muted" THEN call[c].list ELSE rows) EXCEPT ![call[c].row] = call[c].name]
<1>1. rows \in Records /\ call[c].name \in Name \cup {None} /\ (panel \in P!Switches => call[c].list \in Records)
  BY DEF PanelInv, PanelTyped, PanelCall
<1>2. Records = [Row -> Name \cup {None}]
  BY DEF Records
<1>3. QED
  BY <1>1, <1>2, NamesNamed, AfterLists

\* A call that failed, before its effect or with its answer.
LEMMA FailedPanel ==
  ASSUME PanelInv, NEW c \in Call, call[c].pc \in {"sent", "done"},
         call' = [call EXCEPT ![c].pc = "failed"],
         lost' <=> lost \/ call[c].pc = "done",
         UNCHANGED <<panel, rows, shown, form, refused, stale, overlapped>>
  PROVE  PanelInv'
<1>1. call \in [Call -> PanelCall]
  BY DEF PanelInv, PanelTyped
<1>2. /\ call' \in [Call -> PanelCall] /\ \A d \in Call : d # c => call'[d] = call[d]
      /\ call'[c].pc = "failed" /\ call'[c].op = call[c].op /\ call'[c].row = call[c].row
      /\ call'[c].name = call[c].name /\ call'[c].list = call[c].list
  BY <1>1 DEF PanelCall
<1>3. PanelTyped'
  BY <1>2 DEF PanelInv, PanelTyped, P!Answers
<1>4. Solo'
  BY <1>2 DEF PanelInv, Solo
<1>5. Shows'
  BY <1>2 DEF PanelInv, Shows, Answered, Coming, P!Answers
<1>6. Switched'
  <2>1. SUFFICES ASSUME panel \in P!Switches, ~overlapped, ~stale, ~lost, call[c].pc = "sent"
                 PROVE  Switched'
    BY DEF Switched
  <2>2. QED
    BY <1>2, <2>1 DEF PanelInv, Switched
<1>7. Drafted'
  BY <1>2 DEF PanelInv, Drafted, P!Busy
<1>8. QED
  BY <1>3, <1>4, <1>5, <1>6, <1>7 DEF PanelInv

LEMMA ReplyPanel ==
  ASSUME PanelInv, NEW c \in Call, P!Reply(c)
  PROVE  PanelInv'
<1>1. call[c].pc = "sent" /\ UNCHANGED <<panel, shown, form, refused, lost, overlapped>>
  BY DEF P!Reply
<1>2. CASE call' = [call EXCEPT ![c].pc = "failed"] /\ UNCHANGED <<rows, stale>>
  BY <1>1, <1>2, FailedPanel
<1>3. CASE \E next \in P!After(call[c]) :
             /\ rows' = next
             /\ call' = [call EXCEPT ![c].pc = "done", ![c].list = IF P!Answers(call[c]) THEN next ELSE @]
             /\ stale' = (stale /\ ~P!Answers(call[c]))
  <2>1. PICK next \in P!After(call[c]) :
             /\ rows' = next
             /\ call' = [call EXCEPT ![c].pc = "done", ![c].list = IF P!Answers(call[c]) THEN next ELSE @]
             /\ stale' = (stale /\ ~P!Answers(call[c]))
    BY <1>3
  <2>2. /\ next \in Records
        /\ panel \in P!Switches =>
             next = [(IF panel = "muted" THEN call[c].list ELSE rows) EXCEPT ![call[c].row] = call[c].name]
    BY <1>1, AfterRecords
  <2>3. call \in [Call -> PanelCall]
    BY DEF PanelInv, PanelTyped
  <2> DEFINE l == IF P!Answers(call[c]) THEN next ELSE call[c].list
  <2>4. l \in Records \cup {None}
    BY <2>2, <2>3 DEF PanelCall
  <2>5. call' = [call EXCEPT ![c].pc = "done", ![c].list = l]
    BY <2>1, <2>3
  <2> HIDE DEF l
  <2>6. /\ call' \in [Call -> PanelCall] /\ \A d \in Call : d # c => call'[d] = call[d]
        /\ call'[c].pc = "done" /\ call'[c].op = call[c].op /\ call'[c].row = call[c].row
        /\ call'[c].name = call[c].name /\ call'[c].list = l
    BY <2>3, <2>4, <2>5 DEF PanelCall
  <2>7. P!Answers(call[c]) => l = next
    BY DEF l
  <2>8. ~P!Answers(call[c]) => l = call[c].list
    BY DEF l
  <2>9. panel \in P!Switches \cup {"media"} => ~P!Answers(call[c])
    BY Pages DEF P!Answers
  <2>10. PanelTyped'
    BY <1>1, <2>1, <2>2, <2>6, <2>7, <2>8, <2>9 DEF PanelInv, PanelTyped, P!Answers
  <2>11. Solo'
    BY <1>1, <2>6 DEF PanelInv, Solo
  <2>12. Shows'
    <3>1. Answered'
      BY <2>6 DEF Answered
    <3>2. ASSUME ~overlapped, ~stale', NEW d \in Call, call'[d].pc = "done", P!Answers(call[d])
          PROVE  call'[d].list = rows'
      <4>1. panel # "media"
        BY <3>2 DEF P!Answers
      <4>2. d = c
        BY <1>1, <2>6, <3>2, <4>1 DEF PanelInv, Solo
      <4>3. QED
        BY <2>1, <2>6, <2>7, <3>2, <4>2
    <3>3. \A d \in Call : P!Answers(call[d])' => P!Answers(call[d])
      BY <1>1, <2>6 DEF P!Answers
    <3>4. QED
      BY <1>1, <3>1, <3>2, <3>3 DEF Shows
  <2>13. Switched'
    <3>1. SUFFICES ASSUME panel \in P!Switches, ~overlapped, ~stale, ~lost
                   PROVE  Switched'
      BY <1>1, <2>1, <2>9 DEF Switched
    <3>2. panel # "media"
      BY <3>1, Pages
    <3>3. \A d \in Call : d # c => call'[d].pc = "idle"
      BY <1>1, <2>6, <3>1, <3>2 DEF PanelInv, Solo
    <3>4. call[c].list = rows /\ shown = [rows EXCEPT ![call[c].row] = call[c].name]
      BY <1>1, <3>1 DEF PanelInv, Switched
    <3>5. shown' = rows'
      BY <1>1, <2>1, <2>2, <3>1, <3>4
    <3>6. QED
      BY <2>6, <3>3, <3>5 DEF Switched
  <2>14. Drafted'
    BY <1>1, <2>6 DEF PanelInv, Drafted, P!Busy
  <2>15. QED
    BY <2>10, <2>11, <2>12, <2>13, <2>14 DEF PanelInv
<1>4. QED
  BY <1>2, <1>3 DEF P!Reply

LEMMA OutsidePanel ==
  ASSUME PanelInv, P!Foreign \/ \E c \in Call : P!RefuseFields(c) \/ P!Fail(c)
  PROVE  PanelInv'
<1>1. CASE P!Foreign
  <2>1. rows' \in Records /\ stale' = TRUE /\ UNCHANGED <<panel, shown, form, call, refused, lost, overlapped>>
    BY <1>1, NamesNamed DEF P!Foreign
  <2>2. QED
    BY <2>1 DEF PanelInv, PanelTyped, Solo, Shows, Switched, Drafted, P!Answers, P!Busy
<1>2. ASSUME NEW c \in Call, P!RefuseFields(c)
      PROVE  PanelInv'
  BY <1>2, FailedPanel DEF P!RefuseFields
<1>3. ASSUME NEW c \in Call, P!Fail(c)
      PROVE  PanelInv'
  BY <1>3, FailedPanel DEF P!Fail
<1>4. QED
  BY <1>1, <1>2, <1>3

-----------------------------------------------------------------------------
(* The answers. *)

\* A call ends, or loads the list.
LEMMA QuietPanel ==
  ASSUME PanelTyped, NEW c \in Call, call' = [call EXCEPT ![c] = P!Quiet]
  PROVE  /\ call' \in [Call -> PanelCall] /\ call'[c] = P!Quiet /\ call'[c].pc = "idle"
         /\ \A d \in Call : d # c => call'[d] = call[d]
BY QuietCall, SetCall

LEMMA LoadingPanel ==
  ASSUME PanelTyped, NEW c \in Call, call' = P!Loading(c)
  PROVE  /\ call' \in [Call -> PanelCall] /\ call'[c].pc = "load"
         /\ \A d \in Call : d # c =>
              \/ call'[d] = call[d] /\ (panel = "media" => call'[d].pc \notin {"load", "loaded"})
              \/ panel = "media" /\ call[d].pc \in {"load", "loaded"} /\ call'[d].pc = "idle" /\ call'[d] = P!Quiet
<1> DEFINE k == [call[c] EXCEPT !.pc = "load", !.list = None]
<1>1. call \in [Call -> PanelCall]
  BY DEF PanelTyped
<1>2. k \in PanelCall /\ k.pc = "load"
  BY <1>1 DEF PanelCall
<1>3. call' = [d \in Call |-> CASE d = c -> k
                 [] d # c /\ panel = "media" /\ call[d].pc \in {"load", "loaded"} -> P!Quiet
                 [] OTHER -> call[d]]
  BY DEF P!Loading
<1> HIDE DEF k
<1>4. call'[c] = k
  BY <1>3
<1>5. \A d \in Call : d # c =>
        \/ call'[d] = call[d] /\ (panel = "media" => call'[d].pc \notin {"load", "loaded"})
        \/ panel = "media" /\ call[d].pc \in {"load", "loaded"} /\ call'[d] = P!Quiet
  BY <1>3
<1>6. \A d \in Call : call'[d] \in PanelCall
  BY <1>1, <1>2, <1>4, <1>5, QuietCall
<1>7. call' = [d \in Call |-> call'[d]]
  BY <1>3
<1>8. call' \in [Call -> PanelCall]
  BY <1>6, <1>7
<1>9. QED
  BY <1>2, <1>4, <1>5, <1>8, QuietCall

LEMMA SucceedPanel ==
  ASSUME PanelInv, NEW c \in Call, P!Succeed(c)
  PROVE  PanelInv'
<1>1. /\ call[c].pc = "done" /\ form' = P!Kept(call[c])
      /\ UNCHANGED <<panel, rows, refused, stale, lost, overlapped>>
  BY DEF P!Succeed, P!history
<1>2. form' \in [row: Row \cup {None}, name: Name \cup {None}]
  BY <1>1 DEF PanelInv, PanelTyped, P!Kept, P!Empty
<1>3. PanelTyped
  BY DEF PanelInv
<1>4. panel \in P!Managers => \A d \in Call : d # c => call[d].pc = "idle"
  BY <1>1, Pages DEF PanelInv, Solo
<1>5. refused = None
  BY <1>1 DEF PanelInv, Drafted, P!Busy
<1>6. CASE P!Answers(call[c])
  <2>1. shown' = call[c].list /\ call' = [call EXCEPT ![c] = P!Quiet]
    BY <1>6 DEF P!Succeed
  <2>2. panel \notin P!Switches \cup {"media"} /\ panel \notin P!Managers
    BY <1>6, Pages DEF P!Answers
  <2>3. /\ call' \in [Call -> PanelCall] /\ call'[c].pc = "idle"
        /\ \A d \in Call : d # c => call'[d] = call[d]
    BY <1>3, <2>1, QuietPanel
  <2>4. PanelTyped'
    BY <1>1, <1>2, <1>6, <2>1, <2>3 DEF PanelInv, PanelTyped, P!Answers
  <2>5. Solo'
    BY <1>1, <2>2, <2>3 DEF PanelInv, Solo
  <2>6. ~overlapped => \A d \in Call : call'[d].pc = "idle"
    BY <1>1, <2>2, <2>3 DEF PanelInv, Solo
  <2>7. Shows' /\ Switched'
    BY <1>1, <1>6, <2>1, <2>2, <2>6 DEF PanelInv, Shows, Switched
  <2>8. Drafted'
    BY <1>1, <1>5, <2>2 DEF Drafted
  <2>9. QED
    BY <2>4, <2>5, <2>7, <2>8 DEF PanelInv
<1>7. CASE ~P!Answers(call[c]) /\ panel \in P!Switches
  <2>1. shown' = shown /\ call' = [call EXCEPT ![c] = P!Quiet]
    BY <1>7 DEF P!Succeed
  <2>2. panel # "media" /\ panel \notin P!Managers
    BY <1>7, Pages
  <2>3. /\ call' \in [Call -> PanelCall] /\ call'[c].pc = "idle"
        /\ \A d \in Call : d # c => call'[d] = call[d]
    BY <1>3, <2>1, QuietPanel
  <2>4. PanelTyped'
    BY <1>1, <1>2, <2>1, <2>3 DEF PanelInv, PanelTyped, P!Answers
  <2>5. Solo'
    BY <1>1, <2>2, <2>3 DEF PanelInv, Solo
  <2>6. Shows'
    BY <1>1, <1>7, <2>1, <2>3 DEF PanelInv, Shows, P!Answers
  <2>7. Switched'
    <3>1. ~overlapped => \A d \in Call : d # c => call[d].pc = "idle"
      BY <1>1, <2>2 DEF PanelInv, Solo
    <3>2. QED
      BY <1>1, <1>7, <2>1, <2>3, <3>1 DEF PanelInv, Switched
  <2>8. Drafted'
    BY <1>1, <1>5, <2>2 DEF Drafted
  <2>9. QED
    BY <2>4, <2>5, <2>6, <2>7, <2>8 DEF PanelInv
<1>8. CASE ~P!Answers(call[c]) /\ panel \notin P!Switches
  <2>1. shown' = shown /\ call' = P!Loading(c)
    BY <1>8 DEF P!Succeed
  <2>2. /\ call' \in [Call -> PanelCall] /\ call'[c].pc = "load"
        /\ \A d \in Call : d # c =>
             \/ call'[d] = call[d] /\ (panel = "media" => call'[d].pc \notin {"load", "loaded"})
             \/ panel = "media" /\ call'[d].pc = "idle"
    BY <1>3, <2>1, LoadingPanel
  <2>3. PanelTyped'
    BY <1>1, <1>2, <1>8, <2>1, <2>2 DEF PanelInv, PanelTyped, P!Answers
  <2>4. Solo'
    BY <1>1, <2>2 DEF PanelInv, Solo
  <2>5. Shows'
    <3>1. Coming'
      BY <2>2 DEF Coming
    <3>2. ~overlapped => \A d \in Call : call'[d].pc # "loaded"
      BY <1>1, <2>2 DEF PanelInv, Solo
    <3>3. ~overlapped => \A d \in Call : call'[d].pc = "done" => panel = "media"
      BY <1>1, <2>2 DEF PanelInv, Solo
    <3>4. QED
      BY <1>1, <3>1, <3>2, <3>3 DEF Shows, P!Answers
  <2>6. Switched'
    BY <1>1, <1>8 DEF Switched
  <2>7. Drafted'
    BY <1>1, <1>4, <1>5, <2>2 DEF Drafted
  <2>8. QED
    BY <2>3, <2>4, <2>5, <2>6, <2>7 DEF PanelInv
<1>9. QED
  BY <1>6, <1>7, <1>8

LEMMA RefusePanel ==
  ASSUME PanelInv, NEW c \in Call, P!Refuse(c)
  PROVE  PanelInv'
<1>1. /\ call[c].pc = "failed" /\ shown' = P!Back(call[c]) /\ (lost' <=> lost \/ panel = "source")
      /\ refused' = P!Draft(c) /\ UNCHANGED <<panel, rows, form, stale, overlapped>>
  BY DEF P!Refuse
<1>2. /\ PanelTyped /\ rows \in Records /\ shown \in Records
      /\ form \in [row: Row \cup {None}, name: Name \cup {None}]
  BY DEF PanelInv, PanelTyped
<1>3. panel # "media" => \A d \in Call : d # c => overlapped \/ call[d].pc = "idle"
  BY <1>1 DEF PanelInv, Solo
<1>4. panel \notin P!Switches => shown' = shown
  BY <1>1 DEF P!Back, P!Switches
<1>5. shown' \in Records
  <2>1. CASE panel \in P!Switches
    <3>1. call[c].row \in Row /\ call[c].list \in Records
      BY <1>1, <2>1 DEF PanelInv, PanelTyped
    <3>2. QED
      BY <1>1, <1>2, <2>1, <3>1 DEF P!Back, Records
  <2>2. QED
    BY <1>2, <1>4, <2>1
<1>6. Drafted'
  <2>1. CASE panel \notin P!Managers
    BY <1>1, <2>1 DEF PanelInv, Drafted, P!Draft
  <2>2. CASE panel \in P!Managers
    <3>1. panel # "media" /\ ~overlapped
      BY <2>2, Pages DEF PanelInv, Solo
    <3>2. call' = [call EXCEPT ![c] = P!Quiet]
      BY <3>1 DEF P!Refuse
    <3>3. \A d \in Call : call'[d].pc = "idle"
      BY <1>2, <1>3, <3>1, <3>2, QuietPanel
    <3>4. refused = None /\ (call[c].op = "save" => form.row = call[c].row /\ form.name # None)
      BY <1>1, <2>2 DEF PanelInv, Drafted, P!Busy
    <3>5. CASE call[c].op = "save"
      <4>1. refused' = [row |-> form.row, name |-> form.name]
        BY <1>1, <2>2, <3>4, <3>5 DEF P!Draft
      <4>2. refused' = form
        BY <1>2, <4>1
      <4>3. QED
        BY <1>1, <2>2, <3>3, <3>4, <3>5, <4>2 DEF Drafted, P!Busy
    <3>6. CASE call[c].op # "save"
      <4>1. refused' = None
        BY <1>1, <3>4, <3>6 DEF P!Draft
      <4>2. QED
        BY <1>1, <3>3, <4>1 DEF Drafted, P!Busy
    <3>7. QED
      BY <3>5, <3>6
  <2>3. QED
    BY <2>1, <2>2
<1>7. CASE call' = [call EXCEPT ![c] = P!Quiet]
  <2>1. /\ call' \in [Call -> PanelCall] /\ call'[c].pc = "idle"
        /\ \A d \in Call : d # c => call'[d] = call[d]
    BY <1>2, <1>7, QuietPanel
  <2>2. PanelTyped'
    BY <1>1, <1>5, <2>1 DEF PanelInv, PanelTyped, P!Answers
  <2>3. Solo'
    BY <1>1, <2>1 DEF PanelInv, Solo
  <2>4. Shows'
    <3>1. /\ \A d \in Call : call'[d].pc \in {"done", "loaded"} => call'[d] = call[d] /\ call[d].pc = call'[d].pc
          /\ \A d \in Call : call[d].pc \in {"done", "load", "loaded"} => call'[d] = call[d]
      BY <1>1, <2>1
    <3>2. (Answered => Answered') /\ (Coming => Coming')
      BY <1>1, <3>1 DEF Answered, Coming
    <3>3. QED
      BY <1>1, <1>4, <3>1, <3>2 DEF PanelInv, Shows, P!Answers
  <2>5. Switched'
    <3>1. SUFFICES ASSUME panel \in P!Switches, panel # "source", ~overlapped, ~stale, ~lost
                   PROVE  Switched'
      BY <1>1 DEF Switched
    <3>2. panel # "media"
      BY <3>1, Pages
    <3>3. \A d \in Call : call'[d].pc = "idle"
      BY <1>1, <1>3, <2>1, <3>1, <3>2
    <3>4. /\ call[c].list = rows /\ shown = [rows EXCEPT ![call[c].row] = call[c].name]
          /\ call[c].row \in Row
      BY <1>1, <3>1 DEF PanelInv, Switched, PanelTyped
    <3>5. shown' = rows
      <4>1. CASE panel = "muted"
        BY <1>1, <3>4, <4>1 DEF P!Back
      <4>2. CASE panel \in {"favorites", "preferences"}
        <5>1. shown' = [shown EXCEPT ![call[c].row] = rows[call[c].row]]
          BY <1>1, <3>4, <4>2 DEF P!Back
        <5>2. rows \in [Row -> Name \cup {None}]
          BY <1>2 DEF Records
        <5>3. QED
          BY <3>4, <5>1, <5>2
      <4>3. QED
        BY <3>1, <4>1, <4>2 DEF P!Switches
    <3>6. QED
      BY <1>1, <3>3, <3>5 DEF Switched
  <2>6. QED
    BY <1>6, <2>2, <2>3, <2>4, <2>5 DEF PanelInv
<1>8. CASE panel = "media" /\ call' = P!Loading(c)
  <2>1. /\ call' \in [Call -> PanelCall] /\ call'[c].pc = "load"
        /\ \A d \in Call : d # c =>
             \/ call'[d] = call[d] /\ (panel = "media" => call'[d].pc \notin {"load", "loaded"})
             \/ panel = "media" /\ call'[d].pc = "idle"
    BY <1>2, <1>8, LoadingPanel
  <2>2. panel \notin P!Switches /\ ~P!Answers(call[c]) /\ \A d \in Call : ~P!Answers(call'[d])
    BY <1>8, Pages DEF P!Answers
  <2>3. PanelTyped'
    BY <1>1, <1>5, <2>1, <2>2, <1>8 DEF PanelInv, PanelTyped, P!Answers
  <2>4. Solo'
    BY <1>1, <2>1 DEF PanelInv, Solo
  <2>5. Shows'
    <3>1. Coming'
      BY <2>1 DEF Coming
    <3>2. \A d \in Call : call'[d].pc # "loaded"
      BY <1>8, <2>1
    <3>3. QED
      BY <1>1, <1>8, <3>1, <3>2 DEF Shows, P!Answers
  <2>6. Switched'
    BY <1>1, <2>2 DEF Switched
  <2>7. QED
    BY <1>6, <2>3, <2>4, <2>5, <2>6 DEF PanelInv
<1>9. QED
  BY <1>7, <1>8 DEF P!Refuse

\* A list that is loaded is neither a switch nor an answer of its own.
LEMMA LoadPanel ==
  ASSUME PanelInv, NEW c \in Call, P!ReadList(c) \/ P!ShowList(c) \/ P!FailList(c)
  PROVE  PanelInv'
<1>1. call[c].pc \in {"load", "loaded"} /\ UNCHANGED <<panel, rows, form, refused, overlapped>>
  BY DEF P!ReadList, P!ShowList, P!FailList, P!history
<1>2. panel \notin P!Switches /\ PanelTyped /\ call \in [Call -> PanelCall] /\ rows \in Records /\ shown \in Records
  BY <1>1 DEF PanelInv, PanelTyped
<1>3. Switched'
  BY <1>1, <1>2 DEF Switched
<1>4. ~overlapped => \A d \in Call : d = c \/ call[d].pc = "idle" \/ (panel = "media" /\ call[d].pc \notin {"load", "loaded"})
  BY <1>1 DEF PanelInv, Solo
<1>5. CASE P!ReadList(c)
  <2>1. call' = [call EXCEPT ![c].pc = "loaded", ![c].list = rows] /\ shown' = shown
    BY <1>5 DEF P!ReadList
  <2>2. /\ call' \in [Call -> PanelCall] /\ \A d \in Call : d # c => call'[d] = call[d]
        /\ call'[c].pc = "loaded" /\ call'[c].op = call[c].op /\ call'[c].row = call[c].row
        /\ call'[c].name = call[c].name /\ call'[c].list = rows
    BY <1>2, <2>1 DEF PanelCall
  <2>3. PanelTyped'
    BY <1>1, <1>2, <2>1, <2>2 DEF PanelInv, PanelTyped, P!Answers
  <2>4. Solo'
    BY <1>1, <2>2 DEF PanelInv, Solo
  <2>5. Shows'
    <3>1. Coming'
      BY <1>1, <2>2 DEF Coming
    <3>2. ~overlapped => \A d \in Call : call'[d].pc = "loaded" => call'[d].list = rows'
      BY <1>1, <1>4, <2>2
    <3>3. ~overlapped => \A d \in Call : call'[d].pc = "done" => panel = "media"
      BY <1>4, <2>2
    <3>4. QED
      BY <1>1, <3>1, <3>2, <3>3 DEF Shows, P!Answers
  <2>6. Drafted'
    BY <1>1, <2>2 DEF PanelInv, Drafted, P!Busy
  <2>7. QED
    BY <1>3, <2>3, <2>4, <2>5, <2>6 DEF PanelInv
<1>6. CASE P!ShowList(c) \/ P!FailList(c)
  <2>1. call' = [call EXCEPT ![c] = P!Quiet]
    BY <1>6 DEF P!ShowList, P!FailList
  <2>2. /\ call' \in [Call -> PanelCall] /\ call'[c].pc = "idle"
        /\ \A d \in Call : d # c => call'[d] = call[d]
    BY <1>2, <2>1, QuietPanel
  <2>3. shown' \in Records
    <3>1. CASE P!ShowList(c)
      BY <3>1 DEF PanelInv, PanelTyped, P!ShowList
    <3>2. CASE P!FailList(c)
      <4>1. P!Nothing \in Records
        BY DEF P!Nothing, Records
      <4>2. QED
        BY <1>2, <3>2, <4>1 DEF P!FailList
    <3>3. QED
      BY <1>6, <3>1, <3>2
  <2>4. PanelTyped'
    BY <1>1, <2>2, <2>3 DEF PanelInv, PanelTyped, P!Answers
  <2>5. Solo'
    BY <1>1, <2>2 DEF PanelInv, Solo
  <2>6. Drafted'
    BY <1>1, <2>2 DEF PanelInv, Drafted, P!Busy
  <2>7. Shows'
    <3>1. stale' = stale /\ \A d \in Call : call'[d].pc = "done" => call'[d] = call[d]
      BY <1>6, <2>2 DEF P!ShowList, P!FailList, P!history
    <3>2. ~overlapped' /\ ~stale' => \A d \in Call : call'[d].pc = "done" /\ P!Answers(call[d])' => call'[d].list = rows'
      BY <1>1, <3>1 DEF PanelInv, Shows, P!Answers
    <3>3. CASE P!FailList(c)
      <4>1. lost' = TRUE
        BY <3>3 DEF P!FailList
      <4>2. QED
        BY <3>2, <4>1 DEF Shows
    <3>4. CASE P!ShowList(c)
      <4>1. shown' = call[c].list /\ call[c].pc = "loaded" /\ lost' = lost
        BY <3>4 DEF P!ShowList, P!history
      <4>2. Answered <=> Answered'
        BY <2>2, <4>1 DEF Answered
      <4>3. ASSUME ~overlapped, ~stale, ~lost
            PROVE  /\ shown' = rows' \/ Answered' \/ Coming'
                   /\ Answered' \/ \A d \in Call : call'[d].pc = "loaded" => call'[d].list = rows'
        <5>1. Answered \/ \A d \in Call : call[d].pc = "loaded" => call[d].list = rows
          BY <1>2, <4>3 DEF PanelInv, Shows
        <5>2. QED
          BY <1>1, <2>2, <4>1, <4>2, <5>1
      <4>4. QED
        BY <1>1, <3>1, <3>2, <4>1, <4>3 DEF Shows
    <3>5. QED
      BY <1>6, <3>3, <3>4
  <2>8. QED
    BY <1>3, <2>4, <2>5, <2>6, <2>7 DEF PanelInv
<1>7. QED
  BY <1>5, <1>6

LEMMA StepPanel ==
  ASSUME PanelInv, [P!Next]_(P!vars)
  PROVE  PanelInv'
<1>1. CASE UNCHANGED P!vars
  BY <1>1 DEF P!vars, P!history, PanelInv, PanelTyped, Solo, Shows, Switched, Drafted, Answered, Coming, P!Answers, P!Busy
<1>2. CASE P!Foreign \/ \E c \in Call : P!FrontmatterSchemasService(c) \/ P!Fail(c)
  BY <1>2, OutsidePanel, ReplyPanel DEF P!FrontmatterSchemasService
<1>3. ASSUME NEW c \in Call, P!DocumentTemplatesService(c) \/ P!DocumentSnippetsService(c) \/ P!OtherService(c)
      PROVE  PanelInv'
  BY <1>3, ReplyPanel DEF P!DocumentTemplatesService, P!DocumentSnippetsService, P!OtherService
<1>4. ASSUME NEW c \in Call, P!Succeed(c) \/ P!Refuse(c) \/ P!ReadList(c) \/ P!ShowList(c) \/ P!FailList(c)
      PROVE  PanelInv'
  BY <1>4, SucceedPanel, RefusePanel, LoadPanel
<1>5. ASSUME NEW c \in Call, P!DocumentTemplateManager(c) \/ P!DocumentSnippetManager(c) \/ P!FrontmatterSchemaManager(c)
      PROVE  PanelInv'
  <2>1. panel \in P!Managers /\ P!Manage(c)
    BY <1>5 DEF P!DocumentTemplateManager, P!DocumentSnippetManager, P!FrontmatterSchemaManager, P!Managers
  <2>2. QED
    BY <2>1, FormPanel, ManagerPanel DEF P!Manage
<1>6. ASSUME NEW c \in Call,
             \/ P!TeamPage(c) \/ P!ReviewPage(c) \/ P!MediaPage(c) \/ P!ShareDialog(c) \/ P!AccessPanel(c)
             \/ P!SetStatus(c) \/ P!Watching(c) \/ P!NotificationBell(c)
      PROVE  PanelInv'
  <2>1. /\ panel \in P!Lists
        /\ \/ P!Add(c) \/ P!Change(c) \/ P!PutAnywhere(c) \/ P!Remove(c)
           \/ panel = "bell" /\ (P!RefreshCount(c) \/ P!MarkAll(c))
    BY <1>6 DEF P!TeamPage, P!ReviewPage, P!MediaPage, P!ShareDialog, P!AccessPanel,
                P!SetStatus, P!Watching, P!NotificationBell, P!Lists
  <2>2. QED
    BY <2>1, ListPanel
<1>7. ASSUME NEW c \in Call, P!ToggleFavorite(c) \/ P!TogglePref(c) \/ P!ToggleKind(c) \/ P!ToggleSource(c)
      PROVE  PanelInv'
  <2>1. panel \in P!Switches /\ P!Toggle(c)
    BY <1>7 DEF P!ToggleFavorite, P!TogglePref, P!ToggleKind, P!ToggleSource, P!Switches
  <2>2. QED
    BY <2>1, TogglePanel
<1>8. QED
  BY <1>1, <1>2, <1>3, <1>4, <1>5, <1>6, <1>7 DEF P!Next

LEMMA PanelHolds == PanelInv => P!PanelSound
<1> SUFFICES ASSUME PanelInv PROVE P!PanelSound
  OBVIOUS
<1>1. ASSUME ~P!Busy, ~overlapped, ~lost, ~stale
      PROVE  shown = rows
  <2>1. \A c \in Call : call[c].pc = "idle"
    BY <1>1 DEF P!Busy
  <2>2. ~Answered /\ ~Coming
    BY <2>1 DEF Answered, Coming
  <2>3. QED
    BY <1>1, <2>1, <2>2 DEF PanelInv, Shows, Switched
<1>2. P!PanelCurrent
  BY <1>1 DEF PanelInv, Solo, P!PanelCurrent
<1>3. P!DraftKept
  BY DEF PanelInv, Drafted, P!DraftKept
<1>4. QED
  BY <1>2, <1>3 DEF P!PanelSound

\* Once its calls are over, a page over records of the server shows them, also when
\* calls failed or, for the media, overlapped; and a form that was refused is kept.
THEOREM PanelsSafe == FocusSpec => []PanelSound
<1> DEFINE Inv == focus = "panels" => PanelInv
<1>1. FocusInit => Inv
  BY InitPanel DEF FocusInit
<1>2. Inv /\ [FocusNext]_focusVars => Inv'
  BY FocusStays, StepPanel
<1>3. Inv => PanelSound
  BY PanelHolds DEF PanelSound
<1>4. QED
  BY <1>1, <1>2, <1>3, PTL DEF FocusSpec

-----------------------------------------------------------------------------
(* Frontmatter: numbers in ascending order, and sequences made of them. *)

LEMMA SameCount == \A S : F!Cardinality(S) = Cardinality(S)
BY DEF F!Cardinality, Cardinality

Low(S, k) == {j \in S : j <= k}

LEMMA RankGrows ==
  ASSUME NEW S \in SUBSET Nat, IsFiniteSet(S)
  PROVE  /\ \A k \in S : F!Rank(S, k) = Cardinality(Low(S, k)) /\ F!Rank(S, k) \in 1..Cardinality(S)
         /\ \A j, k \in S : j < k => F!Rank(S, j) < F!Rank(S, k)
<1>1. \A k \in S : F!Rank(S, k) = Cardinality(Low(S, k))
  BY SameCount DEF F!Rank, Low
<1>2. ASSUME NEW k \in S
      PROVE  /\ IsFiniteSet(Low(S, k)) /\ k \in Low(S, k)
             /\ Cardinality(Low(S, k)) \in 1..Cardinality(S)
  <2>1. Low(S, k) \in SUBSET S /\ k \in Low(S, k)
    BY DEF Low
  <2>2. IsFiniteSet(Low(S, k)) /\ Cardinality(Low(S, k)) <= Cardinality(S)
    BY <2>1, FS_Subset
  <2>3. Cardinality(Low(S, k)) \in Nat /\ Cardinality(S) \in Nat
    BY <2>2, FS_CardinalityType
  <2>4. Cardinality(Low(S, k)) # 0
    BY <2>1, <2>2, FS_EmptySet
  <2>5. Cardinality(Low(S, k)) \in 1..Cardinality(S)
    BY <2>2, <2>3, <2>4
  <2>6. QED
    BY <2>1, <2>2, <2>5
<1>3. ASSUME NEW j \in S, NEW k \in S, j < k
      PROVE  Cardinality(Low(S, j)) < Cardinality(Low(S, k))
  <2>1. Low(S, j) \in SUBSET Low(S, k) /\ k \notin Low(S, j) /\ k \in Low(S, k)
    <3>1. \A i \in S : i \in Nat
      OBVIOUS
    <3>2. \A i \in S : i <= j => i <= k
      BY <1>3, <3>1
    <3>3. ~ k <= j /\ k <= k
      BY <1>3, <3>1
    <3>4. QED
      BY <3>2, <3>3 DEF Low
  <2>2. Cardinality(Low(S, j)) <= Cardinality(Low(S, k)) /\ Cardinality(Low(S, j)) # Cardinality(Low(S, k))
    BY <1>2, <2>1, FS_Subset
  <2>3. QED
    BY <1>2, <2>2
<1>4. QED
  BY <1>1, <1>2, <1>3

\* s lists the numbers of S in ascending order.
Lists(s, m, S) ==
  /\ s \in [1..m -> S]
  /\ \A a, b \in 1..m : a < b => s[a] < s[b]
  /\ \A k \in S : \E a \in 1..m : s[a] = k

LEMMA AscendingLists ==
  ASSUME NEW S \in SUBSET Nat, IsFiniteSet(S)
  PROVE  Cardinality(S) \in Nat /\ Lists(F!Ascending(S), Cardinality(S), S)
<1> DEFINE m == Cardinality(S)
           r == [k \in S |-> F!Rank(S, k)]
           s == F!Ascending(S)
<1>1. m \in Nat
  BY FS_CardinalityType
<1>2. r \in Injection(S, 1..m)
  <2>1. r \in [S -> 1..m]
    BY RankGrows
  <2>2. \A j, k \in S : j # k => F!Rank(S, j) # F!Rank(S, k)
    <3>1. \A j, k \in S : j # k => j < k \/ k < j
      OBVIOUS
    <3>2. \A k \in S : F!Rank(S, k) \in Int
      BY <1>1, RankGrows
    <3>3. QED
      BY <3>1, <3>2, RankGrows
  <2>3. QED
    BY <2>1, <2>2 DEF Injection, IsInjective
<1>3. IsFiniteSet(1..m) /\ Cardinality(1..m) = m
  BY <1>1, FS_Interval
<1>4. r \in Surjection(S, 1..m)
  BY <1>2, <1>3, FS_Injection
<1>5. \A n \in 1..m : \E k \in S : F!Rank(S, k) = n
  BY <1>4 DEF Surjection
<1>6. s = [n \in 1..m |-> CHOOSE k \in S : F!Rank(S, k) = n]
  BY SameCount DEF F!Ascending
<1> HIDE DEF m, s
<1>7. \A n \in 1..m : s[n] \in S /\ F!Rank(S, s[n]) = n
  BY <1>5, <1>6
<1>8. s \in [1..m -> S]
  BY <1>6, <1>7
<1>9. ASSUME NEW a \in 1..m, NEW b \in 1..m, a < b
      PROVE  s[a] < s[b]
  <2>1. s[a] \in S /\ s[b] \in S /\ s[a] \in Nat /\ s[b] \in Nat /\ a \in Nat /\ b \in Nat
    <3>1. \A i \in S : i \in Nat
      OBVIOUS
    <3>2. \A n \in 1..m : s[n] \in S
      BY <1>7
    <3>3. \A n \in 1..m : n \in Nat
      BY <1>1
    <3>4. QED
      BY <3>1, <3>2, <3>3
  <2>2. s[b] < s[a] => b < a
    BY <1>7, RankGrows
  <2>3. a # b
    BY <1>9, <2>1
  <2>4. s[a] # s[b]
    BY <1>7, <2>3
  <2>5. QED
    BY <1>9, <2>1, <2>2, <2>4
<1>10. ASSUME NEW k \in S
       PROVE  \E a \in 1..m : s[a] = k
  <2>1. F!Rank(S, k) \in 1..m
    BY RankGrows DEF m
  <2>2. s[F!Rank(S, k)] \in S /\ F!Rank(S, s[F!Rank(S, k)]) = F!Rank(S, k)
    BY <1>7, <2>1
  <2>3. s[F!Rank(S, k)] = k
    BY <1>2, <2>2 DEF Injection, IsInjective
  <2>4. QED
    BY <2>1, <2>3
<1>11. Lists(s, m, S)
  BY <1>8, <1>9, <1>10 DEF Lists
<1>12. QED
  BY <1>1, <1>11 DEF m, s

\* There is one such list.
LEMMA ListsUnique ==
  ASSUME NEW S \in SUBSET Nat, NEW m \in Nat, NEW s, Lists(s, m, S)
  PROVE  IsFiniteSet(S) /\ Cardinality(S) = m /\ F!Ascending(S) = s
<1>1. \A k \in 0..m : IsFiniteSet(1..k) /\ Cardinality(1..k) = k
  BY FS_Interval
<1>a. s \in [1..m -> S] /\ \A a, b \in 1..m : a < b => s[a] < s[b]
  BY DEF Lists
<1>b. \A a \in 1..m : a \in Nat /\ s[a] \in S /\ s[a] \in Nat
  <2>1. \A i \in S : i \in Nat
    OBVIOUS
  <2>2. \A a \in 1..m : s[a] \in S
    BY <1>a
  <2>3. \A a \in 1..m : a \in Nat
    OBVIOUS
  <2>4. QED
    BY <2>1, <2>2, <2>3
<1>c. \A k \in 0..m : \A a \in 1..k : a \in 1..m
  OBVIOUS
<1>2. ASSUME NEW k \in 0..m, NEW T, T = {s[a] : a \in 1..k}
      PROVE  IsFiniteSet(T) /\ Cardinality(T) = k
  <2> DEFINE f == [a \in 1..k |-> s[a]]
  <2>1. \A a, b \in 1..k : a # b => s[a] # s[b]
    <3>1. \A a, b \in 1..m : a # b => a < b \/ b < a
      BY <1>b
    <3>2. \A a, b \in 1..m : a # b => s[a] # s[b]
      BY <1>a, <1>b, <3>1
    <3>3. QED
      BY <1>c, <3>2
  <2>2. f \in Surjection(1..k, T) /\ f \in Injection(1..k, T)
    BY <1>2, <2>1 DEF Surjection, Injection, IsInjective
  <2>3. QED
    BY <1>1, <2>2, FS_Surjection
<1>3. S = {s[a] : a \in 1..m}
  BY DEF Lists
<1>4. IsFiniteSet(S) /\ Cardinality(S) = m
  BY <1>2, <1>3
<1>5. ASSUME NEW k \in 1..m
      PROVE  s[k] \in S /\ F!Rank(S, s[k]) = k
  <2>1. Low(S, s[k]) = {s[a] : a \in 1..k}
    <3>1. \A a \in 1..m : a < k \/ a = k \/ k < a
      BY <1>b
    <3>2. \A a \in 1..m : s[a] <= s[k] => a <= k
      BY <1>a, <1>b, <3>1
    <3>3. \A a \in 1..m : a <= k => s[a] <= s[k]
      BY <1>a, <1>b, <3>1
    <3>4. \A a : a \in 1..k <=> a \in 1..m /\ a <= k
      BY <1>b
    <3>5. QED
      BY <1>3, <3>2, <3>3, <3>4 DEF Low
  <2>2. Cardinality(Low(S, s[k])) = k
    BY <1>2, <2>1
  <2>3. s[k] \in S
    BY DEF Lists
  <2>4. QED
    BY <1>4, <2>2, <2>3, RankGrows
<1>6. ASSUME NEW k \in 1..m
      PROVE  (CHOOSE j \in S : F!Rank(S, j) = k) = s[k]
  <2>1. \A j \in S : F!Rank(S, j) = k => j = s[k]
    <3> TAKE j \in S
    <3>1. PICK a \in 1..m : j = s[a]
      BY <1>3
    <3>2. QED
      BY <1>5, <3>1
  <2>2. QED
    BY <1>5, <2>1
<1>7. F!Ascending(S) = [n \in 1..m |-> CHOOSE j \in S : F!Rank(S, j) = n]
  BY <1>4, SameCount DEF F!Ascending
<1>8. F!Ascending(S) = [n \in 1..m |-> s[n]]
  BY <1>6, <1>7
<1>9. s = [n \in 1..m |-> s[n]]
  BY DEF Lists
<1>10. QED
  BY <1>4, <1>8, <1>9

-----------------------------------------------------------------------------
(* Frontmatter: the greatest of some positions, and concatenations. *)

LEMMA GreatestPosition ==
  ASSUME NEW n \in Nat, NEW s \in SUBSET (0..n), s # {}
  PROVE  F!Max(s) \in s /\ \A j \in s : j <= F!Max(s)
<1> DEFINE gap == {n - i : i \in s}
<1>1. \A i \in s : i \in Nat /\ n - i \in Nat
  OBVIOUS
<1>2. gap \in SUBSET Nat /\ gap # {}
  BY <1>1
<1>3. PICK d \in gap : \A m \in gap : d <= m
  BY <1>2, LeastNumber
<1>4. PICK i \in s : d = n - i
  BY <1>3
<1>5. ASSUME NEW j \in s PROVE i >= j
  <2>1. n - i <= n - j
    BY <1>3, <1>4
  <2>2. QED
    BY <1>1, <2>1
<1>6. F!Max(s) \in s /\ \A j \in s : F!Max(s) >= j
  BY <1>5 DEF F!Max
<1>7. QED
  BY <1>1, <1>6

\* FlattenSeq is a recursive function on the numbers of its sequences.
Joining(s, n, g) == g = [i \in 1..n |-> IF i = 1 THEN s[i] ELSE g[i - 1] \o s[i]]
Join(s) == CHOOSE g : Joining(s, Len(s), g)

LEMMA FlattenIsJoin == \A s : F!FlattenSeq(s) = IF Len(s) = 0 THEN s ELSE Join(s)[Len(s)]
BY DEF F!FlattenSeq, Join, Joining

LEMMA JoinExists ==
  ASSUME NEW s, NEW n \in Nat \ {0}
  PROVE  \E g : Joining(s, n, g)
<1> DEFINE Bad == {k \in Nat \ {0} : ~ \E g : Joining(s, k, g)}
<1> SUFFICES ASSUME Bad # {} PROVE FALSE
  OBVIOUS
<1>1. PICK k \in Bad : \A m \in Bad : k <= m
  <2>1. Bad \in SUBSET Nat
    OBVIOUS
  <2> HIDE DEF Bad
  <2>2. QED
    BY <2>1, LeastNumber
<1>2. CASE k = 1
  <2>1. Joining(s, 1, [i \in 1..1 |-> s[i]])
    <3>1. \A i \in 1..1 : i = 1
      OBVIOUS
    <3>2. QED
      BY <3>1 DEF Joining
  <2>2. QED
    BY <1>1, <1>2, <2>1
<1>3. CASE k # 1
  <2>1. k \in Nat /\ k - 1 \in Nat \ {0}
    BY <1>1, <1>3
  <2>2. PICK g : Joining(s, k - 1, g)
    BY <1>1, <2>1
  <2> DEFINE h == [i \in 1..k |-> IF i = k THEN g[k - 1] \o s[k] ELSE g[i]]
  <2>3. \A i \in 1..k : h[i] = IF i = k THEN g[k - 1] \o s[k] ELSE g[i]
    OBVIOUS
  <2>4. \A i \in 1..(k - 1) : g[i] = IF i = 1 THEN s[i] ELSE g[i - 1] \o s[i]
    BY <2>2 DEF Joining
  <2>5. \A i \in 1..k : i # k => i \in 1..(k - 1)
    BY <2>1
  <2>6. \A i \in 1..k : i # 1 => i - 1 \in 1..k /\ i - 1 # k
    BY <2>1
  <2>7. h = [i \in 1..k |-> h[i]]
    OBVIOUS
  <2> HIDE DEF h
  <2>8. ASSUME NEW i \in 1..k
        PROVE  h[i] = IF i = 1 THEN s[i] ELSE h[i - 1] \o s[i]
    <3>1. CASE i = k
      BY <1>3, <2>1, <2>3, <2>6, <3>1
    <3>2. CASE i # k /\ i = 1
      BY <2>3, <2>4, <2>5, <3>2
    <3>3. CASE i # k /\ i # 1
      BY <2>3, <2>4, <2>5, <2>6, <3>3
    <3>4. QED
      BY <3>1, <3>2, <3>3
  <2>9. Joining(s, k, h)
    BY <2>7, <2>8 DEF Joining
  <2>10. QED
    BY <1>1, <2>9
<1>4. QED
  BY <1>2, <1>3

LEMMA JoinJoins ==
  ASSUME NEW s, Len(s) \in Nat \ {0}
  PROVE  \A i \in 1..Len(s) : Join(s)[i] = IF i = 1 THEN s[i] ELSE Join(s)[i - 1] \o s[i]
<1>1. Joining(s, Len(s), Join(s))
  BY JoinExists DEF Join
<1>2. QED
  BY <1>1 DEF Joining

LEMMA FlattenType ==
  ASSUME NEW T, NEW s \in Seq(Seq(T))
  PROVE  F!FlattenSeq(s) \in Seq(T)
<1>1. Len(s) \in Nat /\ s \in [1..Len(s) -> Seq(T)]
  OBVIOUS
<1>2. CASE Len(s) = 0
  <2>1. s = <<>>
    BY <1>2, EmptySeq
  <2>2. F!FlattenSeq(s) = <<>>
    BY <1>2, <2>1, FlattenIsJoin
  <2>3. <<>> \in Seq(T)
    OBVIOUS
  <2>4. QED
    BY <2>2, <2>3
<1>3. CASE Len(s) # 0
  <2> DEFINE Bad == {k \in 1..Len(s) : Join(s)[k] \notin Seq(T)}
  <2>1. ASSUME Bad # {} PROVE FALSE
    <3>1. Bad \in SUBSET Nat
      OBVIOUS
    <3>2. PICK k \in Bad : \A m \in Bad : k <= m
      <4> HIDE DEF Bad
      <4>1. QED
        BY <2>1, <3>1, LeastNumber
    <3>3. k \in 1..Len(s) /\ s[k] \in Seq(T)
      BY <1>1, <3>2
    <3>4. Join(s)[k] = IF k = 1 THEN s[k] ELSE Join(s)[k - 1] \o s[k]
      BY <1>1, <1>3, <3>3, JoinJoins
    <3>5. CASE k = 1
      BY <3>2, <3>3, <3>4, <3>5
    <3>6. CASE k # 1
      <4>1. k - 1 \in 1..Len(s) /\ ~ k <= k - 1
        BY <1>1, <3>3, <3>6
      <4>2. Join(s)[k - 1] \in Seq(T)
        BY <3>2, <4>1
      <4>3. Join(s)[k - 1] \o s[k] \in Seq(T)
        BY <3>3, <4>2
      <4>4. QED
        BY <3>2, <3>4, <3>6, <4>3
    <3>7. QED
      BY <3>5, <3>6
  <2>2. Len(s) \in 1..Len(s)
    BY <1>1, <1>3
  <2>3. QED
    BY <1>3, <2>1, <2>2, FlattenIsJoin
<1>4. QED
  BY <1>2, <1>3

\* One sequence, and the sequence of the one-element sequences, are put together again.
LEMMA FlattenOne ==
  ASSUME NEW v
  PROVE  F!FlattenSeq(<<v>>) = v
<1> DEFINE s == <<v>>
<1>1. Len(s) = 1 /\ s[1] = v
  OBVIOUS
<1> HIDE DEF s
<1>2. Join(s)[1] = v
  BY <1>1, JoinJoins
<1>3. F!FlattenSeq(s) = v
  <2>1. F!FlattenSeq(s) = IF Len(s) = 0 THEN s ELSE Join(s)[Len(s)]
    BY FlattenIsJoin
  <2>2. Len(s) # 0 /\ Join(s)[Len(s)] = v
    BY <1>1, <1>2
  <2>3. QED
    BY <2>1, <2>2
<1>4. QED
  BY <1>3 DEF s

LEMMA FlattenSingles ==
  ASSUME NEW T, NEW v \in Seq(T)
  PROVE  F!FlattenSeq([i \in DOMAIN v |-> <<v[i]>>]) = v
<1> DEFINE s == [i \in DOMAIN v |-> <<v[i]>>]
           n == Len(v)
<1>1. n \in Nat /\ DOMAIN v = 1..n /\ v \in [1..n -> T]
  OBVIOUS
<1>2. s \in Seq(Seq(T)) /\ Len(s) = n /\ \A i \in 1..n : s[i] = <<v[i]>>
  BY <1>1
<1>3. CASE n = 0
  <2>1. s = <<>> /\ v = <<>>
    BY <1>2, <1>3, EmptySeq
  <2>2. F!FlattenSeq(s) = s
    BY <1>2, <1>3, FlattenIsJoin
  <2>3. QED
    BY <2>1, <2>2
<1>4. CASE n # 0
  <2> DEFINE Bad == {k \in 1..n : Join(s)[k] # SubSeq(v, 1, k)}
  <2> HIDE DEF s
  <2>1. ASSUME Bad # {} PROVE FALSE
    <3>1. Bad \in SUBSET Nat
      OBVIOUS
    <3>2. PICK k \in Bad : \A m \in Bad : k <= m
      <4> HIDE DEF Bad
      <4>1. QED
        BY <2>1, <3>1, LeastNumber
    <3>3. k \in 1..n /\ s[k] = <<v[k]>>
      BY <1>2, <3>2
    <3>4. Join(s)[k] = IF k = 1 THEN s[k] ELSE Join(s)[k - 1] \o s[k]
      BY <1>1, <1>2, <1>4, <3>3, JoinJoins
    <3>5. SubSeq(v, 1, k) = SubSeq(v, 1, k - 1) \o <<v[k]>>
      <4>1. 1 \in 1..Len(v) /\ k \in 1..Len(v)
        BY <1>1, <3>3
      <4>2. QED
        BY ONLY v \in Seq(T), <4>1, SubSeqRecursiveSecond
    <3>6. CASE k = 1
      <4>1. SubSeq(v, 1, k - 1) = <<>>
        BY <3>6
      <4>2. <<v[k]>> \in Seq(T)
        BY <1>1, <3>3
      <4>3. SubSeq(v, 1, k) = <<v[k]>>
        BY <3>5, <4>1, <4>2, ConcatEmptySeq
      <4>4. QED
        BY <3>2, <3>3, <3>4, <3>6, <4>3
    <3>7. CASE k # 1
      <4>1. k - 1 \in 1..n /\ ~ k <= k - 1
        BY <1>1, <3>3, <3>7
      <4>2. Join(s)[k - 1] = SubSeq(v, 1, k - 1)
        BY <3>2, <4>1
      <4>3. QED
        BY <3>2, <3>3, <3>4, <3>5, <3>7, <4>2
    <3>8. QED
      BY <3>6, <3>7
  <2>2. n \in 1..n
    BY <1>1, <1>4
  <2>3. Join(s)[n] = SubSeq(v, 1, n)
    BY <2>1, <2>2
  <2>4. SubSeq(v, 1, n) = v
    BY SubSeqFull
  <2>5. F!FlattenSeq(s) = v
    BY <1>1, <1>2, <1>4, <2>3, <2>4, FlattenIsJoin
  <2>6. QED
    BY <2>5 DEF s
<1>5. QED
  BY <1>3, <1>4

-----------------------------------------------------------------------------
(* Frontmatter: lines, their owners and the values they are read as. *)

OwnerIs(lines, i, o) ==
  \/ o = None /\ \A j \in 1..i : lines[j].key = None
  \/ \E j \in 1..i : /\ lines[j].key # None /\ o = lines[j].key
                     /\ \A k \in 1..i : j < k => lines[k].key = None

\* The owner of a line is the key of the last entry up to it, and there is one owner.
LEMMA OwnerFound ==
  ASSUME NEW lines, NEW i \in Nat
  PROVE  OwnerIs(lines, i, F!OwnerOf(lines, i))
<1> DEFINE heads == {j \in 1..i : lines[j].key # None}
<1>1. CASE heads = {}
  <2>1. F!OwnerOf(lines, i) = None
    BY <1>1 DEF F!OwnerOf
  <2>2. QED
    BY <1>1, <2>1 DEF OwnerIs
<1>2. CASE heads # {}
  <2> DEFINE j == F!Max(heads)
  <2>1. F!OwnerOf(lines, i) = lines[j].key
    BY <1>2 DEF F!OwnerOf
  <2>2. heads \in SUBSET (0..i)
    OBVIOUS
  <2>3. j \in heads /\ \A k \in heads : k <= j
    <3> HIDE DEF heads
    <3>1. QED
      BY <1>2, <2>2, GreatestPosition
  <2>4. j \in 1..i /\ lines[j].key # None
    BY <2>3
  <2>5. \A k \in 1..i : j < k => lines[k].key = None
    <3>1. \A k \in 1..i : k \in Int /\ j \in Int
      BY <2>4
    <3>2. \A k \in 1..i : lines[k].key # None => k <= j
      BY <2>3
    <3> HIDE DEF j
    <3>3. QED
      BY <3>1, <3>2
  <2> HIDE DEF j
  <2>6. QED
    BY <2>1, <2>4, <2>5 DEF OwnerIs
<1>3. QED
  BY <1>1, <1>2

LEMMA OneOwner ==
  ASSUME NEW lines, NEW i \in Nat, NEW o, OwnerIs(lines, i, o)
  PROVE  F!OwnerOf(lines, i) = o
<1> DEFINE p == F!OwnerOf(lines, i)
<1>1. OwnerIs(lines, i, p)
  BY OwnerFound
<1> HIDE DEF p
<1>2. CASE \A j \in 1..i : lines[j].key = None
  BY <1>1, <1>2 DEF OwnerIs, p
<1>3. CASE ~ \A j \in 1..i : lines[j].key = None
  <2>1. PICK j \in 1..i : /\ lines[j].key # None /\ o = lines[j].key
                          /\ \A k \in 1..i : j < k => lines[k].key = None
    BY <1>3 DEF OwnerIs
  <2>2. PICK h \in 1..i : /\ lines[h].key # None /\ p = lines[h].key
                          /\ \A k \in 1..i : h < k => lines[k].key = None
    BY <1>1, <1>3 DEF OwnerIs
  <2>3. ~ j < h /\ ~ h < j
    BY <2>1, <2>2
  <2>4. j = h
    BY <2>3
  <2>5. QED
    BY <2>1, <2>2, <2>4 DEF p
<1>4. QED
  BY <1>2, <1>3

\* A line is the owner of itself when it is an entry.
LEMMA OwnEntry ==
  ASSUME NEW lines, NEW i \in Nat \ {0}, lines[i].key # None
  PROVE  F!OwnerOf(lines, i) = lines[i].key
<1>1. i \in 1..i /\ \A k \in 1..i : ~ i < k
  OBVIOUS
<1>2. OwnerIs(lines, i, lines[i].key)
  BY <1>1 DEF OwnerIs
<1>3. QED
  BY <1>2, OneOwner

\* What is written for a field reads as the value it was written for.
LEMMA Serialized ==
  ASSUME NEW T, NEW field \in F!Field, NEW v \in Seq(T)
  PROVE  /\ F!SerializeValue(field, v) \in F!LineOf(T)
         /\ F!SerializeValue(field, v).key = field.key
         /\ F!DecodeValue(field, F!SerializeValue(field, v)) = v
<1> DEFINE one == <<v>>
           singles == [i \in DOMAIN v |-> <<v[i]>>]
<1>1. field.key \in Key /\ field.type \in {"text", "list", "choice"}
  BY DEF F!Field
<1>2. one \in Seq(Seq(T)) /\ F!FlattenSeq(one) = v
  BY FlattenOne
<1>3. singles \in Seq(Seq(T)) /\ F!FlattenSeq(singles) = v
  <2>1. \A i \in DOMAIN v : <<v[i]>> \in Seq(T)
    OBVIOUS
  <2>2. DOMAIN v = 1..Len(v) /\ Len(v) \in Nat
    OBVIOUS
  <2>3. singles \in Seq(Seq(T))
    BY <2>1, <2>2
  <2>4. QED
    BY <2>3, FlattenSingles
<1> HIDE DEF one, singles
<1>4. CASE field.type = "list"
  <2>1. F!SerializeValue(field, v) = [key |-> field.key, style |-> "list", items |-> singles]
    BY <1>4 DEF F!SerializeValue, F!Line, singles
  <2>2. F!DecodeValue(field, F!SerializeValue(field, v)) = v
    BY <1>3, <1>4, <2>1 DEF F!DecodeValue, F!SplitInlineList
  <2>3. QED
    BY <1>1, <1>3, <2>1, <2>2 DEF F!LineOf
<1>5. ASSUME NEW style \in {"quoted", "plain"}, field.type # "list",
             F!SerializeValue(field, v) = [key |-> field.key, style |-> style, items |-> one]
      PROVE  /\ F!SerializeValue(field, v) \in F!LineOf(T)
             /\ F!SerializeValue(field, v).key = field.key
             /\ F!DecodeValue(field, F!SerializeValue(field, v)) = v
  <2>1. F!DecodeValue(field, F!SerializeValue(field, v)) = v
    BY <1>2, <1>5 DEF F!DecodeValue
  <2>2. QED
    BY <1>1, <1>2, <1>5, <2>1 DEF F!LineOf
<1>6. CASE field.type = "choice"
  BY <1>5, <1>6 DEF F!SerializeValue, F!Line, one
<1>7. CASE field.type = "text"
  BY <1>5, <1>7 DEF F!SerializeValue, F!Line, one
<1>8. QED
  BY <1>1, <1>4, <1>6, <1>7

\* Whatever a line holds, it reads as a sequence.
LEMMA DecodedType ==
  ASSUME NEW T, NEW field \in F!Field, NEW line \in F!LineOf(T)
  PROVE  F!DecodeValue(field, line) \in Seq(T \cup ({"quoted", "bracket"} \X T))
<1> DEFINE W == T \cup ({"quoted", "bracket"} \X T)
           flat == F!FlattenSeq(line.items)
<1>1. flat \in Seq(T)
  BY FlattenType DEF F!LineOf
<1>2. flat \in Seq(W) /\ Len(flat) \in Nat /\ DOMAIN flat = 1..Len(flat) /\ \A i \in DOMAIN flat : flat[i] \in T
  BY <1>1
<1>3. ASSUME NEW mark \in {"quoted", "bracket"}
      PROVE  F!Marked(mark, flat) \in Seq(W)
  <2>1. \A i \in DOMAIN flat : <<mark, flat[i]>> \in W
    BY <1>2
  <2>2. F!Marked(mark, flat) = [i \in 1..Len(flat) |-> <<mark, flat[i]>>]
    BY <1>2 DEF F!Marked
  <2> HIDE DEF W, flat
  <2>3. QED
    BY <1>2, <2>1, <2>2
<1>4. F!DecodeValue(field, line) \in {flat, F!Marked("quoted", flat), F!Marked("bracket", flat)}
  BY DEF F!DecodeValue, F!SplitInlineList
<1> HIDE DEF W, flat
<1>5. QED
  BY <1>2, <1>3, <1>4 DEF W

-----------------------------------------------------------------------------
(* Frontmatter: a schema applied. *)

Applying(T, schema, values, lines) ==
  /\ None \notin Key
  /\ schema \in Seq(F!Field) /\ F!WellFormed(schema)
  /\ values \in [DOMAIN schema -> Seq(T)]
  /\ lines \in Seq(F!LineOf(T))

\* A managed key is the key of one field, and is replaced by a line that reads as its value.
LEMMA Replaced ==
  ASSUME NEW T, NEW schema, NEW values, NEW lines, Applying(T, schema, values, lines),
         NEW f \in DOMAIN schema
  PROVE  /\ schema[f] \in F!Field /\ schema[f].key \in F!Managed(schema) /\ values[f] \in Seq(T)
         /\ F!Replacement(schema, values, schema[f].key) = F!SerializeValue(schema[f], values[f])
         /\ F!Replacement(schema, values, schema[f].key) \in F!LineOf(T)
         /\ F!Replacement(schema, values, schema[f].key).key = schema[f].key
         /\ F!DecodeValue(schema[f], F!Replacement(schema, values, schema[f].key)) = values[f]
<1>1. schema[f] \in F!Field /\ values[f] \in Seq(T)
  BY DEF Applying
<1>2. schema[f].key \in F!Managed(schema)
  BY DEF F!Managed
<1>3. \A j \in DOMAIN schema : schema[j].key = schema[f].key => j = f
  BY DEF Applying, F!WellFormed
<1>4. (CHOOSE j \in DOMAIN schema : schema[j].key = schema[f].key) = f
  BY <1>3
<1>5. F!Replacement(schema, values, schema[f].key) = F!SerializeValue(schema[f], values[f])
  BY <1>4 DEF F!Replacement
<1>6. QED
  BY <1>1, <1>2, <1>5, Serialized

LEMMA ReplacedKey ==
  ASSUME NEW T, NEW schema, NEW values, NEW lines, Applying(T, schema, values, lines),
         NEW key \in F!Managed(schema)
  PROVE  /\ key \in Key /\ key # None
         /\ F!Replacement(schema, values, key) \in F!LineOf(T)
         /\ F!Replacement(schema, values, key).key = key
<1>1. PICK f \in DOMAIN schema : key = schema[f].key
  BY DEF F!Managed
<1>2. schema[f] \in F!Field /\ F!Replacement(schema, values, key) \in F!LineOf(T)
      /\ F!Replacement(schema, values, key).key = key
  BY <1>1, Replaced
<1>3. schema[f].key \in Key /\ None \notin Key
  BY <1>2 DEF Applying, F!Field
<1>4. QED
  BY <1>1, <1>2, <1>3

\* The lines that Updated keeps, and what becomes of one.
Staying(schema, lines) ==
  {i \in DOMAIN lines : lines[i].key \in F!Managed(schema) \/ F!OwnerOf(lines, i) \notin F!Managed(schema)}
Renewed(schema, values, line) ==
  IF line.key \in F!Managed(schema) THEN F!Replacement(schema, values, line.key) ELSE line
Fresh(schema, lines) == {i \in DOMAIN schema : schema[i].key \notin F!KeysOf(lines)}

LEMMA UpdatedIs ==
  \A schema, values, lines :
    F!Updated(schema, values, lines)
      = [n \in DOMAIN F!Ascending(Staying(schema, lines)) |->
           Renewed(schema, values, lines[F!Ascending(Staying(schema, lines))[n]])]
BY DEF F!Updated, Staying, Renewed

LEMMA AddedIs ==
  \A schema, values, lines :
    F!Added(schema, values, lines)
      = [n \in DOMAIN F!Ascending(Fresh(schema, lines)) |->
           F!SerializeValue(schema[F!Ascending(Fresh(schema, lines))[n]], values[F!Ascending(Fresh(schema, lines))[n]])]
BY DEF F!Added, Fresh

LEMMA RenewedLine ==
  ASSUME NEW T, NEW schema, NEW values, NEW lines, Applying(T, schema, values, lines),
         NEW line \in F!LineOf(T)
  PROVE  /\ Renewed(schema, values, line) \in F!LineOf(T)
         /\ Renewed(schema, values, line).key = line.key
         /\ line.key \notin F!Managed(schema) => Renewed(schema, values, line) = line
BY ReplacedKey DEF Renewed

\* The positions of a list, and the list of a set of positions.
LEMMA Positions ==
  ASSUME NEW n \in Nat, NEW S \in SUBSET (1..n)
  PROVE  /\ IsFiniteSet(S) /\ Cardinality(S) \in Nat
         /\ Lists(F!Ascending(S), Cardinality(S), S)
         /\ DOMAIN F!Ascending(S) = 1..Cardinality(S)
<1>1. IsFiniteSet(1..n)
  BY FS_Interval
<1>2. IsFiniteSet(S)
  BY <1>1, FS_Subset
<1>3. S \in SUBSET Nat
  OBVIOUS
<1>4. Cardinality(S) \in Nat /\ Lists(F!Ascending(S), Cardinality(S), S)
  BY <1>2, <1>3, AscendingLists
<1>5. QED
  BY <1>2, <1>4 DEF Lists

\* The parts of the lines a schema leaves: m of the lines there were, at a, and
\* h new ones, of the schema at e.
Parts(T, schema, values, lines, a, m, e, h) ==
  LET after == F!Applied(schema, values, lines) IN
  /\ m \in Nat /\ Lists(a, m, Staying(schema, lines))
  /\ h \in Nat /\ Lists(e, h, Fresh(schema, lines))
  /\ after \in Seq(F!LineOf(T)) /\ Len(after) = m + h
  /\ \A n \in 1..m : a[n] \in DOMAIN lines /\ after[n] = Renewed(schema, values, lines[a[n]])
                     /\ after[n].key = lines[a[n]].key
  /\ \A n \in 1..h : e[n] \in DOMAIN schema /\ after[m + n] = F!SerializeValue(schema[e[n]], values[e[n]])
                     /\ after[m + n].key = schema[e[n]].key

LEMMA AppliedParts ==
  ASSUME NEW T, NEW schema, NEW values, NEW lines, Applying(T, schema, values, lines)
  PROVE  \E a, m, e, h : Parts(T, schema, values, lines, a, m, e, h)
<1> DEFINE kept == Staying(schema, lines)
           fresh == Fresh(schema, lines)
           a == F!Ascending(kept)
           e == F!Ascending(fresh)
           m == Cardinality(kept)
           h == Cardinality(fresh)
           u == F!Updated(schema, values, lines)
           d == F!Added(schema, values, lines)
<1>1. /\ Len(lines) \in Nat /\ DOMAIN lines = 1..Len(lines) /\ \A i \in DOMAIN lines : lines[i] \in F!LineOf(T)
      /\ Len(schema) \in Nat /\ DOMAIN schema = 1..Len(schema)
  BY DEF Applying
<1>2. kept \in SUBSET (1..Len(lines)) /\ fresh \in SUBSET (1..Len(schema))
  BY <1>1 DEF Staying, Fresh
<1>3. m \in Nat /\ Lists(a, m, kept) /\ DOMAIN a = 1..m
  BY <1>1, <1>2, Positions
<1>4. h \in Nat /\ Lists(e, h, fresh) /\ DOMAIN e = 1..h
  BY <1>1, <1>2, Positions
<1>5. u = [n \in 1..m |-> Renewed(schema, values, lines[a[n]])]
  BY <1>3, UpdatedIs
<1>6. d = [n \in 1..h |-> F!SerializeValue(schema[e[n]], values[e[n]])]
  BY <1>4, AddedIs
<1> HIDE DEF a, e, m, h, u, d
<1>7. \A n \in 1..m : a[n] \in DOMAIN lines /\ lines[a[n]] \in F!LineOf(T)
  <2>1. \A n \in 1..m : a[n] \in kept
    BY <1>3 DEF Lists
  <2>2. QED
    BY <1>1, <1>2, <2>1
<1>8. \A n \in 1..m : u[n] = Renewed(schema, values, lines[a[n]]) /\ u[n] \in F!LineOf(T) /\ u[n].key = lines[a[n]].key
  BY <1>5, <1>7, RenewedLine
<1>9. \A n \in 1..h : e[n] \in DOMAIN schema
  <2>1. \A n \in 1..h : e[n] \in fresh
    BY <1>4 DEF Lists
  <2>2. QED
    BY <1>1, <1>2, <2>1
<1>10. \A n \in 1..h : d[n] = F!SerializeValue(schema[e[n]], values[e[n]]) /\ d[n] \in F!LineOf(T) /\ d[n].key = schema[e[n]].key
  BY <1>6, <1>9, Replaced
<1>11. u \in Seq(F!LineOf(T)) /\ Len(u) = m
  BY <1>3, <1>5, <1>8
<1>12. d \in Seq(F!LineOf(T)) /\ Len(d) = h
  BY <1>4, <1>6, <1>10
<1>13. /\ u \o d \in Seq(F!LineOf(T)) /\ Len(u \o d) = m + h
       /\ \A n \in 1..(m + h) : (u \o d)[n] = IF n <= m THEN u[n] ELSE d[n - m]
  BY <1>11, <1>12, ConcatProperties
<1>14. \A n \in 1..m : (u \o d)[n] = u[n]
  BY <1>3, <1>4, <1>13
<1>15. \A n \in 1..h : (u \o d)[m + n] = d[n]
  BY <1>3, <1>4, <1>13
<1>16. F!Applied(schema, values, lines) = u \o d
  BY DEF F!Applied, u, d
<1> HIDE DEF kept, fresh
<1>17. Parts(T, schema, values, lines, a, m, e, h)
  <2> DEFINE after == F!Applied(schema, values, lines)
  <2>1. after \in Seq(F!LineOf(T)) /\ Len(after) = m + h
    BY <1>13, <1>16
  <2>2. \A n \in 1..m : a[n] \in DOMAIN lines /\ after[n] = Renewed(schema, values, lines[a[n]])
                        /\ after[n].key = lines[a[n]].key
    BY <1>7, <1>8, <1>14, <1>16
  <2>3. \A n \in 1..h : e[n] \in DOMAIN schema /\ after[m + n] = F!SerializeValue(schema[e[n]], values[e[n]])
                        /\ after[m + n].key = schema[e[n]].key
    BY <1>9, <1>10, <1>15, <1>16
  <2> HIDE DEF after
  <2>4. QED
    BY <1>3, <1>4, <2>1, <2>2, <2>3 DEF Parts, kept, fresh, after
<1>18. QED
  BY <1>17


\* A managed entry of the result is the line written for its field, and every
\* field has one.
LEMMA AppliedEntries ==
  ASSUME NEW T, NEW schema, NEW values, NEW lines, Applying(T, schema, values, lines)
  PROVE  LET after == F!Applied(schema, values, lines) IN
         /\ \A n \in DOMAIN after : after[n].key \in F!Managed(schema) =>
              after[n] = F!Replacement(schema, values, after[n].key)
         /\ \A key \in F!Managed(schema) : \E n \in DOMAIN after : after[n].key = key
<1> DEFINE after == F!Applied(schema, values, lines)
<1>1. PICK a, m, e, h : Parts(T, schema, values, lines, a, m, e, h)
  BY AppliedParts
<1>2. /\ m \in Nat /\ h \in Nat /\ DOMAIN after = 1..(m + h)
      /\ \A n \in 1..m : a[n] \in DOMAIN lines /\ after[n] = Renewed(schema, values, lines[a[n]])
                         /\ after[n].key = lines[a[n]].key
      /\ \A n \in 1..h : e[n] \in DOMAIN schema /\ after[m + n] = F!SerializeValue(schema[e[n]], values[e[n]])
                         /\ after[m + n].key = schema[e[n]].key
  BY <1>1 DEF Parts
<1> HIDE DEF after
<1>3. ASSUME NEW n \in DOMAIN after, after[n].key \in F!Managed(schema)
      PROVE  after[n] = F!Replacement(schema, values, after[n].key)
  <2>1. CASE n \in 1..m
    BY <1>2, <1>3, <2>1 DEF Renewed
  <2>2. CASE n \notin 1..m
    <3>1. n - m \in 1..h /\ m + (n - m) = n
      BY <1>2, <2>2
    <3>2. e[n - m] \in DOMAIN schema /\ after[n] = F!SerializeValue(schema[e[n - m]], values[e[n - m]])
          /\ after[n].key = schema[e[n - m]].key
      BY <1>2, <3>1
    <3>3. QED
      BY <3>2, Replaced
  <2>3. QED
    BY <2>1, <2>2
<1>4. ASSUME NEW key \in F!Managed(schema)
      PROVE  \E n \in DOMAIN after : after[n].key = key
  <2>1. PICK f \in DOMAIN schema : key = schema[f].key
    BY DEF F!Managed
  <2>2. CASE key \in F!KeysOf(lines)
    <3>1. PICK i \in DOMAIN lines : lines[i].key = key
      BY <2>2 DEF F!KeysOf
    <3>2. i \in Staying(schema, lines)
      BY <3>1 DEF Staying
    <3>3. PICK n \in 1..m : a[n] = i
      BY <1>1, <3>2 DEF Parts, Lists
    <3>4. n \in DOMAIN after /\ after[n].key = key
      BY <1>2, <3>1, <3>3
    <3>5. QED
      BY <3>4
  <2>3. CASE key \notin F!KeysOf(lines)
    <3>1. f \in Fresh(schema, lines)
      BY <2>1, <2>3 DEF Fresh
    <3>2. PICK n \in 1..h : e[n] = f
      BY <1>1, <3>1 DEF Parts, Lists
    <3>3. m + n \in DOMAIN after /\ after[m + n].key = key
      BY <1>2, <2>1, <3>2
    <3>4. QED
      BY <3>3
  <2>4. QED
    BY <2>2, <2>3
<1>5. QED
  BY <1>3, <1>4 DEF after

\* The result reads as the values that were typed.
LEMMA AppliedReads ==
  ASSUME NEW T, NEW schema, NEW values, NEW lines, Applying(T, schema, values, lines)
  PROVE  F!ReadValues(schema, F!Applied(schema, values, lines)) = values
<1> DEFINE after == F!Applied(schema, values, lines)
<1>1. after \in Seq(F!LineOf(T))
  BY AppliedParts DEF Parts
<1>2. Len(after) \in Nat /\ DOMAIN after = 1..Len(after)
  BY <1>1
<1>3. /\ \A n \in DOMAIN after : after[n].key \in F!Managed(schema) =>
           after[n] = F!Replacement(schema, values, after[n].key)
      /\ \A key \in F!Managed(schema) : \E n \in DOMAIN after : after[n].key = key
  BY AppliedEntries
<1> HIDE DEF after
<1>4. ASSUME NEW f \in DOMAIN schema
      PROVE  F!ReadValue(schema[f], after) = values[f]
  <2> DEFINE found == {n \in DOMAIN after : after[n].key = schema[f].key}
             n == F!Max(found)
  <2>1. schema[f].key \in F!Managed(schema)
    BY Replaced
  <2>2. found # {} /\ found \in SUBSET (0..Len(after))
    BY <1>2, <1>3, <2>1
  <2>3. n \in found
    <3> HIDE DEF found
    <3>1. QED
      BY <1>2, <2>2, GreatestPosition
  <2>4. F!ReadValue(schema[f], after) = F!DecodeValue(schema[f], after[n])
    BY <2>2 DEF F!ReadValue
  <2>5. n \in DOMAIN after /\ after[n].key = schema[f].key
    BY <2>3
  <2> HIDE DEF n
  <2>6. after[n] = F!Replacement(schema, values, schema[f].key)
    BY <1>3, <2>1, <2>5
  <2>7. QED
    BY <2>4, <2>6, Replaced
<1>5. F!ReadValues(schema, after) = [f \in DOMAIN schema |-> values[f]]
  BY <1>4 DEF F!ReadValues
<1>6. values = [f \in DOMAIN schema |-> values[f]]
  BY DEF Applying
<1>7. QED
  BY <1>5, <1>6 DEF after

\* A line that stays has the owner it had; a new one is its own.
LEMMA AppliedOwners ==
  ASSUME NEW T, NEW schema, NEW values, NEW lines, Applying(T, schema, values, lines),
         NEW a, NEW m, NEW e, NEW h, Parts(T, schema, values, lines, a, m, e, h)
  PROVE  LET after == F!Applied(schema, values, lines) IN
         /\ \A n \in 1..m : F!OwnerOf(after, n) = F!OwnerOf(lines, a[n])
         /\ \A n \in 1..h : F!OwnerOf(after, m + n) \in F!Managed(schema)
<1> DEFINE after == F!Applied(schema, values, lines)
<1>1. /\ m \in Nat /\ h \in Nat
      /\ \A n \in 1..m : a[n] \in DOMAIN lines /\ after[n].key = lines[a[n]].key
      /\ \A n \in 1..h : e[n] \in DOMAIN schema /\ after[m + n].key = schema[e[n]].key
  BY DEF Parts
<1>2. /\ DOMAIN lines = 1..Len(lines) /\ Len(lines) \in Nat
      /\ \A k \in F!Managed(schema) : k # None
  BY ReplacedKey DEF Applying
<1>3. /\ a \in [1..m -> Staying(schema, lines)]
      /\ \A x, y \in 1..m : x < y => a[x] < a[y]
      /\ \A i \in Staying(schema, lines) : \E n \in 1..m : a[n] = i
  BY DEF Parts, Lists
<1> HIDE DEF after
<1>4. ASSUME NEW n \in 1..h
      PROVE  F!OwnerOf(after, m + n) \in F!Managed(schema)
  <2>1. after[m + n].key \in F!Managed(schema)
    BY <1>1, Replaced
  <2>2. m + n \in Nat \ {0} /\ after[m + n].key # None
    BY <1>1, <1>2, <2>1
  <2>3. F!OwnerOf(after, m + n) = after[m + n].key
    BY <2>2, OwnEntry
  <2>4. QED
    BY <2>1, <2>3
<1>5. ASSUME NEW n \in 1..m
      PROVE  F!OwnerOf(after, n) = F!OwnerOf(lines, a[n])
  <2> DEFINE i == a[n]
             o == F!OwnerOf(lines, i)
  <2>1. i \in 1..Len(lines) /\ n \in Nat \ {0} /\ i \in Nat \ {0} /\ i \in Staying(schema, lines)
    BY <1>1, <1>2, <1>3
  <2>2. after[n].key = lines[i].key
    BY <1>1
  <2>3. CASE lines[i].key # None
    BY <2>1, <2>2, <2>3, OwnEntry
  <2>4. CASE lines[i].key = None
    <3>1. o \notin F!Managed(schema)
      BY <1>2, <2>1, <2>4 DEF Staying
    <3>2. OwnerIs(lines, i, o)
      BY <2>1, OwnerFound
    <3>3. \A x \in 1..n : x \in 1..m /\ a[x] \in 1..i /\ after[x].key = lines[a[x]].key
      <4>1. \A x \in 1..n : x \in 1..m /\ (x = n \/ x < n)
        BY <1>1
      <4>2. \A x \in 1..m : a[x] \in 1..Len(lines)
        BY <1>1, <1>2
      <4>3. \A x \in 1..n : a[x] = i \/ a[x] < i
        BY <1>3, <4>1
      <4> HIDE DEF i
      <4>4. \A x \in 1..n : a[x] \in 1..i
        BY <1>2, <2>1, <4>1, <4>2, <4>3
      <4>5. QED
        BY <1>1, <4>1, <4>4
    <3> HIDE DEF o, i
    <3>4. CASE o = None /\ \A j \in 1..i : lines[j].key = None
      <4>1. \A x \in 1..n : after[x].key = None
        BY <3>3, <3>4
      <4>2. OwnerIs(after, n, None)
        BY <4>1 DEF OwnerIs
      <4>3. QED
        BY <2>1, <3>4, <4>2, OneOwner DEF o, i
    <3>5. CASE \E j \in 1..i : /\ lines[j].key # None /\ o = lines[j].key
                               /\ \A k \in 1..i : j < k => lines[k].key = None
      <4>1. PICK j \in 1..i : /\ lines[j].key # None /\ o = lines[j].key
                              /\ \A k \in 1..i : j < k => lines[k].key = None
        BY <3>5
      <4>2. j \in DOMAIN lines /\ j \in Nat \ {0}
        BY <1>2, <2>1
      <4>3. F!OwnerOf(lines, j) = o
        BY <4>1, <4>2, OwnEntry
      <4>4. j \in Staying(schema, lines)
        BY <3>1, <4>2, <4>3 DEF Staying
      <4>5. PICK x \in 1..m : a[x] = j
        BY <1>3, <4>4
      <4>6. j <= i /\ i = a[n]
        BY <2>1 DEF i
      <4>7. ~ n < x
        <5>1. n < x => a[n] < a[x]
          BY <1>3
        <5>2. QED
          BY <2>1, <4>2, <4>5, <4>6, <5>1
      <4>8. x \in 1..n
        BY <1>1, <4>7
      <4>9. after[x].key # None /\ o = after[x].key
        BY <3>3, <4>1, <4>5, <4>8
      <4>10. ASSUME NEW y \in 1..n, x < y
             PROVE  after[y].key = None
        <5>1. y \in 1..m /\ a[y] \in 1..i /\ after[y].key = lines[a[y]].key
          BY <3>3
        <5>2. j < a[y]
          BY <1>3, <4>5, <4>10, <5>1
        <5>3. QED
          BY <4>1, <5>1, <5>2
      <4>11. OwnerIs(after, n, o)
        BY <4>8, <4>9, <4>10 DEF OwnerIs
      <4>12. QED
        BY <2>1, <4>11, OneOwner DEF o, i
    <3>6. QED
      BY <3>2, <3>4, <3>5 DEF OwnerIs
  <2>5. QED
    BY <2>3, <2>4
<1>6. QED
  BY <1>4, <1>5 DEF after

\* The lines of other keys are the same, in the same order.
Others(schema, lines) == {i \in DOMAIN lines : F!OwnerOf(lines, i) \notin F!Managed(schema)}
Rest(schema, lines) ==
  [n \in DOMAIN F!Ascending(Others(schema, lines)) |->
     <<F!OwnerOf(lines, F!Ascending(Others(schema, lines))[n]), lines[F!Ascending(Others(schema, lines))[n]]>>]

LEMMA AppliedRest ==
  ASSUME NEW T, NEW schema, NEW values, NEW lines, Applying(T, schema, values, lines)
  PROVE  Rest(schema, F!Applied(schema, values, lines)) = Rest(schema, lines)
<1> DEFINE after == F!Applied(schema, values, lines)
           left == Others(schema, after)
           right == Others(schema, lines)
           c == F!Ascending(left)
           r == Cardinality(left)
<1>1. PICK a, m, e, h : Parts(T, schema, values, lines, a, m, e, h)
  BY AppliedParts
<1>2. /\ m \in Nat /\ h \in Nat /\ DOMAIN after = 1..(m + h)
      /\ \A n \in 1..m : a[n] \in DOMAIN lines /\ after[n] = Renewed(schema, values, lines[a[n]])
  BY <1>1 DEF Parts
<1>3. /\ \A n \in 1..m : F!OwnerOf(after, n) = F!OwnerOf(lines, a[n])
      /\ \A n \in 1..h : F!OwnerOf(after, m + n) \in F!Managed(schema)
  BY <1>1, AppliedOwners
<1>4. /\ DOMAIN lines = 1..Len(lines) /\ Len(lines) \in Nat
      /\ \A k \in F!Managed(schema) : k # None
  BY ReplacedKey DEF Applying
<1>5. /\ a \in [1..m -> Staying(schema, lines)]
      /\ \A x, y \in 1..m : x < y => a[x] < a[y]
      /\ \A i \in Staying(schema, lines) : \E n \in 1..m : a[n] = i
  BY <1>1 DEF Parts, Lists
<1> HIDE DEF after
<1>6. \A n \in left : n \in 1..m /\ F!OwnerOf(lines, a[n]) \notin F!Managed(schema)
  <2> TAKE n \in left
  <2>1. n \in 1..(m + h) /\ F!OwnerOf(after, n) \notin F!Managed(schema)
    BY <1>2 DEF Others
  <2>2. CASE n \in 1..m
    BY <1>3, <2>1, <2>2
  <2>3. CASE n \notin 1..m
    <3>1. n - m \in 1..h /\ m + (n - m) = n
      BY <1>2, <2>1, <2>3
    <3>2. QED
      BY <1>3, <2>1, <3>1
  <2>4. QED
    BY <2>2, <2>3
<1>7. \A n \in left : a[n] \in right /\ after[n] = lines[a[n]]
  <2> TAKE n \in left
  <2>1. a[n] \in right
    BY <1>2, <1>6 DEF Others
  <2>2. lines[a[n]].key \notin F!Managed(schema)
    <3>1. a[n] \in Nat \ {0}
      BY <1>2, <1>4, <1>6
    <3>2. lines[a[n]].key # None => F!OwnerOf(lines, a[n]) = lines[a[n]].key
      BY <3>1, OwnEntry
    <3>3. QED
      BY <1>4, <1>6, <3>2
  <2>3. after[n] = lines[a[n]]
    BY <1>2, <1>6, <2>2 DEF Renewed
  <2>4. QED
    BY <2>1, <2>3
<1>8. left \in SUBSET (1..(m + h)) /\ m + h \in Nat
  BY <1>2 DEF Others
<1>9. r \in Nat /\ Lists(c, r, left) /\ DOMAIN c = 1..r
  BY <1>8, Positions
<1>10. /\ c \in [1..r -> left]
       /\ \A x, y \in 1..r : x < y => c[x] < c[y]
       /\ \A i \in left : \E n \in 1..r : c[n] = i
  BY <1>9 DEF Lists
<1> HIDE DEF left, c, r
<1> DEFINE b == [x \in 1..r |-> a[c[x]]]
<1>11. \A x \in 1..r : b[x] = a[c[x]] /\ b[x] \in right
  BY <1>7, <1>10
<1>12. Lists(b, r, right)
  <2>1. b \in [1..r -> right]
    BY <1>11
  <2>2. \A x, y \in 1..r : x < y => b[x] < b[y]
    BY <1>5, <1>6, <1>10, <1>11
  <2>3. ASSUME NEW i \in right
        PROVE  \E x \in 1..r : b[x] = i
    <3>1. i \in DOMAIN lines /\ F!OwnerOf(lines, i) \notin F!Managed(schema)
      BY DEF Others
    <3>2. PICK n \in 1..m : a[n] = i
      BY <1>5, <3>1 DEF Staying
    <3>3. n \in left
      <4>1. n \in DOMAIN after
        BY <1>2
      <4>2. QED
        BY <1>3, <3>1, <3>2, <4>1 DEF Others, left
    <3>4. PICK x \in 1..r : c[x] = n
      BY <1>10, <3>3
    <3>5. QED
      BY <1>11, <3>2, <3>4
  <2> HIDE DEF b
  <2>4. QED
    BY <2>1, <2>2, <2>3 DEF Lists
<1>13. right \in SUBSET Nat
  BY <1>4 DEF Others
<1> HIDE DEF b, right
<1>14. F!Ascending(right) = b /\ DOMAIN b = 1..r
  <2>1. F!Ascending(right) = b
    BY <1>9, <1>12, <1>13, ListsUnique
  <2>2. QED
    BY <1>12, <2>1 DEF Lists
<1>15. \A x \in 1..r : F!OwnerOf(after, c[x]) = F!OwnerOf(lines, b[x]) /\ after[c[x]] = lines[b[x]]
  BY <1>3, <1>6, <1>7, <1>10, <1>11
<1>16. Rest(schema, after) = [x \in 1..r |-> <<F!OwnerOf(after, c[x]), after[c[x]]>>]
  BY <1>9 DEF Rest, left, c
<1>17. Rest(schema, lines) = [x \in 1..r |-> <<F!OwnerOf(lines, b[x]), lines[b[x]]>>]
  BY <1>14 DEF Rest, right
<1>18. QED
  BY <1>15, <1>16, <1>17 DEF after

\* Applying the values again leaves everything as it is.
LEMMA AppliedAgain ==
  ASSUME NEW T, NEW schema, NEW values, NEW lines, Applying(T, schema, values, lines)
  PROVE  LET after == F!Applied(schema, values, lines) IN F!Applied(schema, values, after) = after
<1> DEFINE after == F!Applied(schema, values, lines)
           n == Len(after)
           whole == [i \in 1..n |-> i]
<1>1. PICK a, m, e, h : Parts(T, schema, values, lines, a, m, e, h)
  BY AppliedParts
<1>2. /\ m \in Nat /\ h \in Nat /\ n = m + h /\ DOMAIN after = 1..n /\ after \in Seq(F!LineOf(T)) /\ n \in Nat
      /\ \A i \in 1..m : after[i].key = lines[a[i]].key
      /\ \A i \in 1..h : e[i] \in DOMAIN schema /\ after[m + i].key = schema[e[i]].key
      /\ a \in [1..m -> Staying(schema, lines)]
  BY <1>1 DEF Parts, Lists
<1>3. /\ \A i \in DOMAIN after : after[i].key \in F!Managed(schema) =>
           after[i] = F!Replacement(schema, values, after[i].key)
      /\ \A key \in F!Managed(schema) : \E i \in DOMAIN after : after[i].key = key
  BY AppliedEntries
<1>4. \A i \in 1..m : F!OwnerOf(after, i) = F!OwnerOf(lines, a[i])
  BY <1>1, AppliedOwners
<1>5. \A key \in F!Managed(schema) : key # None
  BY ReplacedKey
<1> HIDE DEF after, n
<1>6. \A i \in 1..n : i \in Staying(schema, after)
  <2> TAKE i \in 1..n
  <2>1. CASE i \in 1..m
    <3>1. a[i] \in Staying(schema, lines)
      BY <1>2, <2>1
    <3>2. after[i].key \in F!Managed(schema) \/ F!OwnerOf(after, i) \notin F!Managed(schema)
      BY <1>2, <1>4, <2>1, <3>1 DEF Staying
    <3>3. QED
      BY <1>2, <3>2 DEF Staying
  <2>2. CASE i \notin 1..m
    <3>1. i - m \in 1..h /\ m + (i - m) = i
      BY <1>2, <2>2
    <3>2. e[i - m] \in DOMAIN schema /\ after[i].key = schema[e[i - m]].key
      BY <1>2, <3>1
    <3>3. after[i].key \in F!Managed(schema)
      BY <3>2, Replaced
    <3>4. QED
      BY <1>2, <3>3 DEF Staying
  <2>3. QED
    BY <2>1, <2>2
<1>7. Staying(schema, after) = 1..n
  BY <1>2, <1>6 DEF Staying
<1>8. Lists(whole, n, 1..n)
  BY <1>2 DEF Lists
<1>9. F!Ascending(1..n) = whole
  BY <1>2, <1>8, ListsUnique
<1>10. F!Updated(schema, values, after) = [i \in 1..n |-> Renewed(schema, values, after[i])]
  BY <1>7, <1>9, UpdatedIs
<1>11. \A i \in 1..n : Renewed(schema, values, after[i]) = after[i]
  BY <1>2, <1>3 DEF Renewed
<1>12. F!Updated(schema, values, after) = after
  <2>1. after = [i \in 1..n |-> after[i]]
    BY <1>2
  <2>2. QED
    BY <1>10, <1>11, <2>1
<1>13. Fresh(schema, after) = {}
  <2> SUFFICES ASSUME NEW f \in DOMAIN schema, schema[f].key \notin F!KeysOf(after) PROVE FALSE
    BY DEF Fresh
  <2>1. schema[f].key \in F!Managed(schema)
    BY Replaced
  <2>2. PICK i \in DOMAIN after : after[i].key = schema[f].key
    BY <1>3, <2>1
  <2>3. schema[f].key \in F!KeysOf(after)
    BY <1>5, <2>1, <2>2 DEF F!KeysOf
  <2>4. QED
    BY <2>3
<1>14. F!Added(schema, values, after) = <<>>
  <2>1. {} \in SUBSET (1..0)
    OBVIOUS
  <2>2. Cardinality({}) = 0
    BY FS_EmptySet
  <2>3. DOMAIN F!Ascending({}) = 1..0
    BY <2>1, <2>2, Positions
  <2>4. F!Added(schema, values, after)
          = [i \in 1..0 |-> F!SerializeValue(schema[F!Ascending({})[i]], values[F!Ascending({})[i]])]
    BY <1>13, <2>3, AddedIs
  <2>5. QED
    BY <2>4
<1>15. F!Applied(schema, values, after) = after
  BY <1>2, <1>12, <1>14, ConcatEmptySeq DEF F!Applied
<1>16. QED
  BY <1>15 DEF after

-----------------------------------------------------------------------------
(* Frontmatter: a snippet between the texts around it. *)

LEMMA TrailingIs ==
  ASSUME NEW T, NEW s \in Seq(T)
  PROVE  /\ F!Trailing(s) \in 0..Len(s)
         /\ \A i \in (Len(s) - F!Trailing(s) + 1)..Len(s) : s[i] = "newline"
         /\ \A k \in 0..Len(s) : (\A i \in (Len(s) - k + 1)..Len(s) : s[i] = "newline") => k <= F!Trailing(s)
<1> DEFINE found == {k \in 0..Len(s) : \A i \in (Len(s) - k + 1)..Len(s) : s[i] = "newline"}
<1>1. Len(s) \in Nat /\ 0 \in found
  OBVIOUS
<1>2. found \in SUBSET (0..Len(s)) /\ found # {}
  BY <1>1
<1>3. F!Trailing(s) = F!Max(found)
  BY DEF F!Trailing, F!Newline
<1> HIDE DEF found
<1>4. F!Trailing(s) \in found /\ \A k \in found : k <= F!Trailing(s)
  BY <1>1, <1>2, <1>3, GreatestPosition
<1>5. QED
  BY <1>4 DEF found

LEMMA NewlinesIs ==
  ASSUME NEW T, "newline" \in T, NEW n \in Nat
  PROVE  F!Newlines(n) \in Seq(T) /\ Len(F!Newlines(n)) = n /\ \A i \in 1..n : F!Newlines(n)[i] = "newline"
BY DEF F!Newlines, F!Newline

LEMMA TrailingPadded ==
  ASSUME NEW T, "newline" \in T, NEW s \in Seq(T)
  PROVE  /\ F!Missing(F!Trailing(s)) \in Nat
         /\ F!Trailing(s \o F!Newlines(F!Missing(F!Trailing(s)))) >= 2
<1> DEFINE t == F!Trailing(s)
           m == F!Missing(t)
           p == F!Newlines(m)
           u == s \o p
<1>1. t \in 0..Len(s) /\ Len(s) \in Nat /\ \A i \in (Len(s) - t + 1)..Len(s) : s[i] = "newline"
  BY TrailingIs
<1> HIDE DEF t
<1>2. m \in Nat /\ (t >= 2 => m = 0) /\ (t < 2 => m = 2 - t)
  BY <1>1 DEF F!Missing
<1> HIDE DEF m
<1>3. p \in Seq(T) /\ Len(p) = m /\ \A i \in 1..m : p[i] = "newline"
  BY <1>2, NewlinesIs
<1> HIDE DEF p
<1>4. /\ u \in Seq(T) /\ Len(u) = Len(s) + m
      /\ \A i \in 1..(Len(s) + m) : u[i] = IF i <= Len(s) THEN s[i] ELSE p[i - Len(s)]
  BY <1>3, ConcatProperties
<1> HIDE DEF u
<1>5. CASE t >= 2
  <2>1. p = <<>>
    BY <1>2, <1>3, <1>5, EmptySeq
  <2>2. u = s
    BY <2>1, ConcatEmptySeq DEF u
  <2>3. F!Trailing(u) >= 2
    BY <1>5, <2>2 DEF t
  <2>4. QED
    BY <1>2, <2>3 DEF t, m, p, u
<1>6. CASE t < 2
  <2>1. 2 \in 0..Len(u)
    BY <1>1, <1>2, <1>4, <1>6
  <2>2. ASSUME NEW i \in (Len(u) - 2 + 1)..Len(u)
        PROVE  u[i] = "newline"
    <3>1. i \in 1..(Len(s) + m) /\ i >= Len(s) + m - 1 /\ m = 2 - t
      BY <1>1, <1>2, <1>4, <1>6, <2>1
    <3>2. CASE i <= Len(s)
      <4>1. i \in (Len(s) - t + 1)..Len(s)
        BY <1>1, <3>1, <3>2
      <4>2. QED
        BY <1>1, <1>4, <3>1, <3>2, <4>1
    <3>3. CASE ~ i <= Len(s)
      <4>1. i - Len(s) \in 1..m
        BY <1>1, <3>1, <3>3
      <4>2. QED
        BY <1>3, <1>4, <3>1, <3>3, <4>1
    <3>4. QED
      BY <3>2, <3>3
  <2>3. 2 <= F!Trailing(u) /\ F!Trailing(u) \in 0..Len(u)
    BY <1>4, <2>1, <2>2, TrailingIs
  <2>4. F!Trailing(u) >= 2
    BY <1>4, <2>3
  <2>5. QED
    BY <1>2, <2>4 DEF t, m, p, u
<1>7. QED
  BY <1>1, <1>5, <1>6

LEMMA ReverseIs ==
  ASSUME NEW T, NEW s \in Seq(T)
  PROVE  /\ F!Reverse(s) \in Seq(T) /\ Len(F!Reverse(s)) = Len(s) /\ Len(s) \in Nat
         /\ \A i \in 1..Len(s) : F!Reverse(s)[i] = s[Len(s) - i + 1]
<1>1. Len(s) \in Nat /\ \A i \in 1..Len(s) : Len(s) - i + 1 \in 1..Len(s) /\ s[i] \in T
  OBVIOUS
<1>2. F!Reverse(s) = [i \in 1..Len(s) |-> s[Len(s) - i + 1]]
  BY DEF F!Reverse
<1>3. QED
  BY <1>1, <1>2

LEMMA LeadingPadded ==
  ASSUME NEW T, "newline" \in T, NEW s \in Seq(T)
  PROVE  /\ F!Missing(F!Leading(s)) \in Nat
         /\ F!Leading(F!Newlines(F!Missing(F!Leading(s))) \o s) >= 2
<1> DEFINE r == F!Reverse(s)
           m == F!Missing(F!Trailing(r))
           p == F!Newlines(m)
           u == p \o s
           n == Len(s)
<1>1. n \in Nat /\ r \in Seq(T) /\ Len(r) = n /\ \A i \in 1..n : r[i] = s[n - i + 1]
  BY ReverseIs
<1> HIDE DEF r
<1>2. m \in Nat /\ F!Trailing(r \o p) >= 2
  BY <1>1, TrailingPadded
<1> HIDE DEF m
<1>3. p \in Seq(T) /\ Len(p) = m /\ \A i \in 1..m : p[i] = "newline"
  BY <1>2, NewlinesIs
<1> HIDE DEF p
<1>4. /\ u \in Seq(T) /\ Len(u) = m + n
      /\ \A i \in 1..(m + n) : u[i] = IF i <= m THEN p[i] ELSE s[i - m]
  BY <1>3, ConcatProperties
<1>5. /\ r \o p \in Seq(T) /\ Len(r \o p) = n + m
      /\ \A i \in 1..(n + m) : (r \o p)[i] = IF i <= n THEN r[i] ELSE p[i - n]
  <2>1. /\ r \o p \in Seq(T) /\ Len(r \o p) = Len(r) + Len(p)
        /\ \A i \in 1..(Len(r) + Len(p)) : (r \o p)[i] = IF i <= Len(r) THEN r[i] ELSE p[i - Len(r)]
    BY <1>1, <1>3, ConcatProperties
  <2> HIDE DEF n
  <2>2. QED
    BY <1>1, <1>3, <2>1
<1> HIDE DEF u, n
<1>6. /\ F!Reverse(u) \in Seq(T) /\ Len(F!Reverse(u)) = n + m
      /\ \A i \in 1..(n + m) : F!Reverse(u)[i] = u[(n + m) - i + 1]
  <2>1. Len(u) = n + m
    BY <1>1, <1>2, <1>4
  <2>2. QED
    BY <1>4, <2>1, ReverseIs
<1>7. ASSUME NEW i \in 1..(n + m)
      PROVE  F!Reverse(u)[i] = (r \o p)[i]
  <2>1. (n + m) - i + 1 \in 1..(m + n) /\ i \in Nat
    BY <1>1, <1>2
  <2>2. CASE i <= n
    <3>1. ~ (n + m) - i + 1 <= m /\ ((n + m) - i + 1) - m = n - i + 1 /\ i \in 1..n
      BY <1>1, <1>2, <2>1, <2>2
    <3>2. F!Reverse(u)[i] = u[(n + m) - i + 1]
      BY <1>6
    <3>3. u[(n + m) - i + 1] = s[n - i + 1]
      BY <1>4, <2>1, <3>1
    <3>4. (r \o p)[i] = r[i] /\ r[i] = s[n - i + 1]
      BY <1>1, <1>5, <2>2, <3>1
    <3>5. QED
      BY <3>2, <3>3, <3>4
  <2>3. CASE ~ i <= n
    <3>1. (n + m) - i + 1 <= m /\ (n + m) - i + 1 \in 1..m /\ i - n \in 1..m
      BY <1>1, <1>2, <2>1, <2>3
    <3>2. F!Reverse(u)[i] = u[(n + m) - i + 1]
      BY <1>6
    <3>3. u[(n + m) - i + 1] = "newline"
      BY <1>3, <1>4, <2>1, <3>1
    <3>4. (r \o p)[i] = "newline"
      BY <1>3, <1>5, <2>3, <3>1
    <3>5. QED
      BY <3>2, <3>3, <3>4
  <2>4. QED
    BY <2>2, <2>3
<1>8. F!Reverse(u) = r \o p
  BY <1>5, <1>6, <1>7, SeqEqual
<1>9. F!Leading(u) >= 2
  BY <1>2, <1>8 DEF F!Leading
<1>10. QED
  BY <1>2, <1>9 DEF F!Leading, r, m, p, u

\* The texts around are a prefix and a suffix of what stands around the snippet.
LEMMA PrefixOf ==
  ASSUME NEW T, NEW s \in Seq(T), NEW t \in Seq(T)
  PROVE  F!IsPrefix(s, s \o t)
<1>1. Len(s \o t) = Len(s) + Len(t) /\ Len(s) \in Nat /\ Len(t) \in Nat
  BY ConcatProperties
<1>2. SubSeq(s \o t, 1, Len(s)) = SubSeq(s, 1, Len(s))
  <2>1. CASE Len(s) = 0
    BY <2>1, SubSeqEmpty
  <2>2. CASE Len(s) # 0
    BY <1>1, <2>2, SubSeqOfConcat1
  <2>3. QED
    BY <2>1, <2>2
<1>3. QED
  BY <1>1, <1>2 DEF F!IsPrefix

LEMMA SuffixOf ==
  ASSUME NEW T, NEW s \in Seq(T), NEW t \in Seq(T)
  PROVE  F!IsSuffix(t, s \o t)
<1> DEFINE m == Len(s)
           n == Len(t)
           u == s \o t
<1>1. m \in Nat /\ n \in Nat
  OBVIOUS
<1>2. u \in Seq(T) /\ Len(u) = m + n /\ \A i \in 1..(m + n) : u[i] = IF i <= m THEN s[i] ELSE t[i - m]
  BY ConcatProperties
<1>3. F!Reverse(t) \in Seq(T) /\ Len(F!Reverse(t)) = n /\ \A i \in 1..n : F!Reverse(t)[i] = t[n - i + 1]
  BY ReverseIs
<1>4. F!Reverse(s) \in Seq(T) /\ Len(F!Reverse(s)) = m /\ \A i \in 1..m : F!Reverse(s)[i] = s[m - i + 1]
  BY ReverseIs
<1> HIDE DEF u, m, n
<1>5. F!Reverse(u) \in Seq(T) /\ Len(F!Reverse(u)) = n + m
      /\ \A i \in 1..(n + m) : F!Reverse(u)[i] = u[(m + n) - i + 1]
  <2>1. Len(u) = n + m /\ n + m = m + n
    BY <1>1, <1>2
  <2>2. QED
    BY <1>2, <2>1, ReverseIs
<1>6. /\ F!Reverse(t) \o F!Reverse(s) \in Seq(T) /\ Len(F!Reverse(t) \o F!Reverse(s)) = n + m
      /\ \A i \in 1..(n + m) : (F!Reverse(t) \o F!Reverse(s))[i]
                                 = IF i <= n THEN F!Reverse(t)[i] ELSE F!Reverse(s)[i - n]
  <2> DEFINE a == F!Reverse(t)
             b == F!Reverse(s)
  <2>1. a \in Seq(T) /\ Len(a) = n /\ b \in Seq(T) /\ Len(b) = m
    BY <1>3, <1>4
  <2> HIDE DEF a, b
  <2>2. /\ a \o b \in Seq(T) /\ Len(a \o b) = Len(a) + Len(b)
        /\ \A i \in 1..(Len(a) + Len(b)) : (a \o b)[i] = IF i <= Len(a) THEN a[i] ELSE b[i - Len(a)]
    BY <2>1, ConcatProperties
  <2>3. /\ a \o b \in Seq(T) /\ Len(a \o b) = n + m
        /\ \A i \in 1..(n + m) : (a \o b)[i] = IF i <= n THEN a[i] ELSE b[i - n]
    BY <2>1, <2>2
  <2>4. QED
    BY <2>3 DEF a, b
<1>7. ASSUME NEW i \in 1..(n + m)
      PROVE  F!Reverse(u)[i] = (F!Reverse(t) \o F!Reverse(s))[i]
  <2>1. (m + n) - i + 1 \in 1..(m + n) /\ i \in Nat
    BY <1>1
  <2>2. CASE i <= n
    <3>1. ~ (m + n) - i + 1 <= m /\ ((m + n) - i + 1) - m = n - i + 1 /\ i \in 1..n
      BY <1>1, <2>1, <2>2
    <3>2. F!Reverse(u)[i] = u[(m + n) - i + 1]
      BY <1>5
    <3>3. u[(m + n) - i + 1] = t[n - i + 1]
      BY <1>2, <2>1, <3>1
    <3>4. (F!Reverse(t) \o F!Reverse(s))[i] = F!Reverse(t)[i]
      BY <1>6, <2>2
    <3>5. F!Reverse(t)[i] = t[n - i + 1]
      BY <1>3, <3>1
    <3>6. QED
      BY <3>2, <3>3, <3>4, <3>5
  <2>3. CASE ~ i <= n
    <3>1. (m + n) - i + 1 <= m /\ i - n \in 1..m /\ m - (i - n) + 1 = (m + n) - i + 1
      BY <1>1, <2>1, <2>3
    <3>2. F!Reverse(u)[i] = u[(m + n) - i + 1]
      BY <1>5
    <3>3. u[(m + n) - i + 1] = s[(m + n) - i + 1]
      BY <1>2, <2>1, <3>1
    <3>4. (F!Reverse(t) \o F!Reverse(s))[i] = F!Reverse(s)[i - n]
      BY <1>6, <2>3
    <3>5. F!Reverse(s)[i - n] = s[m - (i - n) + 1]
      BY <1>4, <3>1
    <3>6. QED
      BY <3>1, <3>2, <3>3, <3>4, <3>5
  <2>4. QED
    BY <2>2, <2>3
<1>8. F!Reverse(u) = F!Reverse(t) \o F!Reverse(s)
  BY <1>5, <1>6, <1>7, SeqEqual
<1>9. F!IsPrefix(F!Reverse(t), F!Reverse(u))
  BY <1>3, <1>4, <1>8, PrefixOf
<1>10. QED
  BY <1>9 DEF F!IsSuffix, u


Letters == {"word", "snippet", "newline"}

\* A record of a schema applied, and of a snippet inserted, as the properties read them.
ReadsAsTyped(l) ==
  l # None /\ "fields" \in DOMAIN l =>
    /\ F!ReadValues(l.fields, l.after) = l.values
    /\ Rest(l.fields, l.after) = Rest(l.fields, l.before)
    /\ F!Applied(l.fields, F!ReadValues(l.fields, l.after), l.after) = l.after
StandsApart(l) ==
  l # None /\ "caret" \in DOMAIN l =>
    LET left == SubSeq(l.body, 1, l.caret - 1)
        right == SubSeq(l.body, l.caret + 1, Len(l.body))
    IN  /\ l.body[l.caret] = "snippet"
        /\ F!IsPrefix(l.before, left) /\ F!IsSuffix(l.after, right)
        /\ l.before # <<>> => F!Trailing(left) >= 2
        /\ l.after # <<>> => F!Leading(right) >= 2

LEMMA ExactIs ==
  /\ F!EditsExact <=> ReadsAsTyped(last) /\ StandsApart(last)
  /\ F!EditsExact' <=> ReadsAsTyped(last') /\ StandsApart(last')
<1>1. F!FrontmatterExact <=> ReadsAsTyped(last)
  BY DEF F!FrontmatterExact, ReadsAsTyped, Rest, Others
<1>2. F!FrontmatterExact' <=> ReadsAsTyped(last')
  BY DEF F!FrontmatterExact, ReadsAsTyped, Rest, Others
<1>3. (F!SnippetApart <=> StandsApart(last)) /\ (F!SnippetApart' <=> StandsApart(last'))
  BY DEF F!SnippetApart, StandsApart
<1>4. QED
  BY <1>1, <1>2, <1>3 DEF F!EditsExact

LEMMA AppliedExact ==
  ASSUME NEW T, NEW schema, NEW values, NEW lines, Applying(T, schema, values, lines),
         NEW l, l = [fields |-> schema, values |-> values, before |-> lines,
                     after |-> F!Applied(schema, values, lines)]
  PROVE  ReadsAsTyped(l) /\ StandsApart(l)
<1> DEFINE after == F!Applied(schema, values, lines)
<1>1. F!ReadValues(schema, after) = values
  BY AppliedReads
<1>2. Rest(schema, after) = Rest(schema, lines)
  BY AppliedRest
<1>3. F!Applied(schema, values, after) = after
  BY AppliedAgain
<1> HIDE DEF after
<1>4. l = [fields |-> schema, values |-> values, before |-> lines, after |-> after]
  BY DEF after
<1>5. l.fields = schema /\ l.values = values /\ l.before = lines /\ l.after = after /\ "caret" \notin DOMAIN l
  BY <1>4
<1>6. QED
  BY <1>1, <1>2, <1>3, <1>5 DEF ReadsAsTyped, StandsApart

\* One item between two sequences.
LEMMA Between ==
  ASSUME NEW T, NEW left \in Seq(T), NEW right \in Seq(T), NEW x \in T,
         NEW text, text = (left \o <<x>>) \o right, NEW c, c = Len(left) + 1
  PROVE  /\ text \in Seq(T) /\ text[c] = x
         /\ SubSeq(text, 1, c - 1) = left /\ SubSeq(text, c + 1, Len(text)) = right
<1> DEFINE mid == <<x>>
<1>1. mid \in Seq(T) /\ Len(mid) = 1 /\ mid[1] = x
  OBVIOUS
<1>4. Len(left) \in Nat /\ Len(right) \in Nat /\ c \in Nat /\ c - 1 = Len(left) /\ c = Len(left) + 1
  OBVIOUS
<1> HIDE DEF mid
<1> DEFINE head == left \o mid
<1>7. head \in Seq(T) /\ Len(head) = c /\ head[c] = x /\ c \in Nat
      /\ \A i \in 1..(c - 1) : head[i] = left[i]
  <2>1. /\ head \in Seq(T) /\ Len(head) = Len(left) + 1
        /\ \A i \in 1..(Len(left) + 1) : head[i] = IF i <= Len(left) THEN left[i] ELSE mid[i - Len(left)]
    BY <1>1, <1>4, ConcatProperties
  <2> HIDE DEF head
  <2>2. head[Len(left) + 1] = mid[1]
    BY <1>4, <2>1
  <2>3. QED
    BY <1>1, <1>4, <2>1, <2>2
<1> HIDE DEF head
<1>8. /\ text \in Seq(T) /\ Len(text) = c + Len(right)
      /\ \A i \in 1..(c + Len(right)) : text[i] = IF i <= c THEN head[i] ELSE right[i - c]
  <2>1. text = head \o right
    BY DEF head, mid
  <2>2. /\ head \o right \in Seq(T) /\ Len(head \o right) = Len(head) + Len(right)
        /\ \A i \in 1..(Len(head) + Len(right)) :
             (head \o right)[i] = IF i <= Len(head) THEN head[i] ELSE right[i - Len(head)]
    <3>1. head \in Seq(T) /\ right \in Seq(T)
      BY <1>7
    <3>2. QED
      BY ONLY <3>1, ConcatProperties
  <2>3. QED
    BY <1>7, <2>1, <2>2
<1>9. text[c] = x
  BY <1>4, <1>7, <1>8
<1>10. SubSeq(text, 1, c - 1) = left
  <2> DEFINE s == SubSeq(text, 1, c - 1)
  <2>1. c - 1 = Len(left) /\ c - 1 \in Nat /\ \A i \in 1..(c - 1) : text[i] \in T
    BY <1>4, <1>8
  <2>2. s \in Seq(T) /\ Len(s) = c - 1 /\ \A i \in 1..(c - 1) : s[i] = text[i]
    BY <1>7, <2>1, SubSeqProperties
  <2>3. \A i \in 1..(c - 1) : text[i] = left[i]
    BY <1>4, <1>7, <1>8
  <2> HIDE DEF s
  <2>4. s = left
    BY <1>4, <2>1, <2>2, <2>3, SeqEqual
  <2>5. QED
    BY <2>4 DEF s
<1>11. SubSeq(text, c + 1, Len(text)) = right
  <2> DEFINE s == SubSeq(text, c + 1, c + Len(right))
             r == Len(right)
  <2>1. r \in Nat /\ \A i \in (c + 1)..(c + r) : text[i] \in T
    BY <1>4, <1>7, <1>8
  <2>2. s \in Seq(T) /\ Len(s) = r /\ \A i \in 1..r : s[i] = text[c + i]
    BY <1>7, <2>1, SubSeqProperties
  <2>3. \A i \in 1..r : text[c + i] = right[i]
    BY <1>7, <1>8, <2>1
  <2> HIDE DEF s
  <2>4. s = right
    BY <1>4, <2>2, <2>3, SeqEqual
  <2>5. QED
    BY <1>8, <2>4 DEF s
<1>12. QED
  BY <1>8, <1>9, <1>10, <1>11

\* Texts put together are put together in any order.
Regrouped(T) == \A a, b, d \in Seq(T) : (a \o b) \o d = a \o (b \o d)

LEMMA TextsRegrouped ==
  ASSUME NEW T
  PROVE  Regrouped(T)
<1>1. ASSUME NEW a \in Seq(T), NEW b \in Seq(T), NEW d \in Seq(T)
      PROVE  (a \o b) \o d = a \o (b \o d)
  OBVIOUS
<1>2. QED
  BY <1>1, Zenon DEF Regrouped

Among(T, s1, s2, x, s4, s5) ==
  LET text == s1 \o s2 \o <<x>> \o s4 \o s5
      c == Len(s1) + Len(s2) + 1
  IN  /\ text \in Seq(T) /\ text[c] = x
      /\ SubSeq(text, 1, c - 1) = s1 \o s2 /\ SubSeq(text, c + 1, Len(text)) = s4 \o s5

LEMMA AmongFour ==
  ASSUME NEW T, NEW s1 \in Seq(T), NEW s2 \in Seq(T), NEW s4 \in Seq(T), NEW s5 \in Seq(T), NEW x \in T
  PROVE  Among(T, s1, s2, x, s4, s5)
<1> DEFINE left == s1 \o s2
           right == s4 \o s5
           text == s1 \o s2 \o <<x>> \o s4 \o s5
           c == Len(s1) + Len(s2) + 1
<1>1. text = (left \o <<x>>) \o right
  <2> DEFINE h == left \o <<x>>
  <2>1. Regrouped(T)
    BY TextsRegrouped
  <2>2. h \in Seq(T)
    <3>1. left \in Seq(T) /\ <<x>> \in Seq(T)
      OBVIOUS
    <3> HIDE DEF left
    <3>2. QED
      BY <3>1
  <2> HIDE DEF h
  <2>3. (h \o s4) \o s5 = h \o (s4 \o s5)
    BY ONLY <2>1, <2>2, s4 \in Seq(T), s5 \in Seq(T), Zenon DEF Regrouped
  <2>4. QED
    BY <2>3, Zenon DEF h
<1>2. left \in Seq(T) /\ right \in Seq(T) /\ c = Len(left) + 1
  OBVIOUS
<1> HIDE DEF left, right, text, c
<1>3. /\ text \in Seq(T) /\ text[c] = x
      /\ SubSeq(text, 1, c - 1) = left /\ SubSeq(text, c + 1, Len(text)) = right
  BY <1>1, <1>2, Between
<1>4. QED
  BY <1>3 DEF Among, left, right, text, c

\* A snippet between two texts, each padded where it is not empty.
Padding(text, n) == IF text = <<>> THEN <<>> ELSE F!Newlines(F!Missing(n))
InsertedText(before, after) ==
  before \o Padding(before, F!Trailing(before)) \o <<"snippet">> \o Padding(after, F!Leading(after)) \o after
Inserted(before, after) ==
  [before |-> before, after |-> after,
   caret |-> Len(before) + Len(Padding(before, F!Trailing(before))) + 1, body |-> InsertedText(before, after)]

LEMMA InsertedApart ==
  ASSUME NEW before \in Seq(Letters), NEW after \in Seq(Letters)
  PROVE  /\ InsertedText(before, after) \in Seq(Letters)
         /\ ReadsAsTyped(Inserted(before, after)) /\ StandsApart(Inserted(before, after))
<1> DEFINE prefix == Padding(before, F!Trailing(before))
           suffix == Padding(after, F!Leading(after))
           left == before \o prefix
           right == suffix \o after
           c == Len(before) + Len(prefix) + 1
           text == InsertedText(before, after)
           l == Inserted(before, after)
<1>1. "newline" \in Letters /\ "snippet" \in Letters /\ <<>> \in Seq(Letters)
  BY DEF Letters
<1>2. prefix \in Seq(Letters) /\ (before # <<>> => F!Trailing(left) >= 2)
  BY <1>1, TrailingPadded, NewlinesIs DEF Padding
<1>3. suffix \in Seq(Letters) /\ (after # <<>> => F!Leading(right) >= 2)
  BY <1>1, LeadingPadded, NewlinesIs DEF Padding
<1>4. text = before \o prefix \o <<"snippet">> \o suffix \o after
  BY DEF InsertedText
<1> HIDE DEF prefix, suffix, text
<1>5. F!IsPrefix(before, left) /\ F!IsSuffix(after, right)
  BY <1>2, <1>3, PrefixOf, SuffixOf
<1>6. /\ text \in Seq(Letters) /\ text[c] = "snippet"
      /\ SubSeq(text, 1, c - 1) = left /\ SubSeq(text, c + 1, Len(text)) = right
  <2>1. prefix \in Seq(Letters) /\ suffix \in Seq(Letters)
    BY <1>2, <1>3
  <2> DEFINE whole == before \o prefix \o <<"snippet">> \o suffix \o after
  <2>2. /\ whole \in Seq(Letters) /\ whole[c] = "snippet"
        /\ SubSeq(whole, 1, c - 1) = left /\ SubSeq(whole, c + 1, Len(whole)) = right
    <3>1. Among(Letters, before, prefix, "snippet", suffix, after)
      BY <1>1, <2>1, AmongFour
    <3>2. QED
      BY <3>1 DEF Among
  <2>3. QED
    BY <1>4, <2>2
<1>7. l.before = before /\ l.after = after /\ l.caret = c /\ l.body = text /\ "fields" \notin DOMAIN l
  BY DEF Inserted, prefix, text
<1> HIDE DEF left, right, c, l
<1>8. ReadsAsTyped(l) /\ StandsApart(l)
  BY <1>2, <1>3, <1>5, <1>6, <1>7 DEF ReadsAsTyped, StandsApart
<1>9. QED
  BY <1>6, <1>8 DEF l, text

-----------------------------------------------------------------------------
(* Frontmatter: the invariant. *)

\* The words of the lines are those of some set, which grows with every reading:
\* a text that is read keeps marks of the style it had.
FieldsTyped(T) ==
  /\ Word \subseteq T
  /\ F!Lines \in Seq(F!LineOf(T))
  /\ dialog = None \/ \E schema \in Schemas : \E values \in [DOMAIN schema -> Seq(T)] :
                        dialog = [fields |-> schema, values |-> values]
  /\ body \in Seq(Letters)
  /\ edits \in 0..MaxEdits

FieldsInv == (\E T : FieldsTyped(T)) /\ ReadsAsTyped(last) /\ StandsApart(last)

LEMMA SchemaGiven ==
  ASSUME NEW schema \in Schemas
  PROVE  /\ None \notin Key /\ schema \in Seq(F!Field) /\ F!WellFormed(schema)
         /\ DOMAIN schema = 1..Len(schema) /\ Len(schema) \in Nat
         /\ \A f \in DOMAIN schema : schema[f] \in F!Field
<1>1. None \notin Key /\ schema \in Seq(F!Field) /\ F!WellFormed(schema)
  BY FieldsAssumption DEF F!Given, F!Offered
<1>2. QED
  BY <1>1

LEMMA InitFields == F!Init => FieldsInv
<1> SUFFICES ASSUME F!Init PROVE FieldsInv
  OBVIOUS
<1>1. dialog = None /\ last = None /\ edits \in 0..MaxEdits
  BY FieldsAssumption DEF F!Init, F!Given
<1>2. body \in Seq(Letters)
  <2>1. CASE body = <<>>
    BY <2>1
  <2>2. CASE body \in Bodies
    <3>1. body \in Seq({"word", "newline"})
      BY <2>2, FieldsAssumption DEF F!Given, F!Newline
    <3>2. {"word", "newline"} \subseteq Letters
      BY DEF Letters
    <3>3. QED
      BY <3>1, <3>2, SeqMonotonic
  <2>3. QED
    BY <2>1, <2>2 DEF F!Init
<1>3. F!Lines \in Seq(F!LineOf(Word))
  <2>1. CASE content = None
    BY <2>1 DEF F!Lines
  <2>2. CASE content # None
    BY <2>2, FieldsAssumption DEF F!Init, F!Given, F!Lines
  <2>3. QED
    BY <2>1, <2>2
<1>4. FieldsTyped(Word)
  BY <1>1, <1>2, <1>3 DEF FieldsTyped
<1>5. ReadsAsTyped(last) /\ StandsApart(last)
  BY <1>1 DEF ReadsAsTyped, StandsApart
<1>6. QED
  BY <1>4, <1>5 DEF FieldsInv

\* Lines of words are lines of more words.
LEMMA MoreWords ==
  ASSUME NEW T, NEW W, T \subseteq W
  PROVE  Seq(T) \subseteq Seq(W) /\ Seq(F!LineOf(T)) \subseteq Seq(F!LineOf(W))
<1>1. Seq(T) \subseteq Seq(W)
  BY SeqMonotonic
<1>2. Seq(Seq(T)) \subseteq Seq(Seq(W))
  <2> DEFINE A == Seq(T)
             B == Seq(W)
  <2>1. A \subseteq B
    BY <1>1
  <2> HIDE DEF A, B
  <2>2. Seq(A) \subseteq Seq(B)
    BY <2>1, SeqMonotonic
  <2>3. QED
    BY <2>2 DEF A, B
<1>3. F!LineOf(T) \subseteq F!LineOf(W)
  BY <1>2 DEF F!LineOf
<1>4. Seq(F!LineOf(T)) \subseteq Seq(F!LineOf(W))
  <2> DEFINE A == F!LineOf(T)
             B == F!LineOf(W)
  <2>1. A \subseteq B
    BY <1>3
  <2> HIDE DEF A, B
  <2>2. Seq(A) \subseteq Seq(B)
    BY <2>1, SeqMonotonic
  <2>3. QED
    BY <2>2 DEF A, B
<1>5. QED
  BY <1>1, <1>4

\* The dialog reads sequences of words.
LEMMA ReadWords ==
  ASSUME NEW T, Word \subseteq T, NEW schema \in Schemas, NEW lines \in Seq(F!LineOf(T))
  PROVE  F!ReadValues(schema, lines) \in [DOMAIN schema -> Seq(T \cup ({"quoted", "bracket"} \X T))]
<1> DEFINE W == T \cup ({"quoted", "bracket"} \X T)
<1>1. Len(lines) \in Nat /\ DOMAIN lines = 1..Len(lines) /\ \A i \in DOMAIN lines : lines[i] \in F!LineOf(T)
  OBVIOUS
<1>2. ASSUME NEW f \in DOMAIN schema
      PROVE  F!ReadValue(schema[f], lines) \in Seq(W)
  <2> DEFINE found == {n \in DOMAIN lines : lines[n].key = schema[f].key}
             n == F!Max(found)
  <2>1. schema[f] \in F!Field
    BY SchemaGiven
  <2>2. CASE found = {}
    <3>1. F!ReadValue(schema[f], lines) = schema[f].default
      BY <2>2 DEF F!ReadValue
    <3>2. schema[f].default \in {<<>>} \cup {<<w>> : w \in Word}
      BY <2>1 DEF F!Field
    <3>3. \A w \in Word : <<w>> \in Seq(W)
      OBVIOUS
    <3>4. <<>> \in Seq(W)
      OBVIOUS
    <3>5. CASE schema[f].default = <<>>
      BY <3>1, <3>4, <3>5
    <3>6. CASE schema[f].default # <<>>
      <4>1. PICK w \in Word : schema[f].default = <<w>>
        BY <3>2, <3>6
      <4>2. <<w>> \in Seq(W)
        BY <3>3
      <4> HIDE DEF W
      <4>3. QED
        BY <3>1, <4>1, <4>2
    <3>7. QED
      BY <3>5, <3>6
  <2>3. CASE found # {}
    <3>1. found \in SUBSET (0..Len(lines))
      BY <1>1
    <3>2. n \in found
      <4> HIDE DEF found
      <4>1. QED
        BY <1>1, <2>3, <3>1, GreatestPosition
    <3>3. F!ReadValue(schema[f], lines) = F!DecodeValue(schema[f], lines[n])
      BY <2>3 DEF F!ReadValue
    <3>4. lines[n] \in F!LineOf(T)
      BY <1>1, <3>2
    <3> HIDE DEF n
    <3>5. QED
      BY <2>1, <3>3, <3>4, DecodedType
  <2>4. QED
    BY <2>2, <2>3
<1> HIDE DEF W
<1>3. F!ReadValues(schema, lines) \in [DOMAIN schema -> Seq(W)]
  BY <1>2 DEF F!ReadValues
<1>4. QED
  BY <1>3 DEF W

LEMMA SelectFields ==
  ASSUME FieldsInv, NEW schema \in Schemas, F!SelectSchema(schema)
  PROVE  FieldsInv'
<1>1. PICK T : FieldsTyped(T)
  BY DEF FieldsInv
<1> DEFINE W == T \cup ({"quoted", "bracket"} \X T)
           values == F!ReadValues(schema, F!Lines)
<1>2. T \subseteq W /\ Seq(F!LineOf(T)) \subseteq Seq(F!LineOf(W))
  BY MoreWords
<1>3. values \in [DOMAIN schema -> Seq(W)]
  BY <1>1, ReadWords DEF FieldsTyped
<1>4. dialog' = [fields |-> schema, values |-> values] /\ UNCHANGED <<content, body, last, edits>>
  BY DEF F!SelectSchema
<1> HIDE DEF W, values
<1>5. FieldsTyped(W)'
  BY <1>1, <1>2, <1>3, <1>4 DEF FieldsTyped, F!Lines
<1>6. QED
  BY <1>4, <1>5 DEF FieldsInv

LEMMA ChangeFields ==
  ASSUME FieldsInv,
         NEW i \in 1..2, NEW value \in F!Typed,
         F!ChangeValue(i, value)
  PROVE  FieldsInv'
<1>1. PICK T : FieldsTyped(T)
  BY DEF FieldsInv
<1>2. value \in Seq(T)
  <2>1. \A w \in Word : w \in T
    BY <1>1 DEF FieldsTyped
  <2>2. CASE value = <<>>
    BY <2>2
  <2>3. CASE \E w \in Word : value = <<w>>
    BY <2>1, <2>3
  <2>4. CASE \E v, w \in Word : value = <<v, w>>
    BY <2>1, <2>4
  <2>5. QED
    BY <2>2, <2>3, <2>4 DEF F!Typed
<1>3. PICK schema \in Schemas : \E values \in [DOMAIN schema -> Seq(T)] : dialog = [fields |-> schema, values |-> values]
  BY <1>1 DEF FieldsTyped, F!ChangeValue
<1>4. PICK values \in [DOMAIN schema -> Seq(T)] : dialog = [fields |-> schema, values |-> values]
  BY <1>3
<1> DEFINE newer == [values EXCEPT ![i] = value]
<1>5. newer \in [DOMAIN schema -> Seq(T)]
  BY <1>2, <1>4
<1>6. dialog' = [fields |-> schema, values |-> newer]
  BY <1>4 DEF F!ChangeValue
<1>7. edits' \in 0..MaxEdits /\ UNCHANGED <<content, body, last>>
  BY <1>1, FieldsAssumption DEF F!ChangeValue, F!Edit, FieldsTyped, F!Given
<1> HIDE DEF newer
<1>8. FieldsTyped(T)'
  BY <1>1, <1>3, <1>5, <1>6, <1>7 DEF FieldsTyped, F!Lines
<1>9. QED
  BY <1>7, <1>8 DEF FieldsInv

LEMMA ApplyFields ==
  ASSUME FieldsInv, F!Apply
  PROVE  FieldsInv'
<1>1. PICK T : FieldsTyped(T)
  BY DEF FieldsInv
<1>2. PICK schema \in Schemas : \E values \in [DOMAIN schema -> Seq(T)] : dialog = [fields |-> schema, values |-> values]
  BY <1>1 DEF FieldsTyped, F!Apply
<1>3. PICK values \in [DOMAIN schema -> Seq(T)] : dialog = [fields |-> schema, values |-> values]
  BY <1>2
<1> DEFINE lines == F!Lines
           after == F!Applied(schema, values, lines)
<1>4. Applying(T, schema, values, lines)
  BY <1>1, <1>3, SchemaGiven DEF Applying, FieldsTyped
<1>5. after \in Seq(F!LineOf(T))
  BY <1>4, AppliedParts DEF Parts
<1>6. content' = after /\ last' = [fields |-> schema, values |-> values, before |-> lines, after |-> after]
      /\ dialog' = None /\ body' = body
  BY <1>3 DEF F!Apply
<1>7. ReadsAsTyped(last') /\ StandsApart(last')
  BY <1>4, <1>6, AppliedExact
<1>8. edits' \in 0..MaxEdits
  BY <1>1, FieldsAssumption DEF F!Apply, F!Edit, FieldsTyped, F!Given
<1> HIDE DEF lines, after
<1>9. F!Lines' \in Seq(F!LineOf(T))
  <2>1. F!Lines' = <<>> \/ F!Lines' = content'
    BY DEF F!Lines
  <2>2. <<>> \in Seq(F!LineOf(T))
    OBVIOUS
  <2>3. QED
    BY <1>5, <1>6, <2>1, <2>2
<1>10. FieldsTyped(T)'
  BY <1>1, <1>6, <1>8, <1>9 DEF FieldsTyped
<1>11. QED
  BY <1>7, <1>10 DEF FieldsInv

LEMMA InsertFields ==
  ASSUME FieldsInv, NEW from \in 0..4, NEW to \in 0..4, F!InsertSnippet(from, to)
  PROVE  FieldsInv'
<1>1. PICK T : FieldsTyped(T)
  BY DEF FieldsInv
<1> DEFINE before == SubSeq(body, 1, from)
           after == SubSeq(body, to + 1, Len(body))
<1>2. before \in Seq(Letters) /\ after \in Seq(Letters)
  <2>1. body \in Seq(Letters) /\ Len(body) \in Nat /\ from <= Len(body) /\ to <= Len(body)
        /\ \A k \in 1..Len(body) : body[k] \in Letters
    BY <1>1 DEF FieldsTyped, F!InsertSnippet
  <2>2. \A k \in 1..from : body[k] \in Letters
    BY <2>1
  <2>3. \A k \in (to + 1)..Len(body) : body[k] \in Letters
    BY <2>1
  <2>4. from \in Int /\ to + 1 \in Int /\ Len(body) \in Int
    BY <2>1
  <2>5. QED
    BY <2>2, <2>3, <2>4, SubSeqProperties
<1>3. body' = InsertedText(before, after) /\ last' = Inserted(before, after) /\ UNCHANGED <<content, dialog>>
  BY DEF F!InsertSnippet, InsertedText, Inserted, Padding
<1>4. edits' \in 0..MaxEdits
  BY <1>1, FieldsAssumption DEF F!InsertSnippet, F!Edit, FieldsTyped, F!Given
<1> HIDE DEF before, after
<1>5. body' \in Seq(Letters) /\ ReadsAsTyped(last') /\ StandsApart(last')
  BY <1>2, <1>3, InsertedApart
<1>6. FieldsTyped(T)'
  BY <1>1, <1>3, <1>4, <1>5 DEF FieldsTyped, F!Lines
<1>7. QED
  BY <1>5, <1>6 DEF FieldsInv

LEMMA StepFields ==
  ASSUME FieldsInv, [F!Next]_(F!vars)
  PROVE  FieldsInv'
<1>1. CASE UNCHANGED F!vars \/ F!CloseDialog
  <2>1. PICK T : FieldsTyped(T)
    BY DEF FieldsInv
  <2>2. UNCHANGED <<content, body, last, edits>> /\ (dialog' = dialog \/ dialog' = None)
    BY <1>1 DEF F!vars, F!CloseDialog
  <2>3. FieldsTyped(T)'
    BY <2>1, <2>2 DEF FieldsTyped, F!Lines
  <2>4. QED
    BY <2>2, <2>3 DEF FieldsInv
<1>2. CASE \E schema \in Schemas : F!SelectSchema(schema)
  BY <1>2, SelectFields
<1>3. CASE \E i \in 1..2, value \in F!Typed : F!ChangeValue(i, value)
  BY <1>3, ChangeFields
<1>4. CASE F!Apply
  BY <1>4, ApplyFields
<1>5. CASE \E from, to \in 0..4 : F!InsertSnippet(from, to)
  BY <1>5, InsertFields
<1>6. QED
  BY <1>1, <1>2, <1>3, <1>4, <1>5 DEF F!Next

LEMMA FieldsType == FieldsInv => F!TypeOK
<1> SUFFICES ASSUME FieldsInv PROVE F!TypeOK
  OBVIOUS
<1>1. PICK T : FieldsTyped(T)
  BY DEF FieldsInv
<1>2. \A schema \in Schemas : F!Offered(schema)
  BY FieldsAssumption DEF F!Given
<1>3. \A i \in DOMAIN F!Lines : F!Lines[i].key \in Key \cup {None}
  <2> DEFINE lines == F!Lines
  <2>1. lines \in Seq(F!LineOf(T))
    BY <1>1 DEF FieldsTyped
  <2> HIDE DEF lines
  <2>2. \A i \in DOMAIN lines : lines[i] \in F!LineOf(T)
    BY <2>1
  <2>3. \A i \in DOMAIN lines : lines[i].key \in Key \cup {None}
    BY <2>2 DEF F!LineOf
  <2>4. QED
    BY <2>3 DEF lines
<1>4. \A i \in DOMAIN body : body[i] \in {"word", "snippet", "newline"}
  BY <1>1 DEF FieldsTyped, Letters
<1>5. dialog # None => dialog.fields \in Schemas /\ DOMAIN dialog.values = DOMAIN dialog.fields
  <2> SUFFICES ASSUME dialog # None PROVE dialog.fields \in Schemas /\ DOMAIN dialog.values = DOMAIN dialog.fields
    OBVIOUS
  <2>1. PICK schema \in Schemas : \E values \in [DOMAIN schema -> Seq(T)] : dialog = [fields |-> schema, values |-> values]
    BY <1>1 DEF FieldsTyped
  <2>2. QED
    BY <2>1
<1>6. QED
  BY <1>1, <1>2, <1>3, <1>4, <1>5 DEF F!TypeOK, FieldsTyped, F!Newline

\* After a schema was applied the front matter reads as it was typed, the lines of
\* other keys are the same, and applying it again changes nothing; a snippet stands
\* apart from the text around it and leaves the caret behind it
\* (applyFrontmatterSchema, insertMarkdownSnippet).
THEOREM EditsSafe == FocusSpec => []EditsExact
<1> DEFINE Inv == focus = "fields" => FieldsInv
<1>1. FocusInit => Inv
  BY InitFields DEF FocusInit
<1>2. Inv /\ [FocusNext]_focusVars => Inv'
  BY FocusStays, StepFields
<1>3. Inv => EditsExact
  BY ExactIs DEF EditsExact, FieldsInv
<1>4. QED
  BY <1>1, <1>2, <1>3, PTL DEF FocusSpec

-----------------------------------------------------------------------------
(* Types. *)

\* Media stays as it begins while a page is in focus, and a page leaves alone the
\* counter it does not count with.
LEMMA OthersStay ==
  ASSUME [FocusNext]_focusVars
  PROVE  /\ focus = "media" => [Next]_vars
         /\ focus # "media" => UNCHANGED mediaVars
         /\ focus \notin {"media", "panels"} => started' = started
         /\ focus = "fields" => faults' = faults
<1>1. CASE FocusNext
  BY <1>1 DEF FocusNext, bounds
<1>2. CASE UNCHANGED focusVars
  BY <1>2 DEF focusVars, mediaVars, vars, bounds
<1>3. QED
  BY <1>1, <1>2

LEMMA InitQueryTypes == Q!Init => Q!TypeOK
<1> SUFFICES ASSUME Q!Init PROVE Q!TypeOK
  OBVIOUS
<1>1. page \in {"search", "insights", "media", "palette"} /\ query \in Query \cup {None} /\ live \subseteq Query
  BY DEF Q!Init
<1>2. more \in Query \cup {None} /\ hits \subseteq Query /\ {steps, faults} \subseteq Nat
  BY DEF Q!Init
<1>3. pause \in BOOLEAN /\ loading \in BOOLEAN
  BY DEF Q!Init
<1>4. failed \in BOOLEAN /\ open \in BOOLEAN /\ loaded \in BOOLEAN /\ blended \in BOOLEAN
  BY DEF Q!Init
<1>5. QED
  BY <1>1, <1>2, <1>3, <1>4 DEF Q!TypeOK

\* A query that is asked again, after a pause or for older items, is none that was
\* made up.
LEMMA StepQueryTypes ==
  ASSUME Q!TypeOK, LatestInv, [Q!Next]_(Q!vars)
  PROVE  Q!TypeOK'
<1>1. CASE UNCHANGED Q!vars
  BY <1>1 DEF Q!vars, Q!TypeOK
<1> SUFFICES ASSUME Q!Next PROVE Q!TypeOK'
  BY <1>1
<1>2. page' \in {"search", "insights", "media", "palette"} /\ steps' \in Nat /\ faults' \in Nat
  BY DEF Q!Next, Q!Search, Q!Step, Q!Abort, Q!Pause, Q!LoadAnalytics, Q!LoadMedia, Q!NextSignal, Q!LoadMoreAssets, Q!AnswerMore,
         Q!Answer, Q!Fail, Q!Toggle, Q!LoadDocuments, Q!SeeAbort,
         Q!TypeOK, LatestInv
<1>3. query' \in Query \cup {None} /\ more' \in Query \cup {None}
  BY DEF Q!Next, Q!Search, Q!Step, Q!Abort, Q!Pause, Q!LoadAnalytics, Q!LoadMedia, Q!NextSignal, Q!LoadMoreAssets, Q!AnswerMore,
         Q!Answer, Q!Fail, Q!Toggle, Q!LoadDocuments, Q!SeeAbort,
         Q!TypeOK, LatestInv
<1>4. live' \subseteq Query
  BY DEF Q!Next, Q!Search, Q!Step, Q!Abort, Q!Pause, Q!LoadAnalytics, Q!LoadMedia, Q!NextSignal, Q!LoadMoreAssets, Q!AnswerMore,
         Q!Answer, Q!Fail, Q!Toggle, Q!LoadDocuments, Q!SeeAbort,
         Q!TypeOK, LatestInv
<1>5. hits' \subseteq Query
  BY DEF Q!Next, Q!Search, Q!Step, Q!Abort, Q!Pause, Q!LoadAnalytics, Q!LoadMedia, Q!NextSignal, Q!LoadMoreAssets, Q!AnswerMore,
         Q!Answer, Q!Fail, Q!Toggle, Q!LoadDocuments, Q!SeeAbort,
         Q!TypeOK, LatestInv
<1>6. pause' \in BOOLEAN
  BY DEF Q!Next, Q!Search, Q!Step, Q!Abort, Q!Pause, Q!LoadAnalytics, Q!LoadMedia, Q!NextSignal, Q!LoadMoreAssets, Q!AnswerMore,
         Q!Answer, Q!Fail, Q!Toggle, Q!LoadDocuments, Q!SeeAbort,
         Q!TypeOK, LatestInv
<1>7. loading' \in BOOLEAN
  BY DEF Q!Next, Q!Search, Q!Step, Q!Abort, Q!Pause, Q!LoadAnalytics, Q!LoadMedia, Q!NextSignal, Q!LoadMoreAssets, Q!AnswerMore,
         Q!Answer, Q!Fail, Q!Toggle, Q!LoadDocuments, Q!SeeAbort,
         Q!TypeOK, LatestInv
<1>8. failed' \in BOOLEAN
  BY DEF Q!Next, Q!Search, Q!Step, Q!Abort, Q!Pause, Q!LoadAnalytics, Q!LoadMedia, Q!NextSignal, Q!LoadMoreAssets, Q!AnswerMore,
         Q!Answer, Q!Fail, Q!Toggle, Q!LoadDocuments, Q!SeeAbort,
         Q!TypeOK, LatestInv
<1>9. open' \in BOOLEAN /\ loaded' \in BOOLEAN
  BY DEF Q!Next, Q!Search, Q!Step, Q!Abort, Q!Pause, Q!LoadAnalytics, Q!LoadMedia, Q!NextSignal, Q!LoadMoreAssets, Q!AnswerMore,
         Q!Answer, Q!Fail, Q!Toggle, Q!LoadDocuments, Q!SeeAbort,
         Q!TypeOK, LatestInv
<1>10. blended' \in BOOLEAN
  BY DEF Q!Next, Q!Search, Q!Step, Q!Abort, Q!Pause, Q!LoadAnalytics, Q!LoadMedia, Q!NextSignal, Q!LoadMoreAssets, Q!AnswerMore,
         Q!Answer, Q!Fail, Q!Toggle, Q!LoadDocuments, Q!SeeAbort,
         Q!TypeOK, LatestInv
<1>11. QED
  BY <1>2, <1>3, <1>4, <1>5, <1>6, <1>7, <1>8, <1>9, <1>10 DEF Q!TypeOK

LEMMA InitUserTypes == U!Init => U!TypeOK
<1> SUFFICES ASSUME U!Init PROVE U!TypeOK
  OBVIOUS
<1>1. user \in U!User
  BY DEF U!Init, U!User
<1>2. gets \subseteq U!Get
  BY DEF U!Init, U!Get
<1>3. /\ profile \in U!User \cup {None} /\ fields \in U!Form \cup {None} /\ patch \in U!Patch \cup {None}
      /\ files \subseteq Avatar /\ {steps, faults} \subseteq Nat
  BY DEF U!Init
<1>4. broken \in BOOLEAN /\ behind \in BOOLEAN /\ unasked \in BOOLEAN
  BY DEF U!Init
<1>5. QED
  BY <1>1, <1>2, <1>3, <1>4 DEF U!TypeOK

\* The answers under way are typed like the records they have read.
LEMMA StepUserTypes ==
  ASSUME U!TypeOK, ProfileInv', [U!Next]_(U!vars)
  PROVE  U!TypeOK'
<1>1. CASE UNCHANGED U!vars
  BY <1>1 DEF U!vars, U!TypeOK
<1> SUFFICES ASSUME U!Next PROVE U!TypeOK'
  BY <1>1
<1>2. /\ user' \in U!User /\ profile' \in U!User \cup {None}
      /\ fields' \in U!Form \cup {None} /\ patch' \in U!Patch \cup {None}
  BY DEF ProfileInv, ProfileTyped
<1>3. gets' \subseteq U!Get
  <2>1. CASE UNCHANGED gets
    BY <2>1 DEF U!TypeOK
  <2>2. CASE U!EndSave
    BY <2>2 DEF U!EndSave, U!Reload, U!Get, U!TypeOK
  <2>3. ASSUME NEW g \in gets, U!GetProfile(g) PROVE gets' \subseteq U!Get
    <3>1. [g EXCEPT !.seen = user] \in U!Get
      BY DEF U!Get, U!TypeOK
    <3>2. QED
      BY <2>3, <3>1 DEF U!GetProfile, U!TypeOK
  <2>4. ASSUME NEW g \in gets, U!SetProfile(g) \/ U!FailGet(g) PROVE gets' \subseteq U!Get
    BY <2>4 DEF U!SetProfile, U!FailGet, U!TypeOK
  <2>5. QED
    BY <2>1, <2>2, <2>3, <2>4
       DEF U!Next, U!OpenEdit, U!Close, U!Save, U!UpdateProfile, U!FailSave, U!Type, U!PickAvatar, U!AvatarReady
<1>4. files' \subseteq Avatar
  BY DEF U!Next, U!OpenEdit, U!Close, U!Save, U!UpdateProfile, U!EndSave, U!FailSave, U!Type, U!PickAvatar,
         U!AvatarReady, U!GetProfile, U!SetProfile, U!FailGet, U!TypeOK
<1>5. steps' \in Nat /\ faults' \in Nat
  <2>1. (steps' = steps \/ steps' = steps + 1) /\ (faults' = faults \/ faults' = faults + 1)
    BY DEF U!Next, U!OpenEdit, U!Close, U!Save, U!UpdateProfile, U!EndSave, U!FailSave, U!Type, U!PickAvatar,
           U!AvatarReady, U!GetProfile, U!SetProfile, U!FailGet
  <2>2. QED
    BY <2>1 DEF U!TypeOK
<1>6. behind' \in BOOLEAN
  BY DEF U!Next, U!OpenEdit, U!Close, U!Save, U!UpdateProfile, U!EndSave, U!FailSave, U!Type, U!PickAvatar,
         U!AvatarReady, U!GetProfile, U!SetProfile, U!FailGet, U!TypeOK
<1>7. unasked' \in BOOLEAN
  BY DEF U!Next, U!OpenEdit, U!Close, U!Save, U!UpdateProfile, U!EndSave, U!FailSave, U!Type, U!PickAvatar,
         U!AvatarReady, U!GetProfile, U!SetProfile, U!FailGet, U!TypeOK
<1>8. broken' \in BOOLEAN
  BY DEF U!Next, U!OpenEdit, U!Close, U!Save, U!UpdateProfile, U!EndSave, U!FailSave, U!Type, U!PickAvatar,
         U!AvatarReady, U!GetProfile, U!SetProfile, U!FailGet, U!TypeOK
<1>9. QED
  BY <1>2, <1>3, <1>4, <1>5, <1>6, <1>7, <1>8 DEF U!TypeOK

\* The editor and the history hold what belongs to them: texts of documents, and
\* revisions of the one document in the address.
DocTyped ==
  /\ D!TypeOK
  /\ kind = "editor" => doc \in Path \cup {None} /\ \A c \in calls : c.what \in Path
  /\ kind = "history" => path \in Path /\ doc \in Revision \cup {None} /\ \A c \in calls : c.what \in Revision

LEMMA InitDocTypes == D!Init => DocTyped
<1> SUFFICES ASSUME D!Init PROVE DocTyped
  OBVIOUS
<1>1. PICK k \in {"editor", "reader", "history"}, p \in Path \cup {None} :
        /\ kind = k /\ path = p /\ filePath = p
        /\ p = None => k = "editor"
        /\ calls = IF p = None \/ k = "history" THEN {} ELSE {[what |-> p, n |-> 0]}
  BY DEF D!Init
<1>2. calls \subseteq D!Load /\ (\A c \in calls : c.what \in Path) /\ (k = "history" => calls = {})
  BY <1>1 DEF D!Load, D!What
<1>3. /\ version \in BOOLEAN /\ doc = None /\ saving = None /\ timer = "off" /\ selected = None
      /\ stored \in [Path -> Path \cup {None}] /\ odd \subseteq Path /\ restored = {}
  BY DEF D!Init
<1>4. renamed \in BOOLEAN /\ mixed \in BOOLEAN
  BY DEF D!Init
<1>5. {shows, dwells, blinks, steps, faults} \subseteq Nat
  BY DEF D!Init
<1>6. D!TypeOK
  <2>1. kind \in {"editor", "reader", "history"} /\ path \in Path \cup {None} /\ filePath \in Path \cup {None}
    BY <1>1
  <2>2. doc \in D!What \cup {None} /\ saving \in [path: Path, text: Path \cup {None}, fresh: BOOLEAN] \cup {None}
    BY <1>3
  <2>3. timer \in {"off", "on", "sent"} /\ selected \in Revision \cup {None} /\ restored \subseteq Revision \X Revision
    BY <1>3
  <2>4. QED
    BY <1>2, <1>3, <1>4, <1>5, <2>1, <2>2, <2>3 DEF D!TypeOK
<1>7. QED
  BY <1>1, <1>2, <1>3, <1>6 DEF DocTyped

LEMMA Asked == ASSUME D!TypeOK, NEW w \in D!What PROVE D!Ask(w) \in D!Load /\ D!Ask(w).what = w
BY DEF D!Ask, D!Load, D!TypeOK

\* What a step asks for next, if anything, and what it brings, is of the page it is on.
LEMMA StepDocTypes ==
  ASSUME DocTyped, DocInv, [D!Next]_(D!vars)
  PROVE  DocTyped'
<1>1. CASE UNCHANGED D!vars
  BY <1>1 DEF D!vars, D!history, D!TypeOK, DocTyped, D!Load, D!What
<1> SUFFICES ASSUME D!Next PROVE DocTyped'
  BY <1>1
<1>2. kind' = kind /\ kind \in {"editor", "reader", "history"}
  BY DEF DocTyped, D!TypeOK, D!Next, D!OpenInEditor, D!TypePath, D!OpenInReader, D!Select, D!TypeText, D!StartSave, D!EndSave, D!FailSave,
         D!Hide, D!Restore, D!Arrive, D!Reject, D!Step, D!history
<1>3. saving # None => saving \in [path: Path, text: Path \cup {None}, fresh: BOOLEAN] /\ kind = "editor"
  BY DEF DocTyped, D!TypeOK, DocInv, SavingGood
<1>4. path' \in Path \cup {None} /\ (kind = "history" => path' = path)
  BY <1>3 DEF DocTyped, D!TypeOK, D!Next, D!OpenInEditor, D!TypePath, D!OpenInReader, D!Select, D!TypeText, D!StartSave, D!EndSave, D!FailSave,
         D!Hide, D!Restore, D!Arrive, D!Reject, D!Step, D!history
<1>5. version' \in BOOLEAN
  BY DEF DocTyped, D!TypeOK, D!Next, D!OpenInEditor, D!TypePath, D!OpenInReader, D!Select, D!TypeText, D!StartSave, D!EndSave, D!FailSave,
         D!Hide, D!Restore, D!Arrive, D!Reject, D!Step, D!history
<1>6. filePath' \in Path \cup {None}
  BY <1>3 DEF DocTyped, D!TypeOK, D!Next, D!OpenInEditor, D!TypePath, D!OpenInReader, D!Select, D!TypeText, D!StartSave, D!EndSave, D!FailSave,
         D!Hide, D!Restore, D!Arrive, D!Reject, D!Step, D!history
<1>7. \/ calls' \subseteq calls
      \/ \E w \in D!What : /\ calls' = calls \cup {D!Ask(w)}
                           /\ kind = "editor" => w \in Path
                           /\ kind = "history" => w \in Revision
  BY <1>3 DEF D!What, D!Next, D!OpenInEditor, D!TypePath, D!OpenInReader, D!Select, D!TypeText, D!StartSave, D!EndSave, D!FailSave,
         D!Hide, D!Restore, D!Arrive, D!Reject, D!Step, D!history
<1>8. /\ calls' \subseteq D!Load
      /\ kind = "editor" => \A c \in calls' : c.what \in Path
      /\ kind = "history" => \A c \in calls' : c.what \in Revision
  BY <1>7, Asked DEF DocTyped, D!TypeOK
<1>9. doc' \in {doc, None} \/ (kind = "editor" /\ doc' \in Path) \/ \E c \in calls : doc' = c.what
  BY DEF DocTyped, D!TypeOK, D!Next, D!OpenInEditor, D!TypePath, D!OpenInReader, D!Select, D!TypeText, D!StartSave, D!EndSave, D!FailSave,
         D!Hide, D!Restore, D!Arrive, D!Reject, D!Step, D!history
<1>10. /\ doc' \in D!What \cup {None}
       /\ kind = "editor" => doc' \in Path \cup {None}
       /\ kind = "history" => doc' \in Revision \cup {None}
  BY <1>9 DEF DocTyped, D!TypeOK, D!Load, D!What
<1>11. saving' \in [path: Path, text: Path \cup {None}, fresh: BOOLEAN] \cup {None}
  <2>1. CASE D!StartSave
    BY <2>1 DEF D!StartSave, DocTyped, D!TypeOK
  <2>2. CASE saving' = None \/ saving' = saving
    BY <2>2 DEF DocTyped, D!TypeOK
  <2>3. QED
    BY <2>1, <2>2 DEF D!Next, D!OpenInEditor, D!TypePath, D!OpenInReader, D!Select, D!TypeText, D!StartSave, D!EndSave, D!FailSave,
         D!Hide, D!Restore, D!Arrive, D!Reject, D!Step, D!history
<1>12. timer' \in {"off", "on", "sent"} /\ selected' \in Revision \cup {None}
  BY DEF DocTyped, D!TypeOK, D!Next, D!OpenInEditor, D!TypePath, D!OpenInReader, D!Select, D!TypeText, D!StartSave, D!EndSave, D!FailSave,
         D!Hide, D!Restore, D!Arrive, D!Reject, D!Step, D!history
<1>13. stored' \in [Path -> Path \cup {None}]
  <2>1. \/ stored' = stored
        \/ \E p \in Path, t \in Path \cup {None} : stored' = [stored EXCEPT ![p] = t]
    BY <1>3 DEF DocTyped, D!Next, D!OpenInEditor, D!TypePath, D!OpenInReader, D!Select, D!TypeText, D!StartSave, D!EndSave, D!FailSave,
         D!Hide, D!Restore, D!Arrive, D!Reject, D!Step, D!history
  <2>2. QED
    BY <2>1 DEF DocTyped, D!TypeOK
<1>14. renamed' \in BOOLEAN
  BY DEF DocTyped, D!TypeOK, D!Next, D!OpenInEditor, D!TypePath, D!OpenInReader, D!Select, D!TypeText, D!StartSave, D!EndSave, D!FailSave,
         D!Hide, D!Restore, D!Arrive, D!Reject, D!Step, D!history
<1>15. mixed' \in BOOLEAN
  BY DEF DocTyped, D!TypeOK, D!Next, D!OpenInEditor, D!TypePath, D!OpenInReader, D!Select, D!TypeText, D!StartSave, D!EndSave, D!FailSave,
         D!Hide, D!Restore, D!Arrive, D!Reject, D!Step, D!history
<1>16. odd' \subseteq Path
  BY DEF DocTyped, D!TypeOK, D!Next, D!OpenInEditor, D!TypePath, D!OpenInReader, D!Select, D!TypeText, D!StartSave, D!EndSave, D!FailSave,
         D!Hide, D!Restore, D!Arrive, D!Reject, D!Step, D!history
<1>17. /\ shows' = shows \/ shows' = shows + 1
       /\ dwells' = dwells \/ dwells' = dwells + D!Seconds
  BY DEF D!Next, D!OpenInEditor, D!TypePath, D!OpenInReader, D!Select, D!TypeText, D!StartSave, D!EndSave, D!FailSave,
         D!Hide, D!Restore, D!Arrive, D!Reject, D!Step, D!history
<1>18. /\ blinks' = blinks \/ blinks' = blinks + (IF doc # None /\ ~version' THEN 1 ELSE 0)
       /\ steps' = steps \/ steps' = steps + 1
       /\ faults' = faults \/ faults' = faults + 1
  BY DEF D!Next, D!OpenInEditor, D!TypePath, D!OpenInReader, D!Select, D!TypeText, D!StartSave, D!EndSave, D!FailSave,
         D!Hide, D!Restore, D!Arrive, D!Reject, D!Step, D!history
<1>19. {shows', dwells', blinks', steps', faults'} \subseteq Nat
  BY <1>17, <1>18 DEF DocTyped, D!TypeOK, D!Seconds
<1>20. restored' \subseteq Revision \X Revision
  <2>1. CASE D!Restore
    <3>1. selected \in Revision /\ doc \in Revision
      BY <2>1 DEF D!Restore, DocTyped, D!TypeOK
    <3>2. QED
      BY <2>1, <3>1 DEF D!Restore, DocTyped, D!TypeOK
  <2>2. CASE restored' = restored
    BY <2>2 DEF DocTyped, D!TypeOK
  <2>3. QED
    BY <2>1, <2>2 DEF D!Next, D!OpenInEditor, D!TypePath, D!OpenInReader, D!Select, D!TypeText, D!StartSave, D!EndSave, D!FailSave,
         D!Hide, D!Restore, D!Arrive, D!Reject, D!Step, D!history
<1>21. D!TypeOK'
  BY <1>2, <1>4, <1>5, <1>6, <1>8, <1>10, <1>11, <1>12, <1>13, <1>14, <1>15, <1>16, <1>19, <1>20
     DEF D!TypeOK, D!Load, D!What
<1>22. QED
  BY <1>2, <1>4, <1>8, <1>10, <1>21 DEF DocTyped

\* What the proof about the list does not need.
ListRest ==
  /\ board \in {"list", "tree"}
  /\ dated \in BOOLEAN /\ halted \in BOOLEAN /\ missed \in BOOLEAN
  /\ steps \in Nat /\ faults \in Nat

LEMMA InitListTypes == L!Init => ListRest
<1> SUFFICES ASSUME L!Init PROVE ListRest
  OBVIOUS
<1>1. dated \in BOOLEAN /\ halted \in BOOLEAN /\ missed \in BOOLEAN
  BY DEF L!Init
<1>2. board \in {"list", "tree"} /\ steps \in Nat /\ faults \in Nat
  BY DEF L!Init
<1>3. QED
  BY <1>1, <1>2 DEF ListRest

LEMMA StepListTypes ==
  ASSUME ListRest, [L!Next]_(L!vars)
  PROVE  ListRest'
<1>1. CASE UNCHANGED L!vars
  BY <1>1 DEF L!vars, L!history, ListRest
<1> SUFFICES ASSUME L!Next PROVE ListRest'
  BY <1>1
<1> DEFINE StepTaken == steps' = steps + 1 /\ UNCHANGED <<board, dated, halted, missed, faults>>
<1>2. StepTaken => ListRest'
  BY DEF ListRest
<1> HIDE DEF StepTaken
<1>3. CASE L!Select
  BY <1>2, <1>3 DEF StepTaken, L!Select, L!Step, L!history
<1>4. ASSUME NEW op, NEW todo, NEW to, L!Begin(op, todo, to)
      PROVE  ListRest'
  BY <1>2, <1>4 DEF StepTaken, L!Begin, L!Step, L!history
<1>5. CASE L!StartBulk
  BY <1>4, <1>5 DEF L!StartBulk
<1>6. CASE L!StartImport
  BY <1>4, <1>6 DEF L!StartImport
<1>7. CASE L!StartCreate
  BY <1>4, <1>7 DEF L!StartCreate
<1>8. CASE L!StartMove
  BY <1>4, <1>8 DEF L!StartMove
<1>9. CASE L!StartRename
  BY <1>4, <1>9 DEF L!StartRename
<1>10. CASE L!Turn
  BY <1>10 DEF ListRest, L!Turn
<1>11. L!Skip => halted' = halted \/ halted' = (halted \/ job.ok > 0)
  BY DEF L!Skip
<1>12. L!Skip => halted' \in BOOLEAN
  BY <1>11 DEF ListRest
<1>13. CASE L!RefuseTurn
  <2>1. /\ UNCHANGED <<board, dated, missed, steps>>
        /\ L!Skip /\ (faults' = faults \/ faults' = faults + 1)
    BY <1>13 DEF L!RefuseTurn
  <2>2. QED
    BY <1>12, <2>1 DEF ListRest
<1>14. CASE L!LoseAnswer
  <2>1. UNCHANGED <<board, dated, steps>> /\ L!Skip /\ faults' = faults + 1 /\ missed' = TRUE
    BY <1>14 DEF L!LoseAnswer
  <2>2. QED
    BY <1>12, <2>1 DEF ListRest
<1>15. CASE L!Finish
  BY <1>15 DEF ListRest, L!Finish, L!history
<1>16. CASE L!Load
  BY <1>16 DEF ListRest, L!Load
<1>17. CASE L!FailLoad
  BY <1>17 DEF ListRest, L!FailLoad
<1>18. CASE L!Foreign
  <2>1. UNCHANGED <<board, halted, missed, faults>> /\ steps' = steps + 1 /\ dated' = TRUE
    BY <1>18 DEF L!Foreign, L!Step
  <2>2. QED
    BY <2>1 DEF ListRest
<1>19. QED
  BY <1>3, <1>5, <1>6, <1>7, <1>8, <1>9, <1>10, <1>13, <1>14, <1>15, <1>16, <1>17, <1>18 DEF L!Next

LEMMA ListTypes == ListingInv /\ ListRest => L!TypeOK
<1> SUFFICES ASSUME ListingInv, ListRest PROVE L!TypeOK
  OBVIOUS
<1>1. removed \subseteq L!Docs
  BY DocsNotNone DEF ListingInv, ListTyped, Placed
<1>2. QED
  BY <1>1 DEF ListingInv, ListTyped, ListRest, L!TypeOK

\* Public links, watches, notices and switches have one name only: so have the lists
\* and the calls of their pages.
Narrow(k) ==
  /\ k.name \in P!Names \cup {None} /\ k.list \in P!List \cup {None}
  /\ k.pc = "loaded" \/ (k.pc = "done" /\ P!Answers(k)) => k.list \in P!List
  /\ panel \in P!Switches /\ k.pc # "idle" => k.list \in P!List

PanelRest ==
  /\ rows \in P!List /\ shown \in P!List
  /\ \A c \in Call : Narrow(call[c])
  /\ stale \in BOOLEAN /\ lost \in BOOLEAN /\ overlapped \in BOOLEAN
  /\ started \in Nat /\ faults \in Nat

LEMMA PanelTypes == PanelInv /\ PanelRest => P!TypeOK
<1> SUFFICES ASSUME PanelInv, PanelRest PROVE P!TypeOK
  OBVIOUS
<1>1. call \in [Call -> P!PageCall]
  <2>1. \A c \in Call : call[c] \in P!PageCall
    <3> TAKE c \in Call
    <3>1. call[c] \in PanelCall /\ call[c].name \in P!Names \cup {None} /\ call[c].list \in P!List \cup {None}
      BY DEF PanelInv, PanelTyped, PanelRest, Narrow
    <3>2. QED
      BY <3>1 DEF PanelCall, P!PageCall
  <2>2. call = [c \in Call |-> call[c]]
    BY DEF PanelInv, PanelTyped
  <2>3. QED
    BY <2>1, <2>2
<1>2. form \in P!Form /\ refused \in P!Form \cup {None}
  BY DEF PanelInv, PanelTyped, Drafted, P!Form
<1>3. QED
  BY <1>1, <1>2 DEF PanelInv, PanelTyped, PanelRest, P!TypeOK

LEMMA InitPanelTypes == P!Init => PanelRest
<1> SUFFICES ASSUME P!Init PROVE PanelRest
  OBVIOUS
<1>1. rows \in P!List /\ shown \in P!List /\ call = [c \in Call |-> P!Quiet]
  BY DEF P!Init
<1>2. \A c \in Call : Narrow(call[c])
  BY <1>1 DEF Narrow, P!Quiet
<1>3. stale \in BOOLEAN /\ lost \in BOOLEAN /\ overlapped \in BOOLEAN
  BY DEF P!Init
<1>4. started \in Nat /\ faults \in Nat
  BY DEF P!Init
<1>5. QED
  BY <1>1, <1>2, <1>3, <1>4 DEF PanelRest

LEMMA NarrowKeeps ==
  ASSUME PanelRest, panel' = panel, rows' \in P!List, shown' \in P!List, \A d \in Call : Narrow(call'[d]),
         stale' \in BOOLEAN, lost' \in BOOLEAN, overlapped' \in BOOLEAN, started' \in Nat, faults' \in Nat
  PROVE  PanelRest'
<1>1. UNCHANGED P!Names
  BY DEF P!Names
<1>2. UNCHANGED P!List
  BY <1>1 DEF P!List
<1>3. \A d \in Call : Narrow(call[d])'
  BY <1>1, <1>2 DEF Narrow, P!Answers
<1>4. QED
  BY <1>2, <1>3 DEF PanelRest

LEMMA SetNarrow ==
  ASSUME PanelInv, PanelRest, NEW c \in Call, NEW k, Narrow(k), call' = [call EXCEPT ![c] = k]
  PROVE  \A d \in Call : Narrow(call'[d])
<1>1. call \in [Call -> PanelCall]
  BY DEF PanelInv, PanelTyped
<1>2. \A d \in Call : call'[d] = IF d = c THEN k ELSE call[d]
  BY <1>1
<1>3. QED
  BY <1>2 DEF PanelRest

LEMMA SendNarrow ==
  ASSUME PanelInv, PanelRest, NEW c \in Call, NEW s, P!Send(c, s), Narrow(s),
         UNCHANGED <<panel, rows, stale, lost, faults>>, shown' \in P!List
  PROVE  PanelRest'
<1>1. call' = [call EXCEPT ![c] = s] /\ started' = started + 1
  BY DEF P!Send
<1>2. overlapped' \in BOOLEAN
  BY DEF P!Send, PanelRest
<1>3. \A d \in Call : Narrow(call'[d])
  BY <1>1, SetNarrow
<1>4. rows' \in P!List /\ started' \in Nat /\ faults' \in Nat
  BY <1>1 DEF PanelRest
<1>5. stale' \in BOOLEAN /\ lost' \in BOOLEAN
  BY DEF PanelRest
<1>6. QED
  BY <1>2, <1>3, <1>4, <1>5, NarrowKeeps

LEMMA ManyNames == panel \notin P!Switches \cup {"share", "watching", "bell"} => P!Names = Name
BY DEF P!Names

LEMMA FormTypes ==
  ASSUME PanelInv, PanelRest, P!Reset \/ (\E n \in Name : P!Type(n)) \/ (\E x \in Row : P!Edit(x))
  PROVE  PanelRest'
<1>1. UNCHANGED <<panel, rows, shown, call, stale, lost, overlapped, started, faults>>
  BY DEF P!Reset, P!Type, P!Edit
<1>2. QED
  BY <1>1 DEF PanelRest, Narrow, P!List, P!Names, P!Answers

LEMMA PutTypes ==
  ASSUME PanelInv, PanelRest, NEW c \in Call, NEW x \in Row \cup {None}, NEW n \in P!Names, P!Put(c, x, n),
         panel \notin P!Switches
  PROVE  PanelRest'
<1> DEFINE s == [P!Quiet EXCEPT !.pc = "sent", !.op = "save", !.row = x, !.name = n]
<1>1. P!Send(c, s) /\ UNCHANGED <<panel, rows, shown, stale, lost, faults>>
  BY DEF P!Put
<1>2. s.pc = "sent" /\ s.op = "save" /\ s.row = x /\ s.name = n /\ s.list = None
  BY DEF P!Quiet
<1>3. shown' \in P!List
  BY <1>1 DEF PanelRest
<1> HIDE DEF s
<1>4. Narrow(s)
  BY <1>2 DEF Narrow
<1>5. QED
  BY <1>1, <1>3, <1>4, SendNarrow

LEMMA RemoveTypes ==
  ASSUME PanelInv, PanelRest, NEW c \in Call, P!Remove(c), panel \notin P!Switches
  PROVE  PanelRest'
<1>1. PICK x \in Row : P!Send(c, [P!Quiet EXCEPT !.pc = "sent", !.op = "remove", !.row = x])
  BY DEF P!Remove
<1> DEFINE s == [P!Quiet EXCEPT !.pc = "sent", !.op = "remove", !.row = x]
<1>2. s.pc = "sent" /\ s.name = None /\ s.list = None
  BY DEF P!Quiet
<1>3. P!Send(c, s) /\ UNCHANGED <<panel, rows, shown, stale, lost, faults>>
  BY <1>1 DEF P!Remove
<1> HIDE DEF s
<1>4. Narrow(s) /\ shown' \in P!List
  BY <1>2, <1>3 DEF Narrow, PanelRest
<1>5. QED
  BY <1>3, <1>4, SendNarrow

LEMMA SaveTypes ==
  ASSUME PanelInv, PanelRest, NEW c \in Call, P!Save(c), panel \in P!Managers
  PROVE  PanelRest'
<1> DEFINE s == [P!Quiet EXCEPT !.pc = "sent", !.op = "save", !.row = form.row, !.name = form.name]
<1>1. P!Send(c, s) /\ UNCHANGED <<panel, rows, shown, stale, lost, faults>>
  BY DEF P!Save
<1>2. s.pc = "sent" /\ s.name = form.name /\ s.list = None
  BY DEF P!Quiet
<1>3. shown' \in P!List /\ form.name \in Name \cup {None}
  BY <1>1 DEF PanelRest, PanelInv, PanelTyped
<1> HIDE DEF s
<1>4. P!Names = Name /\ panel \notin P!Switches
  <2>1. panel \notin P!Switches \cup {"share", "watching", "bell"}
    BY DEF P!Managers, P!Switches
  <2>2. QED
    BY <2>1, ManyNames
<1>5. Narrow(s)
  BY <1>2, <1>3, <1>4 DEF Narrow
<1>6. QED
  BY <1>1, <1>3, <1>5, SendNarrow

LEMMA BellTypes ==
  ASSUME PanelInv, PanelRest, NEW c \in Call, P!RefreshCount(c) \/ P!MarkAll(c), panel \notin P!Switches
  PROVE  PanelRest'
<1>1. UNCHANGED <<panel, rows, shown, stale, lost, faults>>
  BY DEF P!RefreshCount, P!MarkAll
<1>2. PICK s : P!Send(c, s) /\ s.pc \in {"sent", "load"} /\ s.name = None /\ s.list = None
  <2> DEFINE load == [P!Quiet EXCEPT !.pc = "load"]
             clear == [P!Quiet EXCEPT !.pc = "sent", !.op = "clear"]
  <2>1. \A s \in {load, clear} : s.pc \in {"sent", "load"} /\ s.name = None /\ s.list = None
    BY DEF P!Quiet
  <2>2. P!Send(c, load) \/ P!Send(c, clear)
    BY DEF P!RefreshCount, P!MarkAll
  <2> HIDE DEF load, clear
  <2>3. QED
    BY <2>1, <2>2
<1>3. Narrow(s) /\ shown' \in P!List
  BY <1>1, <1>2 DEF Narrow, PanelRest
<1>4. QED
  BY <1>1, <1>2, <1>3, SendNarrow

LEMMA ToggleTypes ==
  ASSUME PanelInv, PanelRest, NEW c \in Call, P!Toggle(c)
  PROVE  PanelRest'
<1>1. PICK x \in Row, n \in P!Names :
        /\ shown' = [shown EXCEPT ![x] = IF @ = n THEN None ELSE n]
        /\ P!Send(c, [P!Quiet EXCEPT !.pc = "sent", !.op = "save", !.row = x, !.name = shown'[x], !.list = shown])
  BY DEF P!Toggle
<1> DEFINE s == [P!Quiet EXCEPT !.pc = "sent", !.op = "save", !.row = x, !.name = shown'[x], !.list = shown]
<1>2. shown \in P!List /\ shown' \in P!List /\ shown'[x] \in P!Names \cup {None}
  BY <1>1 DEF PanelRest, P!List
<1>3. P!Send(c, s) /\ UNCHANGED <<panel, rows, stale, lost, faults>>
  BY <1>1 DEF P!Toggle
<1>4. s.pc = "sent" /\ s.name = shown'[x] /\ s.list = shown
  BY DEF P!Quiet
<1> HIDE DEF s
<1>5. Narrow(s)
  BY <1>2, <1>4 DEF Narrow
<1>6. QED
  BY <1>2, <1>3, <1>5, SendNarrow

\* A call whose answer failed keeps what it was sent with.
LEMMA FailedTypes ==
  ASSUME PanelInv, PanelRest, NEW c \in Call, call[c].pc # "idle", call' = [call EXCEPT ![c].pc = "failed"],
         UNCHANGED <<panel, rows, shown, stale, overlapped, started>>, lost' \in BOOLEAN, faults' \in Nat
  PROVE  PanelRest'
<1> DEFINE k == [call[c] EXCEPT !.pc = "failed"]
<1>1. call[c] \in PanelCall /\ Narrow(call[c])
  BY DEF PanelInv, PanelTyped, PanelRest
<1>2. k.pc = "failed" /\ k.name = call[c].name /\ k.list = call[c].list
  BY <1>1 DEF PanelCall
<1>3. call' = [call EXCEPT ![c] = k]
  OBVIOUS
<1> HIDE DEF k
<1>4. Narrow(k)
  BY <1>1, <1>2 DEF Narrow
<1>5. \A d \in Call : Narrow(call'[d])
  BY <1>3, <1>4, SetNarrow
<1>6. rows' \in P!List /\ shown' \in P!List /\ started' \in Nat
  BY DEF PanelRest
<1>7. stale' \in BOOLEAN /\ overlapped' \in BOOLEAN
  BY DEF PanelRest
<1>8. QED
  BY <1>5, <1>6, <1>7, NarrowKeeps

LEMMA ReplyTypes ==
  ASSUME PanelInv, PanelRest, NEW c \in Call, P!Reply(c)
  PROVE  PanelRest'
<1>1. call[c].pc = "sent" /\ UNCHANGED <<panel, shown, lost, overlapped, started, faults>>
  BY DEF P!Reply
<1>2. lost' \in BOOLEAN /\ overlapped' \in BOOLEAN /\ shown' \in P!List /\ started' \in Nat /\ faults' \in Nat
  BY <1>1 DEF PanelRest
<1>3. CASE call' = [call EXCEPT ![c].pc = "failed"] /\ UNCHANGED <<rows, stale>>
  BY <1>1, <1>2, <1>3, FailedTypes
<1>4. CASE \E next \in P!After(call[c]) :
             /\ rows' = next
             /\ call' = [call EXCEPT ![c].pc = "done", ![c].list = IF P!Answers(call[c]) THEN next ELSE @]
             /\ stale' = (stale /\ ~P!Answers(call[c]))
  <2>1. PICK next \in P!After(call[c]) :
             /\ rows' = next
             /\ call' = [call EXCEPT ![c].pc = "done", ![c].list = IF P!Answers(call[c]) THEN next ELSE @]
             /\ stale' = (stale /\ ~P!Answers(call[c]))
    BY <1>4
  <2>2. rows \in P!List /\ call[c].name \in P!Names \cup {None} /\ (panel \in P!Switches => call[c].list \in P!List)
    BY <1>1 DEF PanelRest, Narrow
  <2>3. P!List = [Row -> P!Names \cup {None}]
    BY DEF P!List
  <2>4. next \in P!List
    BY <1>1, <2>2, <2>3, AfterLists
  <2> DEFINE k == [call[c] EXCEPT !.pc = "done", !.list = IF P!Answers(call[c]) THEN next ELSE @]
  <2>5. call[c] \in PanelCall /\ Narrow(call[c]) /\ call \in [Call -> PanelCall]
    BY DEF PanelInv, PanelTyped, PanelRest
  <2>6. /\ k.pc = "done" /\ k.op = call[c].op /\ k.name = call[c].name
        /\ k.list = IF P!Answers(call[c]) THEN next ELSE call[c].list
    BY <2>5 DEF PanelCall
  <2>7. call' = [call EXCEPT ![c] = k]
    BY <2>1, <2>5
  <2> HIDE DEF k
  <2>8. Narrow(k)
    BY <1>1, <2>4, <2>5, <2>6 DEF Narrow, P!Answers
  <2>9. \A d \in Call : Narrow(call'[d])
    BY <2>7, <2>8, SetNarrow
  <2>10. stale' \in BOOLEAN
    BY <2>1 DEF PanelRest
  <2>11. QED
    BY <1>1, <1>2, <2>1, <2>4, <2>9, <2>10, NarrowKeeps
<1>5. QED
  BY <1>3, <1>4 DEF P!Reply

LEMMA OutsideTypes ==
  ASSUME PanelInv, PanelRest, P!Foreign \/ \E c \in Call : P!RefuseFields(c) \/ P!Fail(c)
  PROVE  PanelRest'
<1>1. CASE P!Foreign
  <2>1. /\ rows' \in P!List /\ stale' = TRUE /\ started' = started + 1
        /\ UNCHANGED <<panel, shown, call, lost, overlapped, faults>>
    BY <1>1 DEF P!Foreign
  <2>2. shown' \in P!List /\ started' \in Nat /\ faults' \in Nat /\ \A d \in Call : Narrow(call'[d])
    BY <2>1 DEF PanelRest
  <2>3. stale' \in BOOLEAN /\ lost' \in BOOLEAN /\ overlapped' \in BOOLEAN
    BY <2>1 DEF PanelRest
  <2>4. QED
    BY <2>1, <2>2, <2>3, NarrowKeeps
<1>2. ASSUME NEW c \in Call, P!RefuseFields(c) PROVE PanelRest'
  <2>1. /\ call[c].pc = "sent" /\ call' = [call EXCEPT ![c].pc = "failed"]
        /\ UNCHANGED <<panel, rows, shown, stale, lost, overlapped, started, faults>>
    BY <1>2 DEF P!RefuseFields
  <2>2. lost' \in BOOLEAN /\ faults' \in Nat
    BY <2>1 DEF PanelRest
  <2>3. QED
    BY <2>1, <2>2, FailedTypes
<1>3. ASSUME NEW c \in Call, P!Fail(c) PROVE PanelRest'
  <2>1. /\ call[c].pc # "idle" /\ call' = [call EXCEPT ![c].pc = "failed"] /\ faults' = faults + 1
        /\ UNCHANGED <<panel, rows, shown, stale, overlapped, started>>
    BY <1>3 DEF P!Fail
  <2>2. lost' \in BOOLEAN
    BY <1>3 DEF P!Fail, PanelRest
  <2>3. faults' \in Nat
    BY <2>1 DEF PanelRest
  <2>4. QED
    BY <2>1, <2>2, <2>3, FailedTypes
<1>4. QED
  BY <1>1, <1>2, <1>3

\* A call that is over is forgotten.
LEMMA OverTypes ==
  ASSUME PanelInv, PanelRest, NEW c \in Call, call' = [call EXCEPT ![c] = P!Quiet],
         UNCHANGED <<panel, rows, stale, overlapped, started>>,
         shown' \in P!List, lost' \in BOOLEAN, faults' \in Nat
  PROVE  PanelRest'
<1>1. Narrow(P!Quiet)
  BY DEF P!Quiet, Narrow
<1>2. \A d \in Call : Narrow(call'[d])
  BY <1>1, SetNarrow
<1>3. rows' \in P!List /\ started' \in Nat
  BY DEF PanelRest
<1>4. stale' \in BOOLEAN /\ overlapped' \in BOOLEAN
  BY DEF PanelRest
<1>5. QED
  BY <1>2, <1>3, <1>4, NarrowKeeps

\* Or it goes on with the list.
LEMMA LoadingTypes ==
  ASSUME PanelInv, PanelRest, NEW c \in Call, call' = P!Loading(c), panel \notin P!Switches,
         UNCHANGED <<panel, rows, stale, overlapped, started>>,
         shown' \in P!List, lost' \in BOOLEAN, faults' \in Nat
  PROVE  PanelRest'
<1> DEFINE k == [call[c] EXCEPT !.pc = "load", !.list = None]
<1>1. call[c] \in PanelCall /\ Narrow(call[c])
  BY DEF PanelInv, PanelTyped, PanelRest
<1>2. k.pc = "load" /\ k.name = call[c].name /\ k.list = None
  BY <1>1 DEF PanelCall
<1>3. \A d \in Call : call'[d] \in {k, P!Quiet, call[d]}
  BY DEF P!Loading
<1> HIDE DEF k
<1>4. Narrow(k) /\ Narrow(P!Quiet)
  BY <1>1, <1>2 DEF Narrow, P!Quiet
<1>5. \A d \in Call : Narrow(call'[d])
  BY <1>3, <1>4 DEF PanelRest
<1>6. rows' \in P!List /\ started' \in Nat
  BY DEF PanelRest
<1>7. stale' \in BOOLEAN /\ overlapped' \in BOOLEAN
  BY DEF PanelRest
<1>8. QED
  BY <1>5, <1>6, <1>7, NarrowKeeps

LEMMA SucceedTypes ==
  ASSUME PanelInv, PanelRest, NEW c \in Call, P!Succeed(c)
  PROVE  PanelRest'
<1>1. /\ call[c].pc = "done" /\ UNCHANGED <<panel, rows, stale, lost, overlapped, started, faults>>
      /\ shown' = IF P!Answers(call[c]) THEN call[c].list ELSE shown
      /\ call' = IF P!Answers(call[c]) \/ panel \in P!Switches THEN [call EXCEPT ![c] = P!Quiet] ELSE P!Loading(c)
  BY DEF P!Succeed, P!history
<1>2. shown' \in P!List /\ faults' \in Nat
  BY <1>1 DEF PanelRest, Narrow
<1>3. lost' \in BOOLEAN
  BY <1>1 DEF PanelRest
<1>4. QED
  BY <1>1, <1>2, <1>3, OverTypes, LoadingTypes

LEMMA RefuseTypes ==
  ASSUME PanelInv, PanelRest, NEW c \in Call, P!Refuse(c)
  PROVE  PanelRest'
<1>1. /\ call[c].pc = "failed" /\ UNCHANGED <<panel, rows, stale, overlapped, started, faults>>
      /\ shown' = P!Back(call[c])
      /\ call' = IF panel = "media" /\ call[c].row = None THEN P!Loading(c) ELSE [call EXCEPT ![c] = P!Quiet]
  BY DEF P!Refuse
<1>2. panel \in P!Switches => call[c].list \in P!List /\ call[c].row \in Row
  BY <1>1 DEF PanelRest, Narrow, PanelInv, PanelTyped
<1>3. shown' \in P!List
  <2>1. CASE panel \in {"favorites", "preferences"}
    <3>1. shown' = [shown EXCEPT ![call[c].row] = call[c].list[call[c].row]]
      BY <1>1, <2>1 DEF P!Back
    <3>2. call[c].list \in P!List /\ call[c].row \in Row /\ shown \in P!List
      BY <1>2, <2>1 DEF P!Switches, PanelRest
    <3>3. QED
      BY <3>1, <3>2 DEF P!List
  <2>2. CASE panel = "muted"
    BY <1>1, <1>2, <2>2 DEF P!Back, P!Switches
  <2>3. CASE panel \notin {"favorites", "preferences", "muted"}
    BY <1>1, <2>3 DEF P!Back, PanelRest
  <2>4. QED
    BY <2>1, <2>2, <2>3
<1>4. lost' \in BOOLEAN
  BY DEF P!Refuse, PanelRest
<1>5. faults' \in Nat
  BY <1>1 DEF PanelRest
<1>6. panel = "media" => panel \notin P!Switches
  BY DEF P!Switches
<1>7. QED
  BY <1>1, <1>3, <1>4, <1>5, <1>6, OverTypes, LoadingTypes

LEMMA LoadTypes ==
  ASSUME PanelInv, PanelRest, NEW c \in Call, P!ReadList(c) \/ P!ShowList(c) \/ P!FailList(c)
  PROVE  PanelRest'
<1>1. CASE P!ReadList(c)
  <2> DEFINE k == [call[c] EXCEPT !.pc = "loaded", !.list = rows]
  <2>1. call[c] \in PanelCall /\ Narrow(call[c]) /\ call \in [Call -> PanelCall] /\ rows \in P!List
    BY DEF PanelInv, PanelTyped, PanelRest
  <2>2. k.pc = "loaded" /\ k.name = call[c].name /\ k.list = rows
    BY <2>1 DEF PanelCall
  <2>3. /\ call' = [call EXCEPT ![c] = k] /\ stale' = FALSE /\ lost' = FALSE
        /\ UNCHANGED <<panel, rows, shown, overlapped, started, faults>>
    BY <1>1, <2>1 DEF P!ReadList
  <2> HIDE DEF k
  <2>4. Narrow(k)
    BY <2>1, <2>2 DEF Narrow
  <2>5. \A d \in Call : Narrow(call'[d])
    BY <2>3, <2>4, SetNarrow
  <2>6. rows' \in P!List /\ shown' \in P!List /\ started' \in Nat /\ faults' \in Nat
    BY <2>3 DEF PanelRest
  <2>7. stale' \in BOOLEAN /\ lost' \in BOOLEAN /\ overlapped' \in BOOLEAN
    BY <2>3 DEF PanelRest
  <2>8. QED
    BY <2>3, <2>5, <2>6, <2>7, NarrowKeeps
<1>2. CASE P!ShowList(c)
  <2>1. /\ call[c].pc = "loaded" /\ shown' = call[c].list /\ call' = [call EXCEPT ![c] = P!Quiet]
        /\ UNCHANGED <<panel, rows, stale, lost, overlapped, started, faults>>
    BY <1>2 DEF P!ShowList, P!history
  <2>2. shown' \in P!List /\ faults' \in Nat
    BY <2>1 DEF PanelRest, Narrow
  <2>3. lost' \in BOOLEAN
    BY <2>1 DEF PanelRest
  <2>4. QED
    BY <2>1, <2>2, <2>3, OverTypes
<1>3. CASE P!FailList(c)
  <2>1. /\ call' = [call EXCEPT ![c] = P!Quiet] /\ lost' = TRUE /\ faults' = faults + 1
        /\ shown' \in {shown, P!Nothing} /\ UNCHANGED <<panel, rows, stale, overlapped, started>>
    BY <1>3 DEF P!FailList
  <2>2. P!Nothing \in P!List
    BY DEF P!Nothing, P!List
  <2>3. shown' \in P!List /\ faults' \in Nat
    BY <2>1, <2>2 DEF PanelRest
  <2>4. lost' \in BOOLEAN
    BY <2>1
  <2>5. QED
    BY <2>1, <2>3, <2>4, OverTypes
<1>4. QED
  BY <1>1, <1>2, <1>3

LEMMA StepPanelTypes ==
  ASSUME PanelInv, PanelRest, [P!Next]_(P!vars)
  PROVE  PanelRest'
<1>1. CASE UNCHANGED P!vars
  BY <1>1 DEF P!vars, P!history, PanelRest, Narrow, P!List, P!Names, P!Answers
<1>2. CASE P!Foreign \/ \E c \in Call : P!FrontmatterSchemasService(c) \/ P!Fail(c)
  BY <1>2, OutsideTypes, ReplyTypes DEF P!FrontmatterSchemasService
<1>3. ASSUME NEW c \in Call, P!DocumentTemplatesService(c) \/ P!DocumentSnippetsService(c) \/ P!OtherService(c)
      PROVE  PanelRest'
  BY <1>3, ReplyTypes DEF P!DocumentTemplatesService, P!DocumentSnippetsService, P!OtherService
<1>4. ASSUME NEW c \in Call, P!Succeed(c) \/ P!Refuse(c) \/ P!ReadList(c) \/ P!ShowList(c) \/ P!FailList(c)
      PROVE  PanelRest'
  BY <1>4, SucceedTypes, RefuseTypes, LoadTypes
<1>5. ASSUME NEW c \in Call, P!DocumentTemplateManager(c) \/ P!DocumentSnippetManager(c) \/ P!FrontmatterSchemaManager(c)
      PROVE  PanelRest'
  <2>1. panel \in P!Managers /\ P!Manage(c)
    BY <1>5 DEF P!DocumentTemplateManager, P!DocumentSnippetManager, P!FrontmatterSchemaManager, P!Managers
  <2>2. panel \notin P!Switches
    BY <2>1, Pages
  <2>3. QED
    BY <2>1, <2>2, FormTypes, SaveTypes, RemoveTypes DEF P!Manage
<1>6. ASSUME NEW c \in Call, P!TeamPage(c) \/ P!ReviewPage(c) \/ P!MediaPage(c)
      PROVE  PanelRest'
  <2>1. panel \notin P!Switches \cup {"share", "watching", "bell"} /\ (P!Add(c) \/ P!Change(c) \/ P!Remove(c))
    BY <1>6 DEF P!TeamPage, P!ReviewPage, P!MediaPage, P!Switches
  <2>2. P!Names = Name
    BY <2>1, ManyNames
  <2>3. QED
    BY <2>1, <2>2, PutTypes, RemoveTypes DEF P!Add, P!Change
<1>7. ASSUME NEW c \in Call,
             P!ShareDialog(c) \/ P!AccessPanel(c) \/ P!SetStatus(c) \/ P!Watching(c) \/ P!NotificationBell(c)
      PROVE  PanelRest'
  <2>1. /\ panel \notin P!Switches
        /\ P!Add(c) \/ P!PutAnywhere(c) \/ P!Remove(c) \/ P!RefreshCount(c) \/ P!MarkAll(c)
    BY <1>7 DEF P!ShareDialog, P!AccessPanel, P!SetStatus, P!Watching, P!NotificationBell, P!Switches
  <2>2. QED
    BY <2>1, PutTypes, RemoveTypes, BellTypes DEF P!Add, P!PutAnywhere
<1>8. ASSUME NEW c \in Call, P!ToggleFavorite(c) \/ P!TogglePref(c) \/ P!ToggleKind(c) \/ P!ToggleSource(c)
      PROVE  PanelRest'
  BY <1>8, ToggleTypes DEF P!ToggleFavorite, P!TogglePref, P!ToggleKind, P!ToggleSource
<1>9. QED
  BY <1>1, <1>2, <1>3, <1>4, <1>5, <1>6, <1>7, <1>8 DEF P!Next

-----------------------------------------------------------------------------
\* The service and the page in focus keep their types: whatever is sent, answered,
\* lost or late, a list holds records, a path a document, a counter a number.  The
\* service counts its requests and faults with the same variables as the page.
TypesInv ==
  /\ focus \in {"media", "panels", "fields", "doc", "queries", "listing", "profile"}
  /\ TypeOK
  /\ focus = "media" => MediaInv
  /\ focus = "panels" => PanelInv /\ PanelRest
  /\ focus = "fields" => FieldsInv
  /\ focus = "doc" => DocInv /\ DocTyped
  /\ focus = "queries" => LatestInv /\ Q!TypeOK
  /\ focus = "listing" => ListingInv /\ ListRest
  /\ focus = "profile" => ProfileInv /\ U!TypeOK

LEMMA InitTypes == FocusInit => TypesInv
<1> SUFFICES ASSUME FocusInit PROVE TypesInv
  OBVIOUS
<1>1. /\ focus \in {"media", "panels", "fields", "doc", "queries", "listing", "profile"}
      /\ TypeOK /\ MediaInv
  BY MediaInit DEF FocusInit, MediaInv
<1>2. focus = "panels" => PanelInv /\ PanelRest
  BY InitPanel, InitPanelTypes DEF FocusInit
<1>3. focus = "fields" => FieldsInv
  BY InitFields DEF FocusInit
<1>4. focus = "doc" => DocInv /\ DocTyped
  BY InitDoc, InitDocTypes DEF FocusInit
<1>5. focus = "queries" => LatestInv /\ Q!TypeOK
  BY InitLatest, InitQueryTypes DEF FocusInit
<1>6. focus = "listing" => ListingInv /\ ListRest
  BY InitListing, InitListTypes DEF FocusInit
<1>7. focus = "profile" => ProfileInv /\ U!TypeOK
  BY InitProfile, InitUserTypes DEF FocusInit
<1>8. QED
  BY <1>1, <1>2, <1>3, <1>4, <1>5, <1>6, <1>7 DEF TypesInv

LEMMA StepTypes ==
  ASSUME TypesInv, [FocusNext]_focusVars
  PROVE  TypesInv'
<1>1. focus = "media" => MediaInv'
  BY OthersStay, MediaStep DEF TypesInv
<1>2. focus = "panels" => (PanelInv /\ PanelRest)'
  BY FocusStays, StepPanel, StepPanelTypes DEF TypesInv
<1>3. focus = "fields" => FieldsInv'
  BY FocusStays, StepFields DEF TypesInv
<1>4. focus = "doc" => (DocInv /\ DocTyped)'
  BY FocusStays, StepDoc, StepDocTypes DEF TypesInv
<1>5. focus = "queries" => (LatestInv /\ Q!TypeOK)'
  BY FocusStays, StepLatest, StepQueryTypes DEF TypesInv
<1>6. focus = "listing" => (ListingInv /\ ListRest)'
  BY FocusStays, StepListing, StepListTypes DEF TypesInv
<1>7. focus = "profile" => (ProfileInv /\ U!TypeOK)'
  BY FocusStays, StepProfile, StepUserTypes DEF TypesInv
<1>8. TypeOK'
  <2>1. CASE focus = "media"
    BY <1>1, <2>1 DEF MediaInv
  <2>2. CASE focus # "media"
    <3>1. UNCHANGED <<stores, req, ghosts>>
      BY <2>2, OthersStay DEF mediaVars
    <3>2. started' \in Nat
      <4>1. CASE focus = "panels"
        BY <1>2, <4>1 DEF PanelRest
      <4>2. CASE focus # "panels"
        BY <2>2, <4>2, OthersStay DEF TypesInv, TypeOK
      <4>3. QED
        BY <4>1, <4>2
    <3>3. faults' \in Nat
      <4>1. CASE focus = "fields"
        BY <4>1, OthersStay DEF TypesInv, TypeOK
      <4>2. CASE focus \in {"panels", "listing"}
        BY <1>2, <1>6, <4>2 DEF PanelRest, ListRest
      <4>3. CASE focus = "doc"
        BY <1>4, <4>3 DEF DocTyped, D!TypeOK
      <4>4. CASE focus = "queries"
        BY <1>5, <4>4 DEF Q!TypeOK
      <4>5. CASE focus = "profile"
        BY <1>7, <4>5 DEF U!TypeOK
      <4>6. QED
        BY <2>2, <4>1, <4>2, <4>3, <4>4, <4>5 DEF TypesInv
    <3>4. QED
      BY <3>1, <3>2, <3>3 DEF TypesInv, TypeOK, stores, ghosts
  <2>3. QED
    BY <2>1, <2>2
<1>9. QED
  BY <1>1, <1>2, <1>3, <1>4, <1>5, <1>6, <1>7, <1>8, FocusStays DEF TypesInv

\* The media service, its requests and records, and every page keep their types
\* (media.service.ts and the pages of the frontend).
THEOREM TypesSafe == FocusSpec => []Types
<1>1. TypesInv => Types
  BY PanelTypes, FieldsType, ListTypes DEF TypesInv, DocTyped, Types
<1>2. QED
  BY <1>1, InitTypes, StepTypes, PTL DEF FocusSpec

=============================================================================
