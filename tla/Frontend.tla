------------------------------ MODULE Frontend ------------------------------
(***************************************************************************)
(* The media service and the pages of the frontend, as one system in which *)
(* one of them is in focus: the initial state chooses it, and only that    *)
(* one steps.  started, faults and steps belong to the part in focus; the  *)
(* variables of Media stay as they begin, those of the others None.        *)
(***************************************************************************)
EXTENDS Media

CONSTANTS
  Row, Name, Call,                    \* Panels
  Key, Word, Schemas, Contents, Bodies, \* Frontmatter
  Path, Revision,                     \* DocPage
  Query,                              \* Queries
  Folder, Base,                       \* Listing
  Text, Avatar,                       \* Profile
  (* Bounds of the parts; MaxFaults is the same for all. *)
  MaxCalls, MaxEdits, MaxDocSteps, MaxQuerySteps, MaxDocs, MaxListSteps, MaxSaves

VARIABLES
  focus, steps,
  panel, rows, shown, form, call, refused, stale, lost, overlapped,           \* Panels
  content, body, dialog, last, edits,                                         \* Frontmatter
  kind, path, version, calls, doc, filePath, saving, timer, selected, stored, \* DocPage
  renamed, mixed, odd, shows, dwells, blinks, restored,
  page, query, pause, live, more, hits, loading, failed, open, loaded, blended, \* Queries
  board, at, listed, ticked, job, born, removed, dated, halted, missed,       \* Listing
  user, profile, fields, patch, gets, files, broken, behind, unasked          \* Profile

-----------------------------------------------------------------------------
P == INSTANCE Panels WITH page <- panel

F == INSTANCE Frontmatter

D == INSTANCE DocPage WITH MaxSteps <- MaxDocSteps

Q == INSTANCE Queries WITH
       MaxSteps <- MaxQuerySteps, timer <- pause, shown <- hits, mixed <- blended

L == INSTANCE Listing WITH
       MaxSteps <- MaxListSteps,
       page <- board, shown <- listed, selected <- ticked, made <- born, stale <- dated, lost <- missed

U == INSTANCE Profile WITH stored <- user, form <- fields, failed <- broken, saves <- steps

(* None is none of the values it stands beside. *)
ASSUME PanelsAssumption  == Name # {} /\ None \notin Name
ASSUME QueriesAssumption == None \notin Query
ASSUME ProfileAssumption == None \notin U!User \cup U!Form \cup U!Patch
ASSUME FieldsAssumption  == F!Given
ASSUME ListingAssumption ==
  /\ None \notin Nat /\ MaxDocs \in Nat
  /\ IsFiniteSet(Folder) /\ IsFiniteSet(Base)

-----------------------------------------------------------------------------
panelVars == <<panel, rows, shown, form, call, refused, stale, lost, overlapped>>
fieldVars == <<content, body, dialog, last, edits>>
docVars   == <<kind, path, version, calls, doc, filePath, saving, timer, selected, stored,
               renamed, mixed, odd, shows, dwells, blinks, restored>>
queryVars == <<page, query, pause, live, more, hits, loading, failed, open, loaded, blended>>
listVars  == <<board, at, listed, ticked, job, born, removed, dated, halted, missed>>
userVars  == <<user, profile, fields, patch, gets, files, broken, behind, unasked>>
mediaVars == <<stores, req, ghosts>>

FocusInit ==
  /\ focus \in {"media", "panels", "fields", "doc", "queries", "listing", "profile"}
  /\ Init
  /\ steps = 0
  /\ IF focus = "panels" THEN P!Init
     ELSE /\ panel = None /\ rows = None /\ shown = None /\ form = None /\ call = None
          /\ refused = None /\ stale = None /\ lost = None /\ overlapped = None
  /\ IF focus = "fields" THEN F!Init
     ELSE content = None /\ body = None /\ dialog = None /\ last = None /\ edits = None
  /\ IF focus = "doc" THEN D!Init
     ELSE /\ kind = None /\ path = None /\ version = None /\ calls = None /\ doc = None
          /\ filePath = None /\ saving = None /\ timer = None /\ selected = None /\ stored = None
          /\ renamed = None /\ mixed = None /\ odd = None /\ shows = None /\ dwells = None
          /\ blinks = None /\ restored = None
  /\ IF focus = "queries" THEN Q!Init
     ELSE /\ page = None /\ query = None /\ pause = None /\ live = None /\ more = None /\ hits = None
          /\ loading = None /\ failed = None /\ open = None /\ loaded = None /\ blended = None
  /\ IF focus = "listing" THEN L!Init
     ELSE /\ board = None /\ at = None /\ listed = None /\ ticked = None /\ job = None
          /\ born = None /\ removed = None /\ dated = None /\ halted = None /\ missed = None
  /\ IF focus = "profile" THEN U!Init
     ELSE /\ user = None /\ profile = None /\ fields = None /\ patch = None /\ gets = None
          /\ files = None /\ broken = None /\ behind = None /\ unasked = None

FocusNext ==
  /\ UNCHANGED focus
  /\ \/ focus = "media" /\ Next /\ UNCHANGED <<steps, panelVars, fieldVars, docVars, queryVars, listVars, userVars>>
     \/ focus = "panels" /\ P!Next /\ UNCHANGED <<steps, mediaVars, fieldVars, docVars, queryVars, listVars, userVars>>
     \/ focus = "fields" /\ F!Next /\ UNCHANGED <<steps, bounds, mediaVars, panelVars, docVars, queryVars, listVars, userVars>>
     \/ focus = "doc" /\ D!Next /\ UNCHANGED <<started, mediaVars, panelVars, fieldVars, queryVars, listVars, userVars>>
     \/ focus = "queries" /\ Q!Next /\ UNCHANGED <<started, mediaVars, panelVars, fieldVars, docVars, listVars, userVars>>
     \/ focus = "listing" /\ L!Next /\ UNCHANGED <<started, mediaVars, panelVars, fieldVars, docVars, queryVars, userVars>>
     \/ focus = "profile" /\ U!Next /\ UNCHANGED <<started, mediaVars, panelVars, fieldVars, docVars, queryVars, listVars>>

focusVars == <<focus, steps, vars, panelVars, fieldVars, docVars, queryVars, listVars, userVars>>

FocusSpec == FocusInit /\ [][FocusNext]_focusVars

-----------------------------------------------------------------------------
(* Properties. *)

\* The state of the service and of every page has its types.
Types ==
  /\ TypeOK
  /\ focus = "panels" => P!TypeOK
  /\ focus = "fields" => F!TypeOK
  /\ focus = "doc" => D!TypeOK
  /\ focus = "queries" => Q!TypeOK
  /\ focus = "listing" => L!TypeOK
  /\ focus = "profile" => U!TypeOK

\* A page over records of the server shows them, and keeps a refused form (Panels).
PanelSound == focus = "panels" => P!PanelSound

\* An applied schema reads as typed and leaves the other lines; a snippet
\* stands apart (Frontmatter).
EditsExact == focus = "fields" => F!EditsExact

\* A text is saved where it belongs, a read is reported once, the revision
\* restored is the one shown (DocPage), and a saved profile brings no older value
\* back (Profile).
PagesSound == /\ focus = "doc" => D!PagesSound
              /\ focus = "profile" => U!ProfileSound

\* The page ends with the answer to what was asked last (Queries).
LatestShown == focus = "queries" => Q!LatestShown

\* Moves lose and double nothing, counts add up, the list follows (Listing).
ListingSound == focus = "listing" => L!ListingSound
=============================================================================
