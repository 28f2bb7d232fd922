------------------------------- MODULE Queries -------------------------------
(***************************************************************************)
(* Pages that ask again while an answer is on its way: the search, the     *)
(* content insights, the media library and the command palette, over       *)
(* lib/useLatestRequest.ts.  A signal that is aborted rejects its call, and *)
(* the page forgets it.                                                    *)
(***************************************************************************)
EXTENDS Naturals, FiniteSets

CONSTANTS
  Query,      \* search texts, periods, filters
  MaxSteps,   \* bound on what the user does
  MaxFaults,  \* bound on calls that fail
  None

VARIABLES
  page,     \* "search", "insights", "media" or "palette"
  query,    \* what the user asked last; None for an empty search
  timer,    \* search: the 200 ms before the call
  live,     \* the queries of calls that were not aborted
  more,     \* media: the query of a call for older items, which has no signal
  shown,    \* the queries whose results are on the page
  loading, failed,
  open, loaded,  \* palette
  mixed,    \* older items were under way when the filter changed (history)
  steps, faults

vars == <<page, query, timer, live, more, shown, loading, failed, open, loaded, mixed, steps, faults>>

TypeOK ==
  /\ page \in {"search", "insights", "media", "palette"}
  /\ query \in Query \cup {None} /\ timer \in BOOLEAN
  /\ live \subseteq Query /\ more \in Query \cup {None} /\ shown \subseteq Query
  /\ {loading, failed, open, loaded, mixed} \subseteq BOOLEAN
  /\ {steps, faults} \subseteq Nat

\* The insights and the media library ask for something from the start.
Init ==
  /\ page \in {"search", "insights", "media", "palette"}
  /\ IF page \in {"insights", "media"} THEN query \in Query /\ live = {query}
     ELSE query = None /\ live = {}
  /\ loading = (page = "insights")
  /\ timer = FALSE /\ more = None /\ shown = {} /\ failed = FALSE
  /\ open = FALSE /\ loaded = FALSE /\ mixed = FALSE
  /\ steps = 0 /\ faults = 0

Step == steps < MaxSteps /\ steps' = steps + 1

-----------------------------------------------------------------------------
(* useLatestRequest *)

\* Faulty variant: the call before goes on.
NextSignalOnly(q) == live' = live \cup {q}

\* The call before is aborted, and its answer never shown.
NextSignal(q) == live' = {q}
Abort == live' = {}

-----------------------------------------------------------------------------
(* The search waits until typing pauses. *)

Search(q) ==
  /\ page = "search" /\ Step /\ q # query
  /\ query' = q /\ Abort
  /\ timer' = (q # None) /\ loading' = (q # None)
  /\ shown' = IF q = None THEN {} ELSE shown
  /\ failed' = FALSE
  /\ UNCHANGED <<page, more, open, loaded, mixed, faults>>

Pause ==
  /\ timer /\ timer' = FALSE
  /\ NextSignal(query)
  /\ UNCHANGED <<page, query, more, shown, loading, failed, open, loaded, mixed, steps, faults>>

\* Another period, or Retry.
LoadAnalytics(q) ==
  /\ page = "insights" /\ Step
  /\ query' = q /\ NextSignal(q)
  /\ loading' = TRUE /\ failed' = FALSE
  /\ UNCHANGED <<page, timer, more, shown, open, loaded, mixed, faults>>

\* Another filter, or the load that ends every operation on an asset.
LoadMedia(q) ==
  /\ page = "media" /\ Step
  /\ query' = q /\ NextSignal(q)
  /\ mixed' = (mixed \/ more # None)
  /\ failed' = FALSE
  /\ UNCHANGED <<page, timer, more, shown, loading, open, loaded, faults>>

\* The button is closed while a call is under way, but the filter is not.
LoadMoreAssets ==
  /\ page = "media" /\ more = None /\ shown # {} /\ Step
  /\ more' = query
  /\ mixed' = (mixed \/ live # {})
  /\ UNCHANGED <<page, query, timer, live, shown, loading, failed, open, loaded, faults>>

AnswerMore ==
  /\ more # None /\ more' = None
  /\ \/ shown' = shown \cup {more} /\ UNCHANGED faults
     \/ faults < MaxFaults /\ faults' = faults + 1 /\ UNCHANGED shown
  /\ UNCHANGED <<page, query, timer, live, loading, failed, open, loaded, mixed, steps>>

Answer(q) ==
  /\ q \in live /\ live' = live \ {q}
  /\ shown' = {q} /\ loading' = FALSE
  /\ mixed' = (mixed /\ more # None)
  /\ UNCHANGED <<page, query, timer, more, failed, open, loaded, steps, faults>>

\* The search and the library show nothing then, the insights a message.
Fail(q) ==
  /\ q \in live /\ live' = live \ {q}
  /\ faults < MaxFaults /\ faults' = faults + 1
  /\ shown' = IF page = "insights" THEN shown ELSE {}
  /\ loading' = FALSE /\ failed' = TRUE
  /\ UNCHANGED <<page, query, timer, more, open, loaded, mixed, steps>>

-----------------------------------------------------------------------------
(* The command palette loads the documents when it is opened first. *)

Toggle ==
  /\ page = "palette" /\ Step /\ open' = ~open
  /\ UNCHANGED <<page, query, timer, live, more, shown, loading, failed, loaded, mixed, faults>>

\* The effect depends on the flag it sets: the next rendering runs its cleanup
\* and aborts the call that was just made.
LoadDocuments ==
  /\ page = "palette" /\ open /\ ~loaded
  /\ loaded' = TRUE /\ Abort
  /\ UNCHANGED <<page, query, timer, more, shown, loading, failed, open, mixed, steps, faults>>

\* The abort takes the flag back, and the effect runs again.
SeeAbort ==
  /\ page = "palette" /\ loaded
  /\ loaded' = FALSE
  /\ UNCHANGED <<page, query, timer, live, more, shown, loading, failed, open, mixed, steps, faults>>

Next ==
  \/ \E q \in Query \cup {None} : Search(q)
  \/ \E q \in Query : LoadAnalytics(q) \/ LoadMedia(q) \/ Answer(q) \/ Fail(q)
  \/ Pause \/ LoadMoreAssets \/ AnswerMore \/ Toggle \/ LoadDocuments \/ SeeAbort

Spec == Init /\ [][Next]_vars

-----------------------------------------------------------------------------
(* Properties. *)

\* However fast the user asks again, the page ends with the results of what was
\* asked last and of nothing else, unless that call failed or older items were
\* under way when the filter of the library changed; and it says that it loads
\* exactly while it does.
LatestShown ==
  /\ page # "palette" /\ live = {} /\ ~timer /\ more = None /\ ~failed /\ ~mixed
       => shown = {query} \ {None}
  /\ page \in {"search", "insights"} => (loading <=> timer \/ live # {})
=============================================================================
