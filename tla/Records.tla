------------------------------ MODULE Records -------------------------------
(***************************************************************************)
(* What readers leave beside a document, keyed by its path: favourites,    *)
(* reads, the state of the review, public links, and the statistics        *)
(* computed from them (documents.service.ts, content-analytics.service.ts).*)
(*                                                                         *)
(* Saves, deletes and moves appear as what they do to these records: they  *)
(* touch none but the watches.  A decision of a reviewer is a sequence of   *)
(* awaits.                                                                 *)
(***************************************************************************)
EXTENDS Integers, FiniteSets, FiniteSetsExt, Sums

CONSTANTS
  Path, User,
  Link,         \* identities of public links
  MaxMs,        \* 3_600_000: the longest reading time recorded
  MaxChanges,   \* bound on the changes ever made
  MaxFaults,    \* bound on rejected awaits
  None

VARIABLES
  page,      \* page[p]: "none", "young" (at most 7 days old) or "old"
  hidden,    \* paths the access rules hide from the analyst
  favorite, watch,  \* pairs of user and path
  reads,     \* the read events
  review,    \* review[p]: the review record, or in_review without one
  link,      \* link[l]: the public link
  decision,  \* the decision of a reviewer under way
  told,      \* watchers told of the last decision
  started, faults

vars == <<page, hidden, favorite, watch, reads, review, link, decision,
          told, started, faults>>

Ages     == {"none", "young", "old"}
Verdicts == {"in_review", "approved", "changes_requested"}
NoLink   == [path |-> None, revoked |-> FALSE, expired |-> FALSE]
Pair     == User \X Path

\* user is None for a read with an API key; recent: within the period asked for.
Read == [user: User \cup {None}, path: Path, recent: BOOLEAN, ms: 0..MaxMs]
Links == {NoLink} \cup [path: Path, revoked: BOOLEAN, expired: BOOLEAN]
Decision == [pc: {"idle", "notify"}, path: Path \cup {None}, by: User \cup {None},
             due: SUBSET User]  \* watchers when the verdict was stored

TypeOK ==
  /\ page \in [Path -> Ages] /\ hidden \subseteq Path
  /\ favorite \subseteq Pair /\ watch \subseteq Pair
  /\ reads \subseteq Read
  /\ review \in [Path -> Verdicts]
  /\ link \in [Link -> Links]
  /\ decision \in Decision
  /\ told \subseteq User
  /\ {started, faults} \subseteq Nat

\* A workspace that may have pages already, none of them made this week.
Init ==
  /\ page \in [Path -> Ages \ {"young"}] /\ hidden \in SUBSET Path
  /\ favorite = {} /\ watch = {} /\ reads = {}
  /\ review = [p \in Path |-> "in_review"]
  /\ link = [l \in Link |-> NoLink]
  /\ decision = [pc |-> "idle", path |-> None, by |-> None, due |-> {}]
  /\ told = {}
  /\ started = 0 /\ faults = 0

Stored == {p \in Path : page[p] # "none"}
Change == started < MaxChanges /\ started' = started + 1 /\ UNCHANGED <<hidden, faults>>
Shift(pairs, from, to) == {x \in pairs : x[2] # from} \cup {<<x[1], to>> : x \in {y \in pairs : y[2] = from}}

-----------------------------------------------------------------------------
(* The document under the records. *)

SavePage(p) ==
  /\ Change /\ page[p] = "none"
  /\ page' = [page EXCEPT ![p] = "young"]
  /\ UNCHANGED <<favorite, watch, reads, review, link, decision, told>>

DeletePage(p) ==
  /\ Change /\ page[p] # "none"
  /\ page' = [page EXCEPT ![p] = "none"]
  /\ watch' = {x \in watch : x[2] # p}
  /\ UNCHANGED <<favorite, reads, review, link, decision, told>>

\* The record at the new path is a new one.
MovePage(from, to) ==
  /\ Change /\ page[from] # "none" /\ page[to] = "none"
  /\ page' = [page EXCEPT ![from] = "none", ![to] = "young"]
  /\ watch' = Shift(watch, from, to)
  /\ UNCHANGED <<favorite, reads, review, link, decision, told>>

\* Days pass: young pages grow old, reads leave the period and links expire.
DaysPass ==
  /\ Change
  /\ page' = [p \in Path |-> IF page[p] = "young" THEN "old" ELSE page[p]]
  /\ reads' = {[x EXCEPT !.recent = FALSE] : x \in reads}
  /\ link' = [l \in Link |-> IF link[l] = NoLink THEN NoLink ELSE [link[l] EXCEPT !.expired = TRUE]]
  /\ UNCHANGED <<favorite, watch, review, decision, told>>

-----------------------------------------------------------------------------
(* Reads, favourites and watches. *)

\* Faulty variant: the time the page reports is taken as it is.
ClampNot(ms) == ms

Clamp(ms) == Max({0, Min({ms, MaxMs})})

\* recordRead; a path need not exist, and the page may report any time.
RecordRead(u, p) ==
  /\ Change
  /\ \E ms \in {-1, MaxMs + 1} :
       reads' = reads \cup {[user |-> u, path |-> p, recent |-> TRUE, ms |-> Clamp(ms)]}
  /\ UNCHANGED <<page, favorite, watch, review, link, decision, told>>

Flip(pairs, x) == IF x \in pairs THEN pairs \ {x} ELSE pairs \cup {x}

SetFavorite(u, p) ==
  /\ Change /\ favorite' = Flip(favorite, <<u, p>>)
  /\ UNCHANGED <<page, watch, reads, review, link, decision, told>>

SetWatch(u, p) ==
  /\ Change /\ watch' = Flip(watch, <<u, p>>)
  /\ UNCHANGED <<page, favorite, reads, review, link, decision, told>>

\* recentlyViewed and listFavorites.
RecentlyViewed(u) == {x.path : x \in {y \in reads : y.user = u}} \cap (Stored \ hidden)
Favorites(u)      == {x[2] : x \in {y \in favorite : y[1] = u}}

-----------------------------------------------------------------------------
(* setReviewStatus: the verdict, then the notice to the watchers. *)

ResetReview(p) ==
  /\ Change /\ decision.pc = "idle" /\ review' = [review EXCEPT ![p] = "in_review"]
  /\ UNCHANGED <<page, favorite, watch, reads, link, decision, told>>

Watchers(p) == {x[1] : x \in {y \in watch : y[2] = p}}

Decide(u, p) ==
  /\ Change /\ decision.pc = "idle"
  /\ \E v \in Verdicts \ {"in_review"} : review' = [review EXCEPT ![p] = v]
  /\ decision' = [pc |-> "notify", path |-> p, by |-> u, due |-> Watchers(p)]
  /\ UNCHANGED <<page, favorite, watch, reads, link, told>>

\* Faulty variant: the reviewer is told, the others are not.
NotifyReviewer ==
  /\ decision.pc = "notify"
  /\ told' = {decision.by} \cap Watchers(decision.path)
  /\ decision' = [decision EXCEPT !.pc = "idle"]
  /\ UNCHANGED <<page, hidden, favorite, watch, reads, review, link, started, faults>>

NotifyReview ==
  /\ decision.pc = "notify"
  /\ told' = Watchers(decision.path) \ {decision.by}
  /\ decision' = [decision EXCEPT !.pc = "idle"]
  /\ UNCHANGED <<page, hidden, favorite, watch, reads, review, link, started, faults>>

-----------------------------------------------------------------------------
(* Public links. *)

CreateShareLink(l, p) ==
  /\ Change /\ link[l] = NoLink /\ p \in Stored
  /\ link' = [link EXCEPT ![l] = [path |-> p, revoked |-> FALSE, expired |-> FALSE]]
  /\ UNCHANGED <<page, favorite, watch, reads, review, decision, told>>

RevokeShareLink(l) ==
  /\ Change /\ link[l] # NoLink /\ ~link[l].revoked
  /\ link' = [link EXCEPT ![l].revoked = TRUE]
  /\ UNCHANGED <<page, favorite, watch, reads, review, decision, told>>

Usable(l) == link[l] # NoLink /\ ~link[l].revoked /\ ~link[l].expired

\* resolveShare, for a visitor without an account: the link, then the document
\* that is at its path by now; 404 in every other case.
ResolveShare(l) == IF Usable(l) THEN {link[l].path} \cap Stored ELSE {}

\* A rejected await ends the decision after its verdict was stored.
Fail ==
  /\ decision.pc # "idle" /\ faults < MaxFaults /\ faults' = faults + 1
  /\ decision' = [decision EXCEPT !.pc = "idle"]
  /\ UNCHANGED <<page, hidden, favorite, watch, reads, review, link, told, started>>

-----------------------------------------------------------------------------
(* Statistics. *)

Seen == Stored \ hidden

\* ContentAnalyticsService.get
ReadRows == {x \in reads : x.path \in Seen /\ x.recent}
MostRead == {x.path : x \in ReadRows}

\* Faulty variant: a page that was ever read is alive.
DeadNever == {p \in Seen : page[p] = "old" /\ ~\E x \in reads : x.path = p}

DeadPages == {p \in Seen : page[p] = "old" /\ p \notin MostRead}
Readers   == {x.user : x \in ReadRows} \ {None}

\* getStats: all reads, those of missing pages included.
Timed == {x \in reads : x.ms > 0}
AvgReadTime == IF Timed = {} THEN 0 ELSE SumOf([x \in Timed |-> x.ms], Timed) \div Cardinality(Timed)
ActiveWatchers == {x[1] : x \in watch}

-----------------------------------------------------------------------------
Document == \E p \in Path : SavePage(p) \/ DeletePage(p) \/ \E q \in Path : MovePage(p, q)

Reading == \E p \in Path :
  \/ \E u \in User : SetFavorite(u, p) \/ SetWatch(u, p)
  \/ \E u \in User \cup {None} : RecordRead(u, p)

Reviewing == \E p \in Path : ResetReview(p) \/ \E u \in User : Decide(u, p)
Sharing   == \E l \in Link : RevokeShareLink(l) \/ \E p \in Path : CreateShareLink(l, p)

Next == Document \/ Reading \/ Reviewing \/ NotifyReview \/ Sharing \/ DaysPass \/ Fail

Spec == Init /\ [][Next]_vars

-----------------------------------------------------------------------------
(* Properties. *)

\* The two halves of the analytics page cover the workspace: every visible page
\* older than a week is either among the most read or among the dead pages,
\* whatever was deleted, moved, made again or read before the period; and
\* no reported time, however wrong, makes the average one that cannot be.
AnalyticsCover == /\ {p \in Seen : page[p] = "old"} \subseteq MostRead \cup DeadPages
                  /\ MostRead \cap DeadPages = {}
                  /\ AvgReadTime \in 0..MaxMs

\* Whoever watched when a verdict was stored and still watches is told of it
\* once the request ends, except the reviewer, whom nobody tells.
VerdictStep ==
  decision.pc = "notify" /\ decision'.pc = "idle" /\ faults' = faults =>
    /\ (decision.due \cap Watchers(decision.path)) \ {decision.by} \subseteq told'
    /\ decision.by \notin told'

VerdictTold == [][VerdictStep]_vars
=============================================================================
