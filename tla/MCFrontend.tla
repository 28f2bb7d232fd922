----------------------------- MODULE MCFrontend -----------------------------
(***************************************************************************)
(* Small instances of the media service and of the pages.  As the parts    *)
(* never meet, one set of symmetric values serves them all: the requests   *)
(* of Media are also the calls of Panels, the revisions of DocPage and the *)
(* names of Listing.                                                       *)
(***************************************************************************)
EXTENDS Frontend, TLC

CONSTANTS
  v1, v2, v3, a1, a2, d1, d2,  \* Media: volumes, assets, places
  k1, k2, w1, w2,              \* Frontmatter: keys and words
  p1, p2                       \* paths, rows, queries and folders

(* Media: a local volume and two S3 volumes over one bucket. *)
MCPlace == [v \in Volume |-> IF v = v1 THEN d1 ELSE d2]
MCSize  == [a \in Asset |-> IF a = a1 THEN 1 ELSE 2]

(* Frontmatter: two schemas, and front matter with a key twice, lists in     *)
(* every style, commas within an item and lines that belong to no key.       *)
AText(k, must) == [key |-> k, type |-> "text", required |-> must, allowed |-> {}, default |-> <<>>]
AList(k)   == [key |-> k, type |-> "list", required |-> FALSE, allowed |-> {}, default |-> <<w1>>]
AChoice(k) == [key |-> k, type |-> "choice", required |-> FALSE, allowed |-> {w1}, default |-> <<>>]
ALine(k, s, items) == [key |-> k, style |-> s, items |-> items]
ABlank     == ALine(None, "other", <<>>)

MCSchemas == {<<AText(k1, TRUE)>>, <<AList(k1), AChoice(k2)>>}
MCLines ==
  {ABlank, ALine(k1, "list", <<<<w1>>, <<w1, w2>>>>), ALine(k2, "plain", <<<<w2>>>>)}
    \cup {ALine(k1, s, items) : s \in {"plain", "quoted"}, items \in {<<>>, <<<<w1, w2>>>>}}
MCContents ==
  {None} \cup UNION {[1..n -> MCLines] : n \in 0..2}
    \cup {<<ALine(k1, "plain", <<<<w1>>>>), ABlank, ALine(k1, "quoted", <<<<w1, w2>>>>)>>,
          <<ABlank, ALine(k2, "list", <<<<w1>>, <<w2>>>>), ABlank>>}
MCBodies == UNION {[1..n -> {"word", "newline"}] : n \in 0..4}

Symmetry == Permutations(Req) \cup Permutations({v2, v3}) \cup Permutations({p1, p2})
=============================================================================
