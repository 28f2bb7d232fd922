---------------------------- MODULE MCDocuments ----------------------------
(***************************************************************************)
(* Finite instances of Documents: a and b have the same file name in two   *)
(* folders, c another one.                                                 *)
(***************************************************************************)
EXTENDS Documents, TLC

CONSTANTS a, b, c, t1, t2, n1, n2

MCPath2 == {a, b}
MCPath3 == {a, b, c}
MCBase  == [p \in MCPath3 |-> IF p = c THEN n2 ELSE n1]
MCText  == {t1, t2}

Doc(t, l) == [text |-> t, links |-> l]

\* Requests in flight are interchangeable.
ReqSymmetry == Permutations(Req)

MCMutes == User \X {"comment"}

\* One document; c linking to a; a linking to itself.
SeedOne   == [p \in Path |-> IF p = a THEN Doc(t1, {}) ELSE None]
SeedLink  == [p \in Path |-> IF p = a THEN Doc(t1, {})
                             ELSE IF p = c THEN Doc(t1, {a}) ELSE None]
SeedSelf  == [p \in Path |-> IF p = a THEN Doc(t1, {a}) ELSE None]

DraftsLinks == {Doc(t1, {}), Doc(t1, {a}), Doc(t2, {b})}
DraftsOne   == {Doc(t2, {})}
DraftsTexts == {Doc(t1, {}), Doc(t2, {})}
============================================================================
