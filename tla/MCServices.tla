----------------------------- MODULE MCServices -----------------------------
(***************************************************************************)
(* Small instances of the services.  As the parts never meet, one set of   *)
(* symmetric values serves them all: the requests are also the notices of  *)
(* Inbox, and the paths are users.                                         *)
(***************************************************************************)
EXTENDS Services, TLC

CONSTANTS
  u1, f1, f2, pd, pf  \* a viewer, files, a rule path for both and one for f1

MCCovers == [p \in RulePath |-> IF p = pd THEN {f1, f2} ELSE {f1}]
MCLength == [p \in RulePath |-> IF p = pd THEN 1 ELSE 2]
MCRoleOf == [u \in Viewer |-> "viewer"]

Symmetry == Permutations(Req) \cup Permutations(Path)
=============================================================================
