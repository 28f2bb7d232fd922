----------------------------- MODULE MCMembers -----------------------------
(***************************************************************************)
(* Finite instances of Members.  Users, invitations and requests are       *)
(* interchangeable.                                                        *)
(***************************************************************************)
EXTENDS Members, TLC

Symmetry == Permutations(User) \cup Permutations(Invite) \cup Permutations(Req)
============================================================================
