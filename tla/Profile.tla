------------------------------ MODULE Profile ------------------------------
(***************************************************************************)
(* The profile of the signed-in user, as the account page shows and edits  *)
(* it (app/account/page.tsx, lib/useProfile.ts, GET and PATCH /auth/me).   *)
(*                                                                         *)
(* The page holds the answer to its last GET; the form copies it when it   *)
(* opens and sends all its texts back.  A save is followed by a new GET    *)
(* that nothing waits for.                                                 *)
(***************************************************************************)
EXTENDS Naturals

CONSTANTS
  Text,       \* values of the name, the user name and the bio together
  Avatar,
  MaxSaves,   \* bound on the saves
  MaxFaults,  \* bound on calls that fail
  None

VARIABLES
  stored,   \* the record of the user
  profile,  \* what the page holds of it; None before the first answer
  form,     \* the fields of the open form, or None
  patch,    \* the PATCH under way, or None
  gets,     \* the GETs under way, with what each has read
  files,    \* pictures that are being read and scaled
  failed,   \* the page shows an error and nothing else
  (* History variables. *)
  behind,   \* a form opened while a GET or a picture was under way, or the
            \* answer to a save was lost
  unasked,  \* a save changed a field its form was not asked to change
  saves, faults

vars == <<stored, profile, form, patch, gets, files, failed, behind, unasked, saves, faults>>

User  == [text: Text, avatar: Avatar \cup {None}]
Form  == [text: Text \cup {None}, avatar: Avatar \cup {None}, typed: BOOLEAN, picked: BOOLEAN]
Patch == [text: Text, avatar: Avatar \cup {None}, typed: BOOLEAN, picked: BOOLEAN, done: BOOLEAN]
Get   == [id: Nat, seen: User \cup {None}]

TypeOK ==
  /\ stored \in User /\ profile \in User \cup {None}
  /\ form \in Form \cup {None} /\ patch \in Patch \cup {None}
  /\ gets \subseteq Get /\ files \subseteq Avatar
  /\ {failed, behind, unasked} \subseteq BOOLEAN /\ {saves, faults} \subseteq Nat

Init ==
  /\ stored \in [text: Text, avatar: {None}]
  /\ profile = None /\ form = None /\ patch = None /\ files = {}
  /\ gets = {[id |-> 0, seen |-> None]}
  /\ failed = FALSE /\ behind = FALSE /\ unasked = FALSE
  /\ saves = 0 /\ faults = 0

-----------------------------------------------------------------------------
(* The form. *)

OpenEdit ==
  /\ profile # None /\ form = None /\ ~failed
  /\ form' = [text |-> profile.text, avatar |-> profile.avatar, typed |-> FALSE, picked |-> FALSE]
  /\ behind' = (behind \/ gets # {} \/ files # {})
  /\ UNCHANGED <<stored, profile, patch, gets, files, failed, unasked, saves, faults>>

Type(t) ==
  /\ form # None /\ ~failed
  /\ form' = [form EXCEPT !.text = t, !.typed = TRUE]
  /\ UNCHANGED <<stored, profile, patch, gets, files, failed, behind, unasked, saves, faults>>

\* The dialog cannot be left while it saves.
Close ==
  /\ form # None /\ patch = None /\ ~failed
  /\ form' = None
  /\ UNCHANGED <<stored, profile, patch, gets, files, failed, behind, unasked, saves, faults>>

PickAvatar(a) ==
  /\ form # None /\ ~failed
  /\ files' = files \cup {a} /\ form' = [form EXCEPT !.picked = TRUE]
  /\ UNCHANGED <<stored, profile, patch, gets, failed, behind, unasked, saves, faults>>

\* A picture is ready, and taken into whatever form is open by then.
AvatarReady(a) ==
  /\ a \in files /\ files' = files \ {a}
  /\ form' = IF form = None THEN None ELSE [form EXCEPT !.avatar = a]
  /\ UNCHANGED <<stored, profile, patch, gets, failed, behind, unasked, saves, faults>>

-----------------------------------------------------------------------------
(* Saving. *)

\* The texts are sent as they are; an avatar when it is not the one of the profile
\* the page holds now.
Save ==
  /\ form # None /\ form.text # None /\ patch = None /\ ~failed
  /\ saves < MaxSaves /\ saves' = saves + 1
  /\ patch' = [text |-> form.text, avatar |-> IF form.avatar = profile.avatar THEN None ELSE form.avatar,
               typed |-> form.typed, picked |-> form.picked, done |-> FALSE]
  /\ UNCHANGED <<stored, profile, form, gets, files, failed, behind, unasked, faults>>

\* $set of the fields that were sent.
Updated(u, p) == [u EXCEPT !.text = p.text, !.avatar = IF p.avatar = None THEN @ ELSE p.avatar]

UpdateProfile ==
  /\ patch # None /\ ~patch.done
  /\ LET u == Updated(stored, patch) IN
       /\ stored' = u
       /\ unasked' = \/ unasked
                     \/ u.text # stored.text /\ ~patch.typed
                     \/ u.avatar # stored.avatar /\ ~patch.picked
  /\ patch' = [patch EXCEPT !.done = TRUE]
  /\ UNCHANGED <<profile, form, gets, files, failed, behind, saves, faults>>

Reload == gets' = gets \cup {[id |-> saves, seen |-> None]}

\* The form closes without waiting for the new profile.
EndSave ==
  /\ patch # None /\ patch.done
  /\ Reload /\ patch' = None /\ form' = None
  /\ UNCHANGED <<stored, profile, files, failed, behind, unasked, saves, faults>>

\* Refused or lost, the form stays; there is no new GET.
FailSave ==
  /\ patch # None /\ faults < MaxFaults /\ faults' = faults + 1
  /\ patch' = None /\ behind' = (behind \/ patch.done)
  /\ UNCHANGED <<stored, profile, form, gets, files, failed, unasked, saves>>

-----------------------------------------------------------------------------
(* useProfile. *)

GetProfile(g) ==
  /\ g \in gets /\ g.seen = None
  /\ gets' = (gets \ {g}) \cup {[g EXCEPT !.seen = stored]}
  /\ UNCHANGED <<stored, profile, form, patch, files, failed, behind, unasked, saves, faults>>

\* Answers are shown as they come, a later one perhaps first.
SetProfile(g) ==
  /\ g \in gets /\ g.seen # None
  /\ profile' = g.seen /\ gets' = gets \ {g}
  /\ UNCHANGED <<stored, form, patch, files, failed, behind, unasked, saves, faults>>

\* The error takes the place of the page; a 401 leaves for the login.
FailGet(g) ==
  /\ g \in gets /\ faults < MaxFaults /\ faults' = faults + 1
  /\ failed' = TRUE /\ gets' = gets \ {g}
  /\ UNCHANGED <<stored, profile, form, patch, files, behind, unasked, saves>>

Next ==
  \/ OpenEdit \/ Close \/ Save \/ UpdateProfile \/ EndSave \/ FailSave
  \/ \E t \in Text \cup {None} : Type(t)
  \/ \E a \in Avatar : PickAvatar(a) \/ AvatarReady(a)
  \/ \E g \in gets : GetProfile(g) \/ SetProfile(g) \/ FailGet(g)

Spec == Init /\ [][Next]_vars

-----------------------------------------------------------------------------
(* Properties. *)

\* A save changes what its form was asked to change and brings no older value
\* back, unless the form opened before the answer to an earlier save was shown;
\* and unless that happened, the page ends with the profile as it is stored.
ProfileSound ==
  ~behind => /\ ~unasked
             /\ gets = {} /\ patch = None /\ ~failed => profile = stored
=============================================================================
