------------------------------ MODULE Members ------------------------------
(***************************************************************************)
(* Workspaces, their members and the invitations that make members:        *)
(* backend/src/workspaces and backend/src/invitations.                     *)
(*                                                                         *)
(* Each action is the code between two awaits of one request; req[r] is    *)
(* what the request keeps in its local variables.  The id of a membership  *)
(* matters: changeMemberRole and removeMember write to the _id they found, *)
(* which misses a membership that was removed and made again.              *)
(* Audit entries, mails, slugs and the Git settings are left out.          *)
(***************************************************************************)
EXTENDS Naturals, FiniteSets

CONSTANTS
  User, Workspace,
  Invite,       \* identities of invitations
  Req,          \* requests in flight at once
  MaxRequests,  \* bound on the requests ever started
  MaxFaults,    \* bound on rejected awaits and process deaths
  None

ASSUME UserAssumption  == IsFiniteSet(User)
ASSUME BoundAssumption == {MaxRequests, MaxFaults} \subseteq Nat
ASSUME NoneAssumption  == None \notin User \cup Workspace \cup Invite

VARIABLES
  exists,   \* workspaces whose record is stored
  member,   \* member[w][u]: the membership of u in w, or Absent
  nextId,   \* the next _id
  invite,   \* invite[i]: the invitation, or Unissued
  req,      \* local variables of the requests in flight
  started, faults,  \* counters behind the bounds
  (* History variables. *)
  ready,    \* workspaces whose creation resolved
  raced,    \* workspaces in which two role changes or removals overlapped
  admitted, \* admitted[i]: memberships the invitation has made
  doubtful  \* invitations two acceptances of which overlapped, or one of
            \* which was interrupted before it could mark the invitation

people == <<exists, member, nextId>>
ghosts == <<ready, raced, admitted, doubtful>>
bounds == <<started, faults>>
vars   == <<people, invite, req, ghosts, bounds>>

Role   == {"owner", "editor", "viewer"}
Status == {"pending", "accepted", "revoked", "expired"}

Absent   == [role |-> "none", id |-> 0]
Unissued == [ws |-> None, user |-> None, role |-> "viewer",
             status |-> "unissued", late |-> FALSE]

Membership == {Absent} \cup [role: Role, id: Nat \ {0}]

Invitation ==
  [ws: Workspace \cup {None},  \* the workspace
   user: User \cup {None},     \* the owner of its e-mail address
   role: Role,
   status: Status \cup {"unissued"},
   late: BOOLEAN]              \* expiresAt has passed

Request ==
  [op: {"none", "create", "change", "remove", "accept", "revoke"},
   pc: {"idle", "own", "find", "count", "write", "look", "join", "mark"},
   ws: Workspace \cup {None},
   user: User \cup {None},     \* the member concerned
   role: Role,                 \* the role to give
   seen: Membership,           \* the membership found
   invite: Invite \cup {None},
   status: Status]             \* the status to save

Idle == [op |-> "none", pc |-> "idle", ws |-> None, user |-> None,
         role |-> "viewer", seen |-> Absent, invite |-> None,
         status |-> "pending"]

TypeOK ==
  /\ exists \subseteq Workspace
  /\ member \in [Workspace -> [User -> Membership]]
  /\ nextId \in Nat \ {0}
  /\ invite \in [Invite -> Invitation]
  /\ req \in [Req -> Request]
  /\ started \in Nat
  /\ faults \in Nat
  /\ ready \subseteq Workspace
  /\ raced \subseteq Workspace
  /\ admitted \in [Invite -> Nat]
  /\ doubtful \subseteq Invite

Init ==
  /\ exists = {}
  /\ member = [w \in Workspace |-> [u \in User |-> Absent]]
  /\ nextId = 1
  /\ invite = [i \in Invite |-> Unissued]
  /\ req = [r \in Req |-> Idle]
  /\ started = 0
  /\ faults = 0
  /\ ready = {}
  /\ raced = {}
  /\ admitted = [i \in Invite |-> 0]
  /\ doubtful = {}

At(r, pc) == req[r].pc = pc
Finish(r) == req' = [req EXCEPT ![r] = Idle]
Owners(w) == {u \in User : member[w][u].role = "owner"}

Begin(r, s) ==
  /\ At(r, "idle")
  /\ started < MaxRequests
  /\ started' = started + 1
  /\ req' = [req EXCEPT ![r] = s]

\* One new membership document.
Join(w, u, role) ==
  /\ member' = [member EXCEPT ![w][u] = [role |-> role, id |-> nextId]]
  /\ nextId' = nextId + 1

-----------------------------------------------------------------------------
(* createWithOwner: the workspace, then the membership of its owner. *)

CreateWorkspace(r) ==
  \E w \in Workspace \ exists, u \in User :
    /\ Begin(r, [Idle EXCEPT !.op = "create", !.pc = "own", !.ws = w, !.user = u])
    /\ exists' = exists \cup {w}
    /\ UNCHANGED <<member, nextId, invite, faults, ghosts>>

OwnWorkspace(r) ==
  LET w == req[r].ws
  IN  /\ At(r, "own")
      /\ Join(w, req[r].user, "owner")
      /\ ready' = ready \cup {w}
      /\ Finish(r)
      /\ UNCHANGED <<exists, invite, raced, admitted, doubtful, bounds>>

-----------------------------------------------------------------------------
(* changeMemberRole and removeMember, once the guards have seen an owner. *)

\* Another request is changing or removing a member of w.
Changing(r, w) ==
  \E q \in Req \ {r} : req[q].op \in {"change", "remove"} /\ req[q].ws = w

StartChange(r) ==
  \E w \in Workspace, u \in User, role \in Role, op \in {"change", "remove"} :
    /\ Owners(w) # {}
    /\ op = "remove" => role = "viewer"
    /\ Begin(r, [Idle EXCEPT !.op = op, !.pc = "find", !.ws = w, !.user = u,
                             !.role = role])
    /\ raced' = IF Changing(r, w) THEN raced \cup {w} ELSE raced
    /\ UNCHANGED <<people, invite, faults, ready, admitted, doubtful>>

\* The request takes an owner away.
Demotes(s) == s.seen.role = "owner" /\ (s.op = "change" => s.role # "owner")

FindMember(r) ==
  LET m == member[req[r].ws][req[r].user]
  IN  /\ At(r, "find")
      /\ IF m = Absent THEN Finish(r)
         ELSE req' = [req EXCEPT ![r].seen = m,
                ![r].pc = IF Demotes([req[r] EXCEPT !.seen = m])
                            THEN "count" ELSE "write"]
      /\ UNCHANGED <<people, invite, ghosts, bounds>>

\* Faulty variant: off by one.
CountOwnersLoose(r) ==
  /\ At(r, "count")
  /\ IF Cardinality(Owners(req[r].ws)) < 1
       THEN Finish(r) ELSE req' = [req EXCEPT ![r].pc = "write"]
  /\ UNCHANGED <<people, invite, ghosts, bounds>>

\* assertNotLastOwner.
CountOwners(r) ==
  /\ At(r, "count")
  /\ IF Cardinality(Owners(req[r].ws)) <= 1
       THEN Finish(r) ELSE req' = [req EXCEPT ![r].pc = "write"]
  /\ UNCHANGED <<people, invite, ghosts, bounds>>

\* Faulty variant: a removal clears the role and keeps the record.
ClearMember(r) ==
  LET s == req[r]
      m == member[s.ws][s.user]
  IN  /\ At(r, "write")
      /\ member' = IF m.id # s.seen.id THEN member
                   ELSE [member EXCEPT ![s.ws][s.user] =
                           [m EXCEPT !.role = IF s.op = "remove" THEN "none" ELSE s.role]]
      /\ Finish(r)
      /\ UNCHANGED <<exists, nextId, invite, ghosts, bounds>>

\* updateOne or deleteOne by _id.
WriteMember(r) ==
  LET s == req[r]
      m == member[s.ws][s.user]
  IN  /\ At(r, "write")
      /\ member' = IF m.id # s.seen.id THEN member
                   ELSE [member EXCEPT ![s.ws][s.user] =
                           IF s.op = "remove" THEN Absent ELSE [m EXCEPT !.role = s.role]]
      /\ Finish(r)
      /\ UNCHANGED <<exists, nextId, invite, ghosts, bounds>>

-----------------------------------------------------------------------------
(* Invitations. *)

\* Owners and editors invite and revoke.
Managed(w) == \E v \in User : member[w][v].role \in {"owner", "editor"}

CreateInvitation(i) ==
  /\ invite[i] = Unissued
  /\ \E w \in Workspace, u \in User, role \in Role :
       /\ Managed(w)
       /\ invite' = [invite EXCEPT ![i] =
            [ws |-> w, user |-> u, role |-> role, status |-> "pending", late |-> FALSE]]
  /\ UNCHANGED <<people, req, ghosts, bounds>>

\* expiresAt passes.
PassExpiry(i) ==
  /\ invite[i].status # "unissued" /\ ~invite[i].late
  /\ invite' = [invite EXCEPT ![i].late = TRUE]
  /\ UNCHANGED <<people, req, ghosts, bounds>>

\* accept reads the invitation; one that is not pending is refused.
StartAccept(r) ==
  \E i \in Invite :
    /\ invite[i].status = "pending"
    /\ Begin(r, [Idle EXCEPT !.op = "accept", !.ws = invite[i].ws, !.invite = i,
                             !.user = invite[i].user, !.role = invite[i].role,
                             !.pc = IF invite[i].late THEN "mark" ELSE "look",
                             !.status = IF invite[i].late THEN "expired" ELSE "accepted"])
    /\ doubtful' = IF \E q \in Req \ {r} : req[q].op = "accept" /\ req[q].invite = i
                     THEN doubtful \cup {i} ELSE doubtful
    /\ UNCHANGED <<people, invite, faults, ready, raced, admitted>>

\* addMember: an existing membership is kept as it is.
LookMember(r) ==
  /\ At(r, "look")
  /\ req' = [req EXCEPT ![r].pc =
       IF member[req[r].ws][req[r].user] = Absent THEN "join" ELSE "mark"]
  /\ UNCHANGED <<people, invite, ghosts, bounds>>

\* The unique index refuses a second membership; accept then rejects.
JoinWorkspace(r) ==
  LET s == req[r]
  IN  /\ At(r, "join")
      /\ \/ /\ member[s.ws][s.user] # Absent
            /\ Finish(r)
            /\ UNCHANGED <<member, nextId, admitted>>
         \/ /\ member[s.ws][s.user] = Absent
            /\ Join(s.ws, s.user, s.role)
            /\ admitted' = [admitted EXCEPT ![s.invite] = @ + 1]
            /\ req' = [req EXCEPT ![r].pc = "mark"]
      /\ UNCHANGED <<exists, invite, ready, raced, doubtful, bounds>>

StartRevoke(r) ==
  \E i \in Invite :
    /\ invite[i].status = "pending" /\ Managed(invite[i].ws)
    /\ Begin(r, [Idle EXCEPT !.op = "revoke", !.pc = "mark", !.invite = i,
                             !.status = "revoked"])
    /\ UNCHANGED <<people, invite, faults, ghosts>>

\* Faulty variant: the status is not saved.
MarkNothing(r) ==
  /\ At(r, "mark")
  /\ Finish(r)
  /\ UNCHANGED <<people, invite, ghosts, bounds>>

\* invitation.save() writes the status whatever it has become meanwhile.
MarkInvitation(r) ==
  /\ At(r, "mark")
  /\ invite' = [invite EXCEPT ![req[r].invite].status = req[r].status]
  /\ Finish(r)
  /\ UNCHANGED <<people, ghosts, bounds>>

-----------------------------------------------------------------------------
\* An await of r rejects, or the process dies while r is under way.
Fail(r) ==
  /\ ~At(r, "idle")
  /\ faults < MaxFaults
  /\ faults' = faults + 1
  /\ doubtful' = IF req[r].op = "accept" THEN doubtful \cup {req[r].invite} ELSE doubtful
  /\ Finish(r)
  /\ UNCHANGED <<people, invite, started, ready, raced, admitted>>

Change(r) == StartChange(r) \/ FindMember(r) \/ CountOwners(r) \/ WriteMember(r)

Next ==
  \/ \E r \in Req :
       \/ CreateWorkspace(r) \/ OwnWorkspace(r) \/ Change(r)
       \/ StartAccept(r) \/ LookMember(r) \/ JoinWorkspace(r)
       \/ StartRevoke(r) \/ MarkInvitation(r) \/ Fail(r)
  \/ \E i \in Invite : CreateInvitation(i) \/ PassExpiry(i)

Spec == Init /\ [][Next]_vars

-----------------------------------------------------------------------------
(* Properties. *)

\* assertNotLastOwner keeps an owner in every workspace that was handed to one,
\* through role changes, removals, acceptances, revocations and interruptions,
\* as long as no two role changes or removals in that workspace overlap.
OwnerKept == \A w \in ready \ raced : Owners(w) # {}

\* The last owner can be neither demoted nor removed.
LastOwnerStays == \A w \in ready : Owners(w) # {}

\* An invitation makes one membership, although its member may be removed and
\* come back with the same link, unless two acceptances overlapped or one was
\* interrupted.
AdmitsOnce == \A i \in Invite \ doubtful : admitted[i] <= 1
============================================================================
