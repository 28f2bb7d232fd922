--------------------------- MODULE MembersProofs ---------------------------
(***************************************************************************)
(* Theorems about workspaces and their members, for any finite set of      *)
(* users, any workspaces, invitations, requests in flight and faults.      *)
(*                                                                         *)
(*   MembersTyped  variables keep their types                              *)
(*   OwnerSafe     a workspace keeps an owner unless two role changes or   *)
(*                 removals in it overlap                                  *)
(*   InvitationSafe  an invitation makes one membership unless two of its  *)
(*                 acceptances overlap or one is interrupted               *)
(*                                                                         *)
(* OwnerKept is not inductive.  While a request is about to take an owner  *)
(* away, what keeps the workspace owned is another owner, whom nothing but *)
(* a second request of that kind could take away; and the membership it    *)
(* has found is still what it was, if its _id still is there.  Nor is      *)
(* AdmitsOnce: what keeps an invitation that has admitted somebody from    *)
(* doing it again is that it is marked, or about to be by the one request  *)
(* that accepts it.                                                        *)
(***************************************************************************)
EXTENDS Members, FiniteSetTheorems, TLAPS

Reducing == {"change", "remove"}

WellFormed(s) ==
  /\ s.pc \in {"find", "count", "write"} <=> s.op \in Reducing
  /\ s.pc \notin {"idle", "mark"} => s.ws \in Workspace /\ s.user \in User
  /\ s.pc \in {"count", "write"} => s.seen.id # 0
  /\ s.pc = "count" => Demotes(s)
  /\ s.pc \in {"look", "join", "mark"} => s.invite \in Invite
  /\ s.op = "accept" => s.invite \in Invite

Issued(i) == invite[i].ws \in Workspace /\ invite[i].user \in User

Typed ==
  /\ TypeOK
  /\ \A r \in Req : WellFormed(req[r])
  /\ \A r \in Req : req[r].invite \in Invite => Issued(req[r].invite)
  /\ \A i \in Invite : invite[i].status # "unissued" => Issued(i)

\* What a step has to keep of the requests; the invitations are those before it.
ReqKept ==
  /\ req' \in [Req -> Request]
  /\ \A q \in Req : WellFormed(req'[q])
  /\ \A q \in Req : req'[q].invite \in Invite => Issued(req'[q].invite)

LEMMA ReqStep ==
  ASSUME Typed, NEW r \in Req, NEW s \in Request, WellFormed(s),
         s.invite \in Invite => Issued(s.invite),
         req' = [req EXCEPT ![r] = s]
  PROVE  ReqKept
  BY DEF Typed, TypeOK, ReqKept

LEMMA IdleOK == Idle \in Request /\ WellFormed(Idle) /\ Idle.invite \notin Invite
<1>1. Idle \in Request
  BY DEF Idle, Request, Membership, Role, Status
<1>2. WellFormed(Idle)
  BY DEF Idle, WellFormed, Reducing, Absent
<1>3. Idle.invite \notin Invite
  BY NoneAssumption DEF Idle
<1>4. QED BY <1>1, <1>2, <1>3

LEMMA FinishStep ==
  ASSUME Typed, NEW r \in Req, Finish(r)
  PROVE  ReqKept
  BY IdleOK, ReqStep DEF Finish

LEMMA JoinTyped ==
  ASSUME Typed, NEW w \in Workspace, NEW u \in User, NEW role \in Role,
         Join(w, u, role)
  PROVE  /\ member' \in [Workspace -> [User -> Membership]]
         /\ nextId' \in Nat \ {0}
<1>1. [role |-> role, id |-> nextId] \in Membership
  BY DEF Typed, TypeOK, Membership
<1>2. QED BY <1>1 DEF Join, Typed, TypeOK

LEMMA InitTyped == Init => Typed
<1> SUFFICES ASSUME Init
             PROVE  Typed
  OBVIOUS
<1>1. Unissued \in Invitation
  BY DEF Unissued, Invitation, Role
<1>2. TypeOK
  BY <1>1, IdleOK DEF Init, TypeOK, Membership
<1>3. QED BY <1>2, IdleOK DEF Init, Typed, Unissued

LEMMA CreateTyped ==
  ASSUME Typed, NEW r \in Req, CreateWorkspace(r) \/ OwnWorkspace(r)
  PROVE  Typed'
<1>1. CASE CreateWorkspace(r)
  <2>1. PICK w \in Workspace \ exists, u \in User :
          Begin(r, [Idle EXCEPT !.op = "create", !.pc = "own", !.ws = w, !.user = u])
    BY <1>1 DEF CreateWorkspace
  <2> DEFINE s == [Idle EXCEPT !.op = "create", !.pc = "own", !.ws = w, !.user = u]
  <2>2. s \in Request
    BY IdleOK DEF Request
  <2>3. s.op = "create" /\ s.pc = "own" /\ s.ws = w /\ s.user = u
        /\ s.invite \notin Invite
    BY IdleOK DEF Idle
  <2>4. WellFormed(s)
    BY <2>3 DEF WellFormed, Reducing
  <2>5. ReqKept
    BY <2>1, <2>2, <2>3, <2>4, ReqStep DEF Begin
  <2>6. started' \in Nat
    BY <2>1 DEF Begin, Typed, TypeOK
  <2>7. QED
    BY <1>1, <2>5, <2>6 DEF CreateWorkspace, Typed, TypeOK, Issued, ReqKept, ghosts
<1>2. CASE OwnWorkspace(r)
  <2>1. req[r].ws \in Workspace /\ req[r].user \in User
    BY <1>2 DEF OwnWorkspace, At, Typed, WellFormed
  <2>2. /\ member' \in [Workspace -> [User -> Membership]]
        /\ nextId' \in Nat \ {0}
    BY <1>2, <2>1, JoinTyped DEF OwnWorkspace, Role
  <2>3. ReqKept
    BY <1>2, FinishStep DEF OwnWorkspace
  <2>4. QED
    BY <1>2, <2>1, <2>2, <2>3 DEF OwnWorkspace, Typed, TypeOK, Issued, ReqKept, bounds
<1>3. QED BY <1>1, <1>2

LEMMA ChangeTyped ==
  ASSUME Typed, NEW r \in Req, Change(r)
  PROVE  Typed'
<1>0. /\ req[r] \in Request /\ WellFormed(req[r])
      /\ req[r].invite \in Invite => Issued(req[r].invite)
  BY DEF Typed, TypeOK
<1>1. CASE StartChange(r)
  <2>1. PICK w \in Workspace, u \in User, role \in Role, op \in Reducing :
          /\ Begin(r, [Idle EXCEPT !.op = op, !.pc = "find", !.ws = w, !.user = u,
                                   !.role = role])
          /\ raced' = IF Changing(r, w) THEN raced \cup {w} ELSE raced
    BY <1>1 DEF StartChange, Reducing
  <2> DEFINE s == [Idle EXCEPT !.op = op, !.pc = "find", !.ws = w, !.user = u,
                               !.role = role]
  <2>2. s \in Request
    BY IdleOK DEF Request, Reducing
  <2>3. s.op \in Reducing /\ s.pc = "find" /\ s.ws = w /\ s.user = u
        /\ s.invite \notin Invite
    BY IdleOK DEF Idle
  <2>4. WellFormed(s)
    BY <2>3 DEF WellFormed, Reducing
  <2>5. ReqKept
    BY <2>1, <2>2, <2>3, <2>4, ReqStep DEF Begin
  <2>6. started' \in Nat
    BY <2>1 DEF Begin, Typed, TypeOK
  <2>7. QED
    BY <1>1, <2>1, <2>5, <2>6 DEF StartChange, Typed, TypeOK, Issued, ReqKept, people
<1>2. CASE FindMember(r)
  <2> DEFINE m == member[req[r].ws][req[r].user]
             pc == IF Demotes([req[r] EXCEPT !.seen = m]) THEN "count" ELSE "write"
             s == [req[r] EXCEPT !.seen = m, !.pc = pc]
  <2>1. req[r].pc = "find" /\ req[r].op \in Reducing
        /\ req[r].ws \in Workspace /\ req[r].user \in User
    BY <1>0, <1>2 DEF FindMember, At, WellFormed
  <2>2. m \in Membership
    BY <2>1 DEF Typed, TypeOK
  <2>3. ReqKept
    <3>1. CASE m = Absent
      BY <1>2, <3>1, FinishStep DEF FindMember
    <3>2. CASE m # Absent
      <4>1. m.id # 0
        BY <2>2, <3>2 DEF Membership
      <4>2. s \in Request
        BY <1>0, <2>2 DEF Request
      <4>3. /\ s.op = req[r].op /\ s.pc = pc /\ s.ws = req[r].ws
            /\ s.user = req[r].user /\ s.seen = m /\ s.role = req[r].role
            /\ s.invite = req[r].invite
        BY <1>0 DEF Request
      <4>4. s.pc = "count" => Demotes(s)
        BY <1>0, <4>3 DEF Demotes, Request
      <4>5. s.pc \in {"count", "write"}
        BY <4>3
      <4>6. WellFormed(s)
        BY <1>0, <2>1, <4>1, <4>3, <4>4, <4>5 DEF WellFormed, Reducing
      <4>7. req' = [req EXCEPT ![r] = s]
        BY <1>2, <3>2 DEF FindMember, Typed, TypeOK
      <4>8. QED BY <1>0, <4>2, <4>3, <4>6, <4>7, ReqStep
    <3>3. QED BY <3>1, <3>2
  <2>4. QED
    BY <1>2, <2>3 DEF FindMember, Typed, TypeOK, Issued, ReqKept, people, ghosts, bounds
<1>3. CASE CountOwners(r)
  <2> DEFINE s == [req[r] EXCEPT !.pc = "write"]
  <2>1. s \in Request
    BY <1>0 DEF Request
  <2>2. /\ s.op = req[r].op /\ s.pc = "write" /\ s.ws = req[r].ws
        /\ s.user = req[r].user /\ s.seen = req[r].seen /\ s.invite = req[r].invite
    BY <1>0 DEF Request
  <2>3. WellFormed(s)
    BY <1>0, <1>3, <2>2 DEF WellFormed, Reducing, CountOwners, At
  <2>4. ReqKept
    BY <1>0, <1>3, <2>1, <2>2, <2>3, FinishStep, ReqStep DEF CountOwners
  <2>5. QED
    BY <1>3, <2>4 DEF CountOwners, Typed, TypeOK, Issued, ReqKept, people, ghosts, bounds
<1>4. CASE WriteMember(r)
  <2> DEFINE s == req[r]
             m == member[s.ws][s.user]
             n == IF s.op = "remove" THEN Absent ELSE [m EXCEPT !.role = s.role]
  <2>1. s.ws \in Workspace /\ s.user \in User /\ s.seen.id # 0
    BY <1>0, <1>4 DEF WriteMember, At, WellFormed
  <2>2. m \in Membership /\ s.role \in Role
    BY <1>0, <2>1 DEF Typed, TypeOK, Request
  <2>3. m.id = s.seen.id => n \in Membership
    BY <2>1, <2>2 DEF Membership, Absent
  <2>4. member' \in [Workspace -> [User -> Membership]]
    BY <1>4, <2>1, <2>3 DEF WriteMember, Typed, TypeOK
  <2>5. ReqKept
    BY <1>4, FinishStep DEF WriteMember
  <2>6. QED
    BY <1>4, <2>4, <2>5 DEF WriteMember, Typed, TypeOK, Issued, ReqKept, ghosts, bounds
<1>5. QED BY <1>1, <1>2, <1>3, <1>4 DEF Change

LEMMA InvitationTyped ==
  ASSUME Typed, NEW i \in Invite, CreateInvitation(i) \/ PassExpiry(i)
  PROVE  Typed'
<1>1. /\ invite' \in [Invite -> Invitation]
      /\ \A j \in Invite : Issued(j) => Issued(j)'
      /\ \A j \in Invite : invite'[j].status # "unissued" => Issued(j)'
  <2>1. CASE CreateInvitation(i)
    <3>1. PICK w \in Workspace, u \in User, role \in Role :
            invite' = [invite EXCEPT ![i] = [ws |-> w, user |-> u, role |-> role,
                                             status |-> "pending", late |-> FALSE]]
      BY <2>1 DEF CreateInvitation
    <3>2. [ws |-> w, user |-> u, role |-> role, status |-> "pending", late |-> FALSE]
            \in Invitation
      BY DEF Invitation, Status
    <3>3. QED BY <3>1, <3>2 DEF Typed, TypeOK, Issued
  <2>2. CASE PassExpiry(i)
    BY ZenonT(60), <2>2 DEF PassExpiry, Typed, TypeOK, Issued, Invitation
  <2>3. QED BY <2>1, <2>2
<1>2. UNCHANGED <<people, req, ghosts, bounds>>
  BY DEF CreateInvitation, PassExpiry
<1>3. QED
  BY <1>1, <1>2 DEF Typed, TypeOK, people, ghosts, bounds

LEMMA AcceptTyped ==
  ASSUME Typed, NEW r \in Req, StartAccept(r) \/ LookMember(r) \/ JoinWorkspace(r)
  PROVE  Typed'
<1>0. /\ req[r] \in Request /\ WellFormed(req[r])
      /\ req[r].invite \in Invite => Issued(req[r].invite)
  BY DEF Typed, TypeOK
<1>1. CASE StartAccept(r)
  <2> DEFINE pc(i) == IF invite[i].late THEN "mark" ELSE "look"
             status(i) == IF invite[i].late THEN "expired" ELSE "accepted"
             s(i) == [Idle EXCEPT !.op = "accept", !.ws = invite[i].ws, !.invite = i,
                                  !.user = invite[i].user, !.role = invite[i].role,
                                  !.pc = pc(i), !.status = status(i)]
  <2>1. PICK i \in Invite : invite[i].status = "pending" /\ Begin(r, s(i))
    BY <1>1 DEF StartAccept
  <2>2. doubtful' \subseteq Invite
    BY <1>1 DEF StartAccept, Typed, TypeOK
  <2>3. Issued(i) /\ invite[i] \in Invitation
    BY <2>1 DEF Typed, TypeOK
  <2>4. s(i) \in Request
    BY <2>3, IdleOK DEF Request, Invitation, Issued, Status
  <2>5. /\ s(i).op = "accept" /\ s(i).pc \in {"mark", "look"}
        /\ s(i).ws = invite[i].ws /\ s(i).user = invite[i].user
        /\ s(i).invite = i
    BY DEF Idle
  <2>6. WellFormed(s(i))
    BY <2>3, <2>5 DEF WellFormed, Reducing, Issued
  <2>7. ReqKept
    BY <2>1, <2>3, <2>4, <2>5, <2>6, ReqStep DEF Begin
  <2>8. started' \in Nat
    BY <2>1 DEF Begin, Typed, TypeOK
  <2>9. QED
    BY <1>1, <2>2, <2>7, <2>8 DEF StartAccept, Typed, TypeOK, Issued, ReqKept, people
<1>2. CASE LookMember(r)
  <2> DEFINE pc == IF member[req[r].ws][req[r].user] = Absent THEN "join" ELSE "mark"
             s == [req[r] EXCEPT !.pc = pc]
  <2>1. s \in Request
    BY <1>0 DEF Request
  <2>2. /\ s.op = req[r].op /\ s.pc \in {"join", "mark"} /\ s.ws = req[r].ws
        /\ s.user = req[r].user /\ s.invite = req[r].invite
    BY <1>0 DEF Request
  <2>3. req[r].pc = "look" /\ req' = [req EXCEPT ![r] = s]
    BY <1>2 DEF LookMember, At
  <2>4. WellFormed(s)
    BY <1>0, <2>2, <2>3 DEF WellFormed, Reducing
  <2>5. ReqKept
    BY <1>0, <2>1, <2>2, <2>3, <2>4, ReqStep
  <2>6. QED
    BY <1>2, <2>5 DEF LookMember, Typed, TypeOK, Issued, ReqKept, people, ghosts, bounds
<1>3. CASE JoinWorkspace(r)
  <2> DEFINE s == [req[r] EXCEPT !.pc = "mark"]
  <2>1. /\ req[r].ws \in Workspace /\ req[r].user \in User
        /\ req[r].role \in Role /\ req[r].invite \in Invite
        /\ req[r].pc = "join"
    BY <1>0, <1>3 DEF JoinWorkspace, At, WellFormed, Request
  <2>2. CASE member[req[r].ws][req[r].user] # Absent
    <3>1. ReqKept /\ UNCHANGED <<member, nextId, admitted>>
      BY <1>3, <2>2, FinishStep DEF JoinWorkspace
    <3>2. QED
      BY <1>3, <3>1 DEF JoinWorkspace, Typed, TypeOK, Issued, ReqKept, bounds
  <2>3. CASE member[req[r].ws][req[r].user] = Absent
    <3>1. /\ s \in Request /\ s.op = req[r].op /\ s.pc = "mark"
          /\ s.ws = req[r].ws /\ s.user = req[r].user /\ s.invite = req[r].invite
      BY <1>0 DEF Request
    <3>2. WellFormed(s)
      BY <1>0, <2>1, <3>1 DEF WellFormed, Reducing
    <3>3. /\ Join(req[r].ws, req[r].user, req[r].role)
          /\ admitted' = [admitted EXCEPT ![req[r].invite] = @ + 1]
          /\ req' = [req EXCEPT ![r] = s]
      BY <1>3, <2>3 DEF JoinWorkspace
    <3>4. ReqKept
      BY <1>0, <3>1, <3>2, <3>3, ReqStep
    <3>5. /\ member' \in [Workspace -> [User -> Membership]]
          /\ nextId' \in Nat \ {0}
      BY <2>1, <3>3, JoinTyped
    <3>6. admitted' \in [Invite -> Nat]
      <4>1. admitted[req[r].invite] + 1 \in Nat
        BY <2>1 DEF Typed, TypeOK
      <4>2. QED BY <3>3, <4>1 DEF Typed, TypeOK
    <3>7. QED
      BY <1>3, <3>4, <3>5, <3>6
      DEF JoinWorkspace, Typed, TypeOK, Issued, ReqKept, bounds
  <2>4. QED BY <2>2, <2>3
<1>4. QED BY <1>1, <1>2, <1>3

LEMMA MarkTyped ==
  ASSUME Typed, NEW r \in Req, StartRevoke(r) \/ MarkInvitation(r) \/ Fail(r)
  PROVE  Typed'
<1>1. CASE StartRevoke(r)
  <2> DEFINE s(i) == [Idle EXCEPT !.op = "revoke", !.pc = "mark", !.invite = i,
                                  !.status = "revoked"]
  <2>1. PICK i \in Invite : invite[i].status = "pending" /\ Begin(r, s(i))
    BY <1>1 DEF StartRevoke
  <2>2. Issued(i)
    BY <2>1 DEF Typed
  <2>3. s(i) \in Request
    BY IdleOK DEF Request, Status
  <2>4. s(i).op = "revoke" /\ s(i).pc = "mark" /\ s(i).invite = i
    BY DEF Idle
  <2>5. WellFormed(s(i))
    BY <2>4 DEF WellFormed, Reducing
  <2>6. ReqKept
    BY <2>1, <2>2, <2>3, <2>4, <2>5, ReqStep DEF Begin
  <2>7. started' \in Nat
    BY <2>1 DEF Begin, Typed, TypeOK
  <2>8. QED
    BY <1>1, <2>6, <2>7
    DEF StartRevoke, Typed, TypeOK, Issued, ReqKept, people, ghosts
<1>2. CASE MarkInvitation(r)
  <2>1. req[r].invite \in Invite /\ req[r].status \in Status /\ Issued(req[r].invite)
    BY <1>2 DEF MarkInvitation, At, Typed, TypeOK, WellFormed, Request
  <2> DEFINE i == req[r].invite
             n == [invite[i] EXCEPT !.status = req[r].status]
  <2>2. /\ invite' \in [Invite -> Invitation]
        /\ \A j \in Invite : Issued(j) => Issued(j)'
        /\ \A j \in Invite : invite'[j].status # "unissued" => Issued(j)'
    <3>1. invite[i] \in Invitation
      BY <2>1 DEF Typed, TypeOK
    <3>2. n \in Invitation /\ n.ws = invite[i].ws /\ n.user = invite[i].user
      BY <2>1, <3>1 DEF Invitation
    <3>3. invite' = [invite EXCEPT ![i] = n]
      BY <1>2 DEF MarkInvitation
    <3>4. QED BY <2>1, <3>2, <3>3 DEF Typed, TypeOK, Issued
  <2>3. ReqKept
    BY <1>2, FinishStep DEF MarkInvitation
  <2>4. QED
    BY <1>2, <2>2, <2>3 DEF MarkInvitation, Typed, TypeOK, ReqKept, people, ghosts, bounds
<1>3. CASE Fail(r)
  <2>1. doubtful' \subseteq Invite
    BY <1>3 DEF Fail, Typed, TypeOK, WellFormed
  <2>2. ReqKept
    BY <1>3, FinishStep DEF Fail
  <2>3. QED
    BY <1>3, <2>1, <2>2 DEF Fail, Typed, TypeOK, Issued, ReqKept, people
<1>4. QED BY <1>1, <1>2, <1>3

LEMMA StepTyped == Typed /\ [Next]_vars => Typed'
<1> SUFFICES ASSUME Typed, [Next]_vars
             PROVE  Typed'
  OBVIOUS
<1>1. CASE UNCHANGED vars
  BY <1>1 DEF vars, people, ghosts, bounds, Typed, TypeOK, Issued
<1>2. CASE Next
  BY <1>2, CreateTyped, ChangeTyped, InvitationTyped, AcceptTyped, MarkTyped DEF Next
<1>3. QED BY <1>1, <1>2

\* Every variable keeps its type: what a request writes and follows after an
\* await is a membership, a user or an invitation that exists in the model.
THEOREM MembersTyped == Spec => []TypeOK
<1>1. Typed => TypeOK
  BY DEF Typed
<1>2. QED BY <1>1, InitTyped, StepTyped, PTL DEF Spec
-----------------------------------------------------------------------------
(* The last owner. *)

\* No membership, stored or found, has the next _id.
Fresh ==
  /\ \A w \in Workspace, u \in User : member[w][u].id < nextId
  /\ \A r \in Req : req[r].seen.id < nextId

\* Requests that change or remove members of one workspace have raced in it.
Alone ==
  \A q, r \in Req :
    q # r /\ req[q].op \in Reducing /\ req[r].op \in Reducing /\ req[q].ws = req[r].ws
      => req[r].ws \in raced

\* What a request has found is still so, if its _id still is there.
Same ==
  \A r \in Req :
    req[r].pc \in {"count", "write"} /\ req[r].ws \notin raced
    /\ member[req[r].ws][req[r].user].id = req[r].seen.id
      => member[req[r].ws][req[r].user] = req[r].seen

\* An owner other than u.
AnotherOwner(w, u) == \E v \in User \ {u} : member[w][v].role = "owner"

\* A request about to take an owner away leaves another one.
Covered ==
  \A r \in Req :
    req[r].pc = "write" /\ req[r].ws \notin raced /\ Demotes(req[r])
      => AnotherOwner(req[r].ws, req[r].user)

Owned == Fresh /\ Alone /\ Same /\ Covered /\ OwnerKept
IInv  == Typed /\ Owned

\* The step of a request that is not changing or removing a member, or is done.
LEMMA QuietStep ==
  ASSUME IInv, NEW r \in Req, NEW s \in Request,
         s.op \notin Reducing, s.pc \notin {"count", "write"}, s.seen.id < nextId,
         req' = [req EXCEPT ![r] = s],
         UNCHANGED <<member, nextId, ready>>, raced \subseteq raced'
  PROVE  Owned'
<1>1. /\ req'[r] = s
      /\ \A q \in Req : q # r => req'[q] = req[q]
  BY DEF IInv, Typed, TypeOK
<1>2. Fresh'
  BY <1>1 DEF IInv, Owned, Fresh
<1>3. Alone'
  BY <1>1 DEF IInv, Owned, Alone
<1>4. Same'
  BY <1>1 DEF IInv, Owned, Same
<1>5. Covered'
  <2>1. ASSUME NEW q \in Req, req'[q].pc = "write", req'[q].ws \notin raced',
               Demotes(req[q])'
        PROVE  AnotherOwner(req[q].ws, req[q].user)'
    <3>1. q # r /\ req'[q] = req[q]
      BY <1>1, <2>1
    <3>2. AnotherOwner(req[q].ws, req[q].user)
      BY <2>1, <3>1 DEF IInv, Owned, Covered
    <3>3. QED BY <3>1, <3>2 DEF AnotherOwner
  <2>2. QED BY <2>1 DEF Covered, Demotes
<1>6. OwnerKept'
  BY DEF IInv, Owned, OwnerKept, Owners
<1>7. QED BY <1>2, <1>3, <1>4, <1>5, <1>6 DEF Owned

LEMMA FinishOwned ==
  ASSUME IInv, NEW r \in Req, Finish(r),
         UNCHANGED <<member, nextId, ready>>, raced \subseteq raced'
  PROVE  Owned'
<1>1. /\ Idle \in Request /\ Idle.op \notin Reducing
      /\ Idle.pc \notin {"count", "write"}
  BY IdleOK DEF Idle, Reducing
<1>2. Idle.seen.id < nextId
  BY DEF Idle, Absent, IInv, Typed, TypeOK
<1>3. QED BY <1>1, <1>2, QuietStep DEF Finish

\* A new membership replaces no owner by another role.
LEMMA JoinOwned ==
  ASSUME IInv, NEW r \in Req, NEW s \in Request,
         s.op \notin Reducing, s.pc \notin {"count", "write"}, s.seen.id < nextId,
         req' = [req EXCEPT ![r] = s],
         NEW w \in Workspace, NEW u \in User, NEW role \in Role, Join(w, u, role),
         member[w][u] = Absent \/ role = "owner",
         ready' = ready \/ (role = "owner" /\ ready' = ready \cup {w}),
         raced' = raced
  PROVE  Owned'
<1>1. /\ req'[r] = s
      /\ \A q \in Req : q # r => req'[q] = req[q]
  BY DEF IInv, Typed, TypeOK
<1>2. /\ member'[w][u] = [role |-> role, id |-> nextId]
      /\ \A x \in Workspace, v \in User :
           x # w \/ v # u => member'[x][v] = member[x][v]
      /\ nextId' = nextId + 1 /\ nextId \in Nat
  BY DEF Join, IInv, Typed, TypeOK
<1>3. \A x \in Workspace, v \in User :
        member[x][v].role = "owner" => member'[x][v].role = "owner"
  BY <1>2 DEF Absent
<1>4. \A x \in Workspace, v \in User : AnotherOwner(x, v) => AnotherOwner(x, v)'
  BY <1>3 DEF AnotherOwner
<1>5. Fresh'
  <2>1. \A x \in Workspace, v \in User : member[x][v].id \in Nat /\ member[x][v].id < nextId
    BY DEF IInv, Typed, TypeOK, Membership, Absent, Owned, Fresh
  <2>2. \A q \in Req : req[q].seen.id \in Nat /\ req[q].seen.id < nextId
    BY DEF IInv, Typed, TypeOK, Request, Membership, Absent, Owned, Fresh
  <2>3. s.seen.id \in Nat
    BY DEF Request, Membership, Absent
  <2>4. \A x \in Workspace, v \in User : member'[x][v].id < nextId'
    BY <1>2, <2>1
  <2>5. \A q \in Req : req'[q].seen.id < nextId'
    BY <1>1, <1>2, <2>2, <2>3
  <2>6. QED BY <2>4, <2>5 DEF Fresh
<1>6. Alone'
  BY <1>1 DEF IInv, Owned, Alone
<1>7. Same'
  <2>1. ASSUME NEW q \in Req, req'[q].pc \in {"count", "write"},
               req'[q].ws \notin raced',
               member'[req'[q].ws][req'[q].user].id = req'[q].seen.id
        PROVE  member'[req'[q].ws][req'[q].user] = req'[q].seen
    <3>1. q # r /\ req'[q] = req[q]
      BY <1>1, <2>1
    <3>2. req[q].ws \in Workspace /\ req[q].user \in User
      BY <2>1, <3>1 DEF IInv, Typed, WellFormed
    <3>3. req[q].seen.id # nextId
      BY <1>2 DEF IInv, Owned, Fresh
    <3>4. member'[req[q].ws][req[q].user] = member[req[q].ws][req[q].user]
      BY <1>2, <2>1, <3>1, <3>2, <3>3
    <3>5. QED BY <2>1, <3>1, <3>4 DEF IInv, Owned, Same
  <2>2. QED BY <2>1 DEF Same
<1>8. Covered'
  <2>1. ASSUME NEW q \in Req, req'[q].pc = "write", req'[q].ws \notin raced',
               Demotes(req[q])'
        PROVE  AnotherOwner(req[q].ws, req[q].user)'
    <3>1. q # r /\ req'[q] = req[q]
      BY <1>1, <2>1
    <3>2. req[q].ws \in Workspace /\ req[q].user \in User
      BY <2>1, <3>1 DEF IInv, Typed, WellFormed
    <3>3. AnotherOwner(req[q].ws, req[q].user)
      BY <2>1, <3>1 DEF IInv, Owned, Covered
    <3>4. QED BY <1>4, <3>1, <3>2, <3>3
  <2>2. QED BY <2>1 DEF Covered, Demotes
<1>9. OwnerKept'
  <2>1. ready \subseteq Workspace
    BY DEF IInv, Typed, TypeOK
  <2>2. role = "owner" => u \in Owners(w)'
    BY <1>2 DEF Owners
  <2>3. \A x \in Workspace : Owners(x) # {} => Owners(x)' # {}
    BY <1>3 DEF Owners
  <2>4. QED BY <2>1, <2>2, <2>3 DEF IInv, Owned, OwnerKept
<1>10. QED BY <1>5, <1>6, <1>7, <1>8, <1>9 DEF Owned

LEMMA InitOwned == Init => Owned
<1> SUFFICES ASSUME Init
             PROVE  Owned
  OBVIOUS
<1>1. Fresh
  BY DEF Init, Fresh, Absent, Idle
<1>2. Alone /\ Same /\ Covered
  BY DEF Init, Alone, Same, Covered, Idle, Reducing
<1>3. OwnerKept
  BY DEF Init, OwnerKept
<1>4. QED BY <1>1, <1>2, <1>3 DEF Owned

\* Facts about the request that takes a step.
LEMMA Stepping ==
  ASSUME IInv, NEW r \in Req
  PROVE  /\ req[r] \in Request /\ WellFormed(req[r])
         /\ req[r].seen.id \in Nat /\ req[r].seen.id < nextId
         /\ nextId \in Nat /\ 0 < nextId
<1>1. req[r] \in Request /\ WellFormed(req[r]) /\ nextId \in Nat \ {0}
  BY DEF IInv, Typed, TypeOK
<1>2. req[r].seen.id \in Nat
  BY <1>1 DEF Request, Membership, Absent
<1>3. req[r].seen.id < nextId
  BY DEF IInv, Owned, Fresh
<1>4. QED BY <1>1, <1>2, <1>3

\* Creations, acceptances, revocations and interruptions keep an owner.
LEMMA OthersOwned ==
  ASSUME IInv, NEW r \in Req,
         \/ CreateWorkspace(r) \/ OwnWorkspace(r) \/ StartAccept(r) \/ LookMember(r)
         \/ JoinWorkspace(r) \/ StartRevoke(r) \/ MarkInvitation(r) \/ Fail(r)
  PROVE  Owned'
<1>0. /\ req[r] \in Request /\ WellFormed(req[r]) /\ req[r].seen.id < nextId
      /\ 0 < nextId
  BY Stepping
<1>1. CASE CreateWorkspace(r)
  <2>1. PICK w \in Workspace, u \in User :
          Begin(r, [Idle EXCEPT !.op = "create", !.pc = "own", !.ws = w, !.user = u])
    BY <1>1 DEF CreateWorkspace
  <2> DEFINE s == [Idle EXCEPT !.op = "create", !.pc = "own", !.ws = w, !.user = u]
  <2>2. s \in Request
    BY IdleOK DEF Request
  <2>3. s.op \notin Reducing /\ s.pc \notin {"count", "write"} /\ s.seen.id < nextId
    BY <1>0 DEF Idle, Reducing, Absent
  <2>4. QED
    BY <1>1, <2>1, <2>2, <2>3, QuietStep DEF CreateWorkspace, Begin, ghosts
<1>2. CASE OwnWorkspace(r)
  <2>1. req[r].ws \in Workspace /\ req[r].user \in User
    BY <1>0, <1>2 DEF OwnWorkspace, At, WellFormed
  <2>2. /\ Idle \in Request /\ Idle.op \notin Reducing
        /\ Idle.pc \notin {"count", "write"} /\ Idle.seen.id < nextId
    BY <1>0, IdleOK DEF Idle, Reducing, Absent
  <2>3. /\ Join(req[r].ws, req[r].user, "owner") /\ req' = [req EXCEPT ![r] = Idle]
        /\ ready' = ready \cup {req[r].ws} /\ raced' = raced
    BY <1>2 DEF OwnWorkspace, Finish
  <2>4. QED
    BY <2>1, <2>2, <2>3, JoinOwned DEF Role
<1>3. CASE StartAccept(r)
  <2> DEFINE pc(i) == IF invite[i].late THEN "mark" ELSE "look"
             status(i) == IF invite[i].late THEN "expired" ELSE "accepted"
             s(i) == [Idle EXCEPT !.op = "accept", !.ws = invite[i].ws, !.invite = i,
                                  !.user = invite[i].user, !.role = invite[i].role,
                                  !.pc = pc(i), !.status = status(i)]
  <2>1. PICK i \in Invite : Begin(r, s(i))
    BY <1>3 DEF StartAccept
  <2>2. s(i) \in Request
    BY IdleOK DEF Request, Invitation, Status, IInv, Typed, TypeOK
  <2>3. /\ s(i).op \notin Reducing /\ s(i).pc \notin {"count", "write"}
        /\ s(i).seen.id < nextId
    BY <1>0 DEF Idle, Reducing, Absent
  <2>4. QED
    BY <1>3, <2>1, <2>2, <2>3, QuietStep DEF StartAccept, Begin, people
<1>4. CASE LookMember(r)
  <2> DEFINE pc == IF member[req[r].ws][req[r].user] = Absent THEN "join" ELSE "mark"
             s == [req[r] EXCEPT !.pc = pc]
  <2>1. s \in Request /\ s.op = req[r].op /\ s.seen = req[r].seen /\ s.pc \in {"join", "mark"}
    BY <1>0 DEF Request
  <2>2. req[r].pc = "look" /\ req' = [req EXCEPT ![r] = s]
    BY <1>4 DEF LookMember, At
  <2>3. s.op \notin Reducing
    BY <1>0, <2>1, <2>2 DEF WellFormed
  <2>4. QED
    BY <1>0, <1>4, <2>1, <2>2, <2>3, QuietStep DEF LookMember, people, ghosts
<1>5. CASE JoinWorkspace(r)
  <2>1. CASE member[req[r].ws][req[r].user] # Absent
    BY <1>5, <2>1, FinishOwned DEF JoinWorkspace
  <2>2. CASE member[req[r].ws][req[r].user] = Absent
    <3> DEFINE s == [req[r] EXCEPT !.pc = "mark"]
    <3>1. s \in Request /\ s.op = req[r].op /\ s.seen = req[r].seen /\ s.pc = "mark"
      BY <1>0 DEF Request
    <3>2. /\ req[r].ws \in Workspace /\ req[r].user \in User /\ req[r].role \in Role
          /\ req[r].op \notin Reducing
      BY <1>0, <1>5 DEF JoinWorkspace, At, WellFormed, Request
    <3>3. /\ Join(req[r].ws, req[r].user, req[r].role) /\ req' = [req EXCEPT ![r] = s]
          /\ ready' = ready /\ raced' = raced
      BY <1>5, <2>2 DEF JoinWorkspace
    <3>4. QED
      BY <1>0, <2>2, <3>1, <3>2, <3>3, JoinOwned
  <2>3. QED BY <2>1, <2>2
<1>6. CASE StartRevoke(r)
  <2> DEFINE s(i) == [Idle EXCEPT !.op = "revoke", !.pc = "mark", !.invite = i,
                                  !.status = "revoked"]
  <2>1. PICK i \in Invite : Begin(r, s(i))
    BY <1>6 DEF StartRevoke
  <2>2. s(i) \in Request
    BY IdleOK DEF Request, Status
  <2>3. /\ s(i).op \notin Reducing /\ s(i).pc \notin {"count", "write"}
        /\ s(i).seen.id < nextId
    BY <1>0 DEF Idle, Reducing, Absent
  <2>4. QED
    BY <1>6, <2>1, <2>2, <2>3, QuietStep DEF StartRevoke, Begin, people, ghosts
<1>7. CASE MarkInvitation(r) \/ Fail(r)
  BY <1>7, FinishOwned DEF MarkInvitation, Fail, people, ghosts
<1>8. QED BY <1>1, <1>2, <1>3, <1>4, <1>5, <1>6, <1>7

\* A request that starts to change or remove a member races with the others.
LEMMA StartChangeOwned ==
  ASSUME IInv, NEW r \in Req, StartChange(r)
  PROVE  Owned'
<1>1. PICK w \in Workspace, u \in User, role \in Role, op \in Reducing :
        /\ Begin(r, [Idle EXCEPT !.op = op, !.pc = "find", !.ws = w, !.user = u,
                                 !.role = role])
        /\ raced' = IF Changing(r, w) THEN raced \cup {w} ELSE raced
  BY DEF StartChange, Reducing
<1> DEFINE s == [Idle EXCEPT !.op = op, !.pc = "find", !.ws = w, !.user = u,
                             !.role = role]
<1>2. s.pc = "find" /\ s.ws = w /\ s.seen.id = 0
  BY DEF Idle, Absent
<1>3. /\ req'[r] = s
      /\ \A q \in Req : q # r => req'[q] = req[q]
  BY <1>1 DEF Begin, IInv, Typed, TypeOK
<1>4. raced \subseteq raced' /\ UNCHANGED <<member, nextId, ready>>
  BY <1>1 DEF StartChange, people
<1>5. Fresh'
  BY <1>2, <1>3, <1>4, Stepping DEF IInv, Owned, Fresh
<1>6. Alone'
  <2>1. \A q \in Req \ {r} : req[q].op \in Reducing /\ req[q].ws = w => w \in raced'
    BY <1>1 DEF Changing, Reducing
  <2>2. ASSUME NEW p \in Req, NEW q \in Req, p # q, req'[p].op \in Reducing,
               req'[q].op \in Reducing, req'[p].ws = req'[q].ws
        PROVE  req'[q].ws \in raced'
    <3>1. CASE p = r
      BY <1>2, <1>3, <2>1, <2>2, <3>1
    <3>2. CASE q = r
      BY <1>2, <1>3, <2>1, <2>2, <3>2
    <3>3. CASE p # r /\ q # r
      BY <1>3, <1>4, <2>2, <3>3 DEF IInv, Owned, Alone
    <3>4. QED BY <3>1, <3>2, <3>3
  <2>3. QED BY <2>2 DEF Alone
<1>7. Same'
  BY <1>2, <1>3, <1>4 DEF IInv, Owned, Same
<1>8. Covered'
  <2>1. ASSUME NEW q \in Req, req'[q].pc = "write", req'[q].ws \notin raced',
               Demotes(req[q])'
        PROVE  AnotherOwner(req[q].ws, req[q].user)'
    <3>1. q # r /\ req'[q] = req[q]
      BY <1>2, <1>3, <2>1
    <3>2. Demotes(req[q])
      BY <2>1, <3>1 DEF Demotes
    <3>3. AnotherOwner(req[q].ws, req[q].user)
      BY <1>4, <2>1, <3>1, <3>2 DEF IInv, Owned, Covered
    <3>4. QED BY <1>4, <3>1, <3>3 DEF AnotherOwner
  <2>2. QED BY <2>1 DEF Covered
<1>9. OwnerKept'
  BY <1>4 DEF IInv, Owned, OwnerKept, Owners
<1>10. QED BY <1>5, <1>6, <1>7, <1>8, <1>9 DEF Owned

\* A request that goes on to the count or the write keeps its place: what it
\* has found is still stored, and it demotes nobody or leaves another owner.
LEMMA GoOnOwned ==
  ASSUME IInv, NEW r \in Req, NEW s \in Request,
         req[r].op \in Reducing, s.op = req[r].op, s.ws = req[r].ws,
         s.user = req[r].user, s.seen.id < nextId,
         member[s.ws][s.user].id = s.seen.id /\ s.ws \notin raced
           => member[s.ws][s.user] = s.seen,
         s.pc = "write" /\ Demotes(s) => AnotherOwner(s.ws, s.user),
         req' = [req EXCEPT ![r] = s],
         UNCHANGED <<member, nextId, ready, raced>>
  PROVE  Owned'
<1>1. /\ req'[r] = s
      /\ \A q \in Req : q # r => req'[q] = req[q]
  BY DEF IInv, Typed, TypeOK
<1>2. Fresh'
  BY <1>1 DEF IInv, Owned, Fresh
<1>3. Alone'
  BY <1>1 DEF IInv, Owned, Alone
<1>4. Same'
  BY <1>1 DEF IInv, Owned, Same
<1>5. Covered'
  <2>1. ASSUME NEW q \in Req, req'[q].pc = "write", req'[q].ws \notin raced',
               Demotes(req[q])'
        PROVE  AnotherOwner(req[q].ws, req[q].user)'
    <3>1. CASE q = r
      <4>1. req'[q] = s /\ Demotes(s)
        BY <1>1, <2>1, <3>1 DEF Demotes
      <4>2. AnotherOwner(s.ws, s.user)
        BY <2>1, <4>1
      <4>3. QED BY <4>1, <4>2 DEF AnotherOwner
    <3>2. CASE q # r
      <4>1. req'[q] = req[q] /\ Demotes(req[q])
        BY <1>1, <2>1, <3>2 DEF Demotes
      <4>2. AnotherOwner(req[q].ws, req[q].user)
        BY <2>1, <4>1 DEF IInv, Owned, Covered
      <4>3. QED BY <4>1, <4>2 DEF AnotherOwner
    <3>3. QED BY <3>1, <3>2
  <2>2. QED BY <2>1 DEF Covered
<1>6. OwnerKept'
  BY DEF IInv, Owned, OwnerKept, Owners
<1>7. QED BY <1>2, <1>3, <1>4, <1>5, <1>6 DEF Owned

LEMMA FindOwned ==
  ASSUME IInv, NEW r \in Req, FindMember(r)
  PROVE  Owned'
<1> DEFINE m == member[req[r].ws][req[r].user]
           pc == IF Demotes([req[r] EXCEPT !.seen = m]) THEN "count" ELSE "write"
           s == [req[r] EXCEPT !.seen = m, !.pc = pc]
<1>0. req[r] \in Request /\ WellFormed(req[r])
  BY Stepping
<1>1. CASE m = Absent
  BY <1>1, FinishOwned DEF FindMember, people, ghosts
<1>2. CASE m # Absent
  <2>1. /\ req[r].op \in Reducing /\ req[r].ws \in Workspace /\ req[r].user \in User
    BY <1>0 DEF FindMember, At, WellFormed
  <2>2. m \in Membership /\ m.id < nextId
    BY <2>1 DEF IInv, Typed, TypeOK, Owned, Fresh
  <2>3. s \in Request
    BY <1>0, <2>2 DEF Request
  <2>4. /\ s.op = req[r].op /\ s.pc = pc /\ s.ws = req[r].ws
        /\ s.user = req[r].user /\ s.seen = m /\ s.role = req[r].role
    BY <1>0 DEF Request
  <2>5. s.pc = "write" => ~Demotes(s)
    BY <1>0, <2>4 DEF Demotes, Request
  <2>6. req' = [req EXCEPT ![r] = s]
    BY <1>2 DEF FindMember, IInv, Typed, TypeOK
  <2>7. UNCHANGED <<member, nextId, ready, raced>>
    BY DEF FindMember, people, ghosts
  <2>8. QED
    BY <2>1, <2>2, <2>3, <2>4, <2>5, <2>6, <2>7, GoOnOwned
<1>3. QED BY <1>1, <1>2

\* Two owners leave another one beside the member to be demoted.
LEMMA SecondOwner ==
  ASSUME NEW w, NEW u, ~(Cardinality(Owners(w)) <= 1)
  PROVE  AnotherOwner(w, u)
<1> SUFFICES ASSUME ~AnotherOwner(w, u)
             PROVE  FALSE
  OBVIOUS
<1>1. Owners(w) \subseteq {u}
  BY DEF AnotherOwner, Owners
<1>2. IsFiniteSet({u}) /\ Cardinality({u}) = 1
  BY FS_Singleton
<1>3. Cardinality(Owners(w)) <= 1
  BY <1>1, <1>2, FS_Subset
<1>4. QED BY <1>3

LEMMA CountOwned ==
  ASSUME IInv, NEW r \in Req, CountOwners(r)
  PROVE  Owned'
<1> DEFINE s == [req[r] EXCEPT !.pc = "write"]
<1>0. /\ req[r] \in Request /\ WellFormed(req[r]) /\ req[r].seen.id < nextId
      /\ req[r].pc = "count"
  BY Stepping DEF CountOwners, At
<1>1. CASE Cardinality(Owners(req[r].ws)) <= 1
  BY <1>1, FinishOwned DEF CountOwners, people, ghosts
<1>2. CASE ~(Cardinality(Owners(req[r].ws)) <= 1)
  <2>1. /\ s \in Request /\ s.op = req[r].op /\ s.pc = "write" /\ s.ws = req[r].ws
        /\ s.user = req[r].user /\ s.seen = req[r].seen
    BY <1>0 DEF Request
  <2>2. AnotherOwner(s.ws, s.user)
    BY <1>2, <2>1, SecondOwner
  <2>3. req[r].op \in Reducing
    BY <1>0 DEF WellFormed
  <2>4. req' = [req EXCEPT ![r] = s] /\ UNCHANGED <<member, nextId, ready, raced>>
    BY <1>2 DEF CountOwners, people, ghosts
  <2>5. member[s.ws][s.user].id = s.seen.id /\ s.ws \notin raced
          => member[s.ws][s.user] = s.seen
    BY <1>0, <2>1 DEF IInv, Owned, Same
  <2>6. QED
    BY <1>0, <2>1, <2>2, <2>3, <2>4, <2>5, GoOnOwned
<1>3. QED BY <1>1, <1>2

\* Where nothing raced, the write takes an owner away only beside another one.
LEMMA WriteOwned ==
  ASSUME IInv, NEW r \in Req, WriteMember(r)
  PROVE  Owned'
<1> DEFINE s == req[r]
           m == member[s.ws][s.user]
           n == IF s.op = "remove" THEN Absent ELSE [m EXCEPT !.role = s.role]
<1>0. /\ s \in Request /\ WellFormed(s) /\ s.pc = "write" /\ s.op \in Reducing
      /\ s.ws \in Workspace /\ s.user \in User /\ s.seen.id # 0 /\ 0 < nextId
  BY Stepping DEF WriteMember, At, WellFormed
<1>1. CASE m.id # s.seen.id
  BY <1>1, FinishOwned DEF WriteMember, ghosts
<1>2. CASE m.id = s.seen.id
  <2>1. /\ req'[r] = Idle
        /\ \A q \in Req : q # r => req'[q] = req[q]
        /\ UNCHANGED <<nextId, ready, raced>>
    BY DEF WriteMember, Finish, ghosts, IInv, Typed, TypeOK
  <2>2. /\ member'[s.ws][s.user] = n
        /\ \A w \in Workspace, v \in User :
             w # s.ws \/ v # s.user => member'[w][v] = member[w][v]
    BY <1>0, <1>2 DEF WriteMember, IInv, Typed, TypeOK
  <2>3. /\ m \in Membership /\ m # Absent
    BY <1>0, <1>2 DEF IInv, Typed, TypeOK, Absent
  <2>4. n.id < nextId /\ n.role = IF s.op = "remove" THEN "none" ELSE s.role
    BY <1>0, <2>3 DEF Absent, Membership, IInv, Owned, Fresh
  <2>5. \A q \in Req : q # r /\ req[q].op \in Reducing /\ req[q].ws = s.ws
                       => s.ws \in raced
    BY <1>0 DEF IInv, Owned, Alone
  <2>6. /\ Idle.op \notin Reducing /\ Idle.pc \notin {"count", "write"}
        /\ Idle.seen.id = 0
    BY DEF Idle, Reducing, Absent
  <2>7. Fresh'
    BY <1>0, <2>1, <2>2, <2>4, <2>6 DEF IInv, Owned, Fresh
  <2>8. Alone'
    BY <2>1, <2>6 DEF IInv, Owned, Alone
  \* Any other request at work on an unraced workspace is in another one.
  <2>9. ASSUME NEW q \in Req, req'[q].pc \in {"count", "write"},
               req'[q].ws \notin raced'
        PROVE  /\ q # r /\ req'[q] = req[q] /\ req[q].ws # s.ws
               /\ req[q].ws \in Workspace /\ req[q].user \in User
    <3>1. q # r /\ req'[q] = req[q]
      BY <2>1, <2>6, <2>9
    <3>2. /\ req[q].op \in Reducing /\ req[q].ws \in Workspace
          /\ req[q].user \in User
      BY <2>9, <3>1 DEF IInv, Typed, WellFormed
    <3>3. QED BY <2>1, <2>5, <2>9, <3>1, <3>2
  <2>10. Same'
    <3>1. ASSUME NEW q \in Req, req'[q].pc \in {"count", "write"},
                 req'[q].ws \notin raced',
                 member'[req'[q].ws][req'[q].user].id = req'[q].seen.id
          PROVE  member'[req'[q].ws][req'[q].user] = req'[q].seen
      <4>1. /\ req'[q] = req[q]
            /\ member'[req[q].ws][req[q].user] = member[req[q].ws][req[q].user]
        BY <2>2, <2>9, <3>1
      <4>2. QED BY <2>1, <3>1, <4>1 DEF IInv, Owned, Same
    <3>2. QED BY <3>1 DEF Same
  <2>11. Covered'
    <3>1. ASSUME NEW q \in Req, req'[q].pc = "write", req'[q].ws \notin raced',
                 Demotes(req[q])'
          PROVE  AnotherOwner(req[q].ws, req[q].user)'
      <4>1. /\ req'[q] = req[q] /\ req[q].ws # s.ws /\ req[q].ws \in Workspace
        BY <2>9, <3>1
      <4>2. Demotes(req[q])
        BY <3>1, <4>1 DEF Demotes
      <4>3. AnotherOwner(req[q].ws, req[q].user)
        BY <2>1, <3>1, <4>1, <4>2 DEF IInv, Owned, Covered
      <4>4. QED BY <2>2, <4>1, <4>3 DEF AnotherOwner
    <3>2. QED BY <3>1 DEF Covered
  <2>12. OwnerKept'
    <3>1. ASSUME NEW w \in ready \ raced
          PROVE  Owners(w)' # {}
      <4>1. w \in Workspace /\ Owners(w) # {}
        BY DEF IInv, Typed, TypeOK, Owned, OwnerKept
      <4>2. CASE w # s.ws
        BY <2>2, <4>1, <4>2 DEF Owners
      <4>3. CASE w = s.ws /\ Demotes(s)
        <5>1. AnotherOwner(w, s.user)
          BY <1>0, <4>3 DEF IInv, Owned, Covered
        <5>2. QED BY <2>2, <4>1, <4>3, <5>1 DEF AnotherOwner, Owners
      <4>4. CASE w = s.ws /\ ~Demotes(s)
        <5>1. m = s.seen
          BY <1>0, <1>2, <4>4 DEF IInv, Owned, Same
        <5>2. CASE s.seen.role # "owner"
          <6>1. PICK v \in User : member[w][v].role = "owner"
            BY <4>1 DEF Owners
          <6>2. v # s.user
            BY <4>4, <5>1, <5>2, <6>1
          <6>3. QED BY <2>2, <4>1, <4>4, <6>1, <6>2 DEF Owners
        <5>3. CASE s.seen.role = "owner"
          <6>1. s.op = "change" /\ s.role = "owner"
            BY <1>0, <4>4, <5>3 DEF Demotes, Reducing
          <6>2. s.user \in Owners(w)'
            BY <1>0, <2>2, <2>4, <4>4, <6>1 DEF Owners
          <6>3. QED BY <6>2
        <5>4. QED BY <5>2, <5>3
      <4>5. QED BY <4>2, <4>3, <4>4
    <3>2. QED BY <2>1, <3>1 DEF OwnerKept
  <2>13. QED BY <2>7, <2>8, <2>10, <2>11, <2>12 DEF Owned
<1>3. QED BY <1>1, <1>2

LEMMA StepOwned == IInv /\ [Next]_vars => Owned'
<1> SUFFICES ASSUME IInv, [Next]_vars
             PROVE  Owned'
  OBVIOUS
<1>1. ASSUME UNCHANGED <<people, req, ghosts>>
      PROVE  Owned'
  BY <1>1 DEF IInv, Owned, people, ghosts, Fresh, Alone, Same, Covered, OwnerKept,
              Demotes, AnotherOwner, Owners
<1>2. CASE UNCHANGED vars
  BY <1>1, <1>2 DEF vars
<1>3. ASSUME NEW i \in Invite, CreateInvitation(i) \/ PassExpiry(i)
      PROVE  Owned'
  BY <1>1, <1>3 DEF CreateInvitation, PassExpiry
<1>4. ASSUME NEW r \in Req, Change(r)
      PROVE  Owned'
  BY <1>4, StartChangeOwned, FindOwned, CountOwned, WriteOwned DEF Change
<1>5. QED BY <1>2, <1>3, <1>4, OthersOwned DEF Next

LEMMA OwnerInvariant == Spec => []IInv
<1>1. Init => IInv
  BY InitTyped, InitOwned DEF IInv
<1>2. IInv /\ [Next]_vars => IInv'
  BY StepTyped, StepOwned DEF IInv
<1>3. QED BY <1>1, <1>2, PTL DEF Spec

\* assertNotLastOwner does its work for any number of users, workspaces and
\* requests: a workspace in which no two role changes or removals have
\* overlapped keeps an owner, whatever is created, accepted or interrupted.
THEOREM OwnerSafe == Spec => []OwnerKept
<1>1. IInv => OwnerKept
  BY DEF IInv, Owned
<1>2. QED BY <1>1, OwnerInvariant, PTL

-----------------------------------------------------------------------------
(* An invitation admits once. *)

Accepts(s, i) == s.op = "accept" /\ s.invite = i

\* Only acceptances look and join, and what is marked is no longer pending.
Marking(s) ==
  /\ s.op = "accept" => s.pc \in {"look", "join", "mark"}
  /\ s.pc \in {"look", "join"} => s.op = "accept"
  /\ s.pc = "mark" \/ s.op = "accept" => s.status # "pending"

\* An invitation that has admitted somebody is marked, or about to be by the one
\* request that accepts it; and that request has admitted nobody before it joins.
Admission(i) ==
  /\ \A p, q \in Req : Accepts(req[p], i) /\ Accepts(req[q], i) => p = q
  /\ admitted[i] <= 1
  /\ \A q \in Req : Accepts(req[q], i) /\ req[q].pc \in {"look", "join"} => admitted[i] = 0
  /\ admitted[i] # 0 =>
       /\ Issued(i)
       /\ invite[i].status # "pending" \/ \E q \in Req : Accepts(req[q], i) /\ req[q].pc = "mark"

Admissions ==
  /\ \A q \in Req : Marking(req[q])
  /\ \A i \in Invite \ doubtful : Admission(i)

LEMMA InitAdmissions == Init => Admissions
<1> SUFFICES ASSUME Init PROVE Admissions
  OBVIOUS
<1>1. \A q \in Req : req[q] = Idle
  BY DEF Init
<1>2. Marking(Idle) /\ Idle.op # "accept"
  BY DEF Idle, Marking
<1>3. \A i \in Invite : admitted[i] = 0
  BY DEF Init
<1>4. QED
  BY <1>1, <1>2, <1>3 DEF Admissions, Admission, Accepts

\* A step of a request that accepts nothing, neither before nor after it, or of
\* one that ends without having changed the invitation's state.
LEMMA ApartAdmissions ==
  ASSUME Typed, Admissions, NEW r \in Req, NEW s,
         req' = [req EXCEPT ![r] = s], Marking(s), s.op # "accept",
         req[r].op = "accept" /\ req[r].pc = "mark" /\ req[r].invite \notin doubtful' =>
           invite'[req[r].invite].status # "pending",
         admitted' = admitted, doubtful \subseteq doubtful',
         \A i \in Invite : /\ Issued(i) => Issued(i)'
                           /\ invite'[i].status = "pending" => invite[i].status = "pending"
  PROVE  Admissions'
<1>1. req'[r] = s /\ \A q \in Req \ {r} : req'[q] = req[q]
  BY DEF Typed, TypeOK
<1>2. \A q \in Req : Marking(req[q])'
  BY <1>1 DEF Admissions, Marking
<1>3. ASSUME NEW i \in Invite \ doubtful'
      PROVE  Admission(i)'
  <2>1. Admission(i)
    BY <1>3 DEF Admissions
  <2>2. \A q \in Req : Accepts(req[q], i)' => q # r /\ req'[q] = req[q] /\ Accepts(req[q], i)
    BY <1>1 DEF Accepts
  <2>3. \A p, q \in Req : Accepts(req[p], i)' /\ Accepts(req[q], i)' => p = q
    BY <2>1, <2>2 DEF Admission
  <2>4. \A q \in Req : Accepts(req[q], i)' /\ req'[q].pc \in {"look", "join"} => admitted'[i] = 0
    BY <2>1, <2>2 DEF Admission
  <2>5. ASSUME admitted'[i] # 0, invite'[i].status = "pending"
        PROVE  \E q \in Req : Accepts(req[q], i)' /\ req'[q].pc = "mark"
    <3>1. PICK q \in Req : Accepts(req[q], i) /\ req[q].pc = "mark"
      BY <2>1, <2>5 DEF Admission
    <3>2. q # r
      BY <1>3, <2>5, <3>1 DEF Accepts
    <3>3. QED
      BY <1>1, <3>1, <3>2 DEF Accepts
  <2>6. QED
    BY <2>1, <2>3, <2>4, <2>5 DEF Admission
<1>4. QED
  BY <1>2, <1>3 DEF Admissions

LEMMA IdleMarking == Marking(Idle) /\ Idle.op = "none" /\ Idle.pc = "idle"
BY DEF Idle, Marking

LEMMA PeopleAdmissions ==
  ASSUME Typed, Admissions, NEW r \in Req,
         CreateWorkspace(r) \/ OwnWorkspace(r) \/ Change(r) \/ StartRevoke(r)
  PROVE  Admissions'
<1>1. UNCHANGED <<invite, admitted, doubtful>>
  BY DEF CreateWorkspace, OwnWorkspace, Change, StartChange, FindMember, CountOwners, WriteMember, StartRevoke,
         ghosts
<1>2. req[r].op # "accept" /\ req[r].op # "accept" /\ Marking(req[r]) /\ WellFormed(req[r]) /\ req[r] \in Request
  <2>1. Marking(req[r]) /\ WellFormed(req[r]) /\ req[r] \in Request
    BY DEF Admissions, Typed, TypeOK
  <2>2. req[r].pc \in {"idle", "own", "find", "count", "write"}
    BY DEF CreateWorkspace, OwnWorkspace, Change, StartChange, FindMember, CountOwners, WriteMember, StartRevoke,
           Begin, At
  <2>3. QED
    BY <2>1, <2>2 DEF Marking
<1>3. ASSUME NEW s, req' = [req EXCEPT ![r] = s], Marking(s), s.op # "accept"
      PROVE  Admissions'
  BY <1>1, <1>2, <1>3, ApartAdmissions DEF Issued
<1>4. CASE Finish(r)
  BY <1>3, <1>4, IdleMarking DEF Finish
<1>5. CASE CreateWorkspace(r)
  <2>1. PICK w, u : Begin(r, [Idle EXCEPT !.op = "create", !.pc = "own", !.ws = w, !.user = u])
    BY <1>5 DEF CreateWorkspace
  <2> DEFINE s == [Idle EXCEPT !.op = "create", !.pc = "own", !.ws = w, !.user = u]
  <2>2. s.op = "create" /\ s.pc = "own"
    BY DEF Idle
  <2>3. req' = [req EXCEPT ![r] = s]
    BY <2>1 DEF Begin
  <2> HIDE DEF s
  <2>4. QED
    BY <1>3, <2>2, <2>3 DEF Marking
<1>6. CASE StartChange(r)
  <2>1. PICK w, u, role, op : op \in {"change", "remove"} /\
          Begin(r, [Idle EXCEPT !.op = op, !.pc = "find", !.ws = w, !.user = u, !.role = role])
    BY <1>6 DEF StartChange
  <2> DEFINE s == [Idle EXCEPT !.op = op, !.pc = "find", !.ws = w, !.user = u, !.role = role]
  <2>2. s.op = op /\ s.pc = "find"
    BY DEF Idle
  <2>3. req' = [req EXCEPT ![r] = s]
    BY <2>1 DEF Begin
  <2> HIDE DEF s
  <2>4. QED
    BY <1>3, <2>1, <2>2, <2>3 DEF Marking
<1>7. CASE StartRevoke(r)
  <2>1. PICK i : Begin(r, [Idle EXCEPT !.op = "revoke", !.pc = "mark", !.invite = i, !.status = "revoked"])
    BY <1>7 DEF StartRevoke
  <2> DEFINE s == [Idle EXCEPT !.op = "revoke", !.pc = "mark", !.invite = i, !.status = "revoked"]
  <2>2. s.op = "revoke" /\ s.pc = "mark" /\ s.status = "revoked"
    BY DEF Idle
  <2>3. req' = [req EXCEPT ![r] = s]
    BY <2>1 DEF Begin
  <2> HIDE DEF s
  <2>4. QED
    BY <1>3, <2>2, <2>3 DEF Marking
<1>8. CASE FindMember(r) /\ ~Finish(r)
  <2> DEFINE m == member[req[r].ws][req[r].user]
             pc == IF Demotes([req[r] EXCEPT !.seen = m]) THEN "count" ELSE "write"
             s == [req[r] EXCEPT !.seen = m, !.pc = pc]
  <2>1. s.op = req[r].op /\ s.pc = pc
    BY <1>2 DEF Request
  <2>2. req' = [req EXCEPT ![r] = s]
    BY <1>8 DEF FindMember, Typed, TypeOK
  <2>3. pc \in {"count", "write"}
    OBVIOUS
  <2> HIDE DEF s, pc
  <2>4. QED
    BY <1>2, <1>3, <2>1, <2>2, <2>3 DEF Marking
<1>9. CASE CountOwners(r) /\ ~Finish(r)
  <2> DEFINE s == [req[r] EXCEPT !.pc = "write"]
  <2>1. s.op = req[r].op /\ s.pc = "write"
    BY <1>2 DEF Request
  <2>2. req' = [req EXCEPT ![r] = s]
    BY <1>9 DEF CountOwners
  <2> HIDE DEF s
  <2>3. QED
    BY <1>2, <1>3, <2>1, <2>2 DEF Marking
<1>10. QED
  BY <1>4, <1>5, <1>6, <1>7, <1>8, <1>9 DEF OwnWorkspace, Change, WriteMember

LEMMA InvitationAdmissions ==
  ASSUME Typed, Admissions, NEW i \in Invite, CreateInvitation(i) \/ PassExpiry(i)
  PROVE  Admissions'
<1>1. UNCHANGED <<req, admitted, doubtful>>
  BY DEF CreateInvitation, PassExpiry, ghosts
<1>2. \A j \in Invite \ {i} : invite'[j] = invite[j]
  BY DEF CreateInvitation, PassExpiry, Typed, TypeOK
<1>3. CASE PassExpiry(i)
  <2>1. invite'[i].status = invite[i].status /\ invite'[i].ws = invite[i].ws /\ invite'[i].user = invite[i].user
    BY <1>3 DEF PassExpiry, Typed, TypeOK, Invitation
  <2>2. \A j \in Invite : invite'[j].status = invite[j].status /\ (Issued(j) => Issued(j)')
    BY <1>2, <2>1 DEF Issued
  <2>3. QED
    BY <1>1, <2>2 DEF Admissions, Admission, Accepts, Marking
<1>4. CASE CreateInvitation(i)
  <2>1. ~Issued(i)
    BY <1>4, NoneAssumption DEF CreateInvitation, Unissued, Issued
  <2>2. i \notin doubtful => admitted[i] = 0
    BY <2>1 DEF Admissions, Admission
  <2>3. \A j \in Invite \ doubtful : Admission(j)'
    BY <1>1, <1>2, <2>2 DEF Admissions, Admission, Accepts, Issued
  <2>4. QED
    BY <1>1, <2>3 DEF Admissions, Marking
<1>5. QED
  BY <1>3, <1>4

LEMMA AcceptAdmissions ==
  ASSUME Typed, Admissions, NEW r \in Req, StartAccept(r) \/ LookMember(r) \/ JoinWorkspace(r)
  PROVE  Admissions'
<1>0. /\ req[r] \in Request /\ WellFormed(req[r]) /\ Marking(req[r])
      /\ req[r].invite \in Invite => Issued(req[r].invite)
  BY DEF Typed, TypeOK, Admissions
<1>1. UNCHANGED invite /\ doubtful \subseteq doubtful'
  BY DEF StartAccept, LookMember, JoinWorkspace, ghosts
<1>2. CASE StartAccept(r)
  <2> DEFINE pc(i) == IF invite[i].late THEN "mark" ELSE "look"
             status(i) == IF invite[i].late THEN "expired" ELSE "accepted"
             t(i) == [Idle EXCEPT !.op = "accept", !.ws = invite[i].ws, !.invite = i,
                                  !.user = invite[i].user, !.role = invite[i].role,
                                  !.pc = pc(i), !.status = status(i)]
  <2>1. PICK i \in Invite :
          /\ invite[i].status = "pending" /\ Begin(r, t(i))
          /\ doubtful' = IF \E q \in Req \ {r} : req[q].op = "accept" /\ req[q].invite = i
                           THEN doubtful \cup {i} ELSE doubtful
    BY <1>2 DEF StartAccept
  <2>2. admitted' = admitted
    BY <1>2 DEF StartAccept
  <2> DEFINE s == t(i)
  <2>3. s.op = "accept" /\ s.invite = i /\ s.pc \in {"mark", "look"} /\ s.status \in {"expired", "accepted"}
    BY DEF Idle
  <2>4. req' = [req EXCEPT ![r] = s] /\ req[r].pc = "idle"
    BY <2>1 DEF Begin, At
  <2> HIDE DEF s, t
  <2>5. req'[r] = s /\ \A q \in Req \ {r} : req'[q] = req[q]
    BY <2>4 DEF Typed, TypeOK
  <2>6. \A q \in Req : Marking(req[q])'
    BY <2>3, <2>5 DEF Admissions, Marking
  <2>7. req[r].op # "accept"
    BY <1>0, <2>4 DEF Marking
  <2>8. ASSUME NEW j \in Invite \ doubtful'
        PROVE  Admission(j)'
    <3>1. Admission(j)
      BY <1>1, <2>8 DEF Admissions
    <3>2. CASE j = i
      <4>1. \A q \in Req \ {r} : ~Accepts(req[q], j)
        BY <2>1, <2>8, <3>2 DEF Accepts
      <4>2. admitted[j] = 0
        BY <2>1, <2>7, <3>1, <3>2, <4>1 DEF Admission, Accepts
      <4>3. QED
        BY <2>2, <2>5, <4>1, <4>2 DEF Admission, Accepts
    <3>3. CASE j # i
      <4>1. \A q \in Req : Accepts(req[q], j)' <=> Accepts(req[q], j)
        BY <2>3, <2>5, <2>7, <3>3 DEF Accepts
      <4>2. \A q \in Req : Accepts(req[q], j) => req'[q] = req[q]
        BY <2>5, <2>7 DEF Accepts
      <4>3. QED
        BY <1>1, <2>2, <3>1, <4>1, <4>2 DEF Admission, Issued
    <3>4. QED
      BY <3>2, <3>3
  <2>9. QED
    BY <2>6, <2>8 DEF Admissions
<1>3. ASSUME NEW s, req' = [req EXCEPT ![r] = s],
             req[r].op = "accept", s.op = "accept", s.invite = req[r].invite, s.status # "pending",
             s.pc = "mark" \/ (s.pc = "join" /\ req[r].pc = "look" /\ admitted' = admitted),
             \/ admitted' = admitted
             \/ (s.pc = "mark" /\ req[r].pc = "join" /\ admitted' = [admitted EXCEPT ![req[r].invite] = @ + 1]),
             doubtful' = doubtful
      PROVE  Admissions'
  <2>1. req'[r] = s /\ \A q \in Req \ {r} : req'[q] = req[q]
    BY <1>3 DEF Typed, TypeOK
  <2>2. \A q \in Req : Marking(req[q])'
    BY <1>3, <2>1 DEF Admissions, Marking
  <2>3. ASSUME NEW j \in Invite \ doubtful
        PROVE  Admission(j)'
    <3>1. Admission(j) /\ admitted \in [Invite -> Nat]
      BY <2>3 DEF Admissions, Typed, TypeOK
    <3>2. \A q \in Req : Accepts(req[q], j)' <=> Accepts(req[q], j)
      BY <1>3, <2>1 DEF Accepts
    <3>3. CASE j # req[r].invite
      <4>1. admitted'[j] = admitted[j]
        BY <1>3, <3>1, <3>3
      <4>2. \A q \in Req : Accepts(req[q], j) => req'[q] = req[q]
        BY <2>1, <3>3 DEF Accepts
      <4>3. QED
        BY <1>1, <3>1, <3>2, <4>1, <4>2 DEF Admission, Issued
    <3>4. CASE j = req[r].invite
      <4>1. Accepts(req[r], j) /\ \A q \in Req : Accepts(req[q], j) => q = r
        BY <1>3, <3>1, <3>4 DEF Admission, Accepts
      <4>2. s.pc = "join" => admitted'[j] = 0
        BY <1>3, <3>1, <4>1 DEF Admission
      <4>3. admitted'[j] <= 1
        <5>1. CASE admitted' = admitted
          BY <3>1, <5>1 DEF Admission
        <5>2. CASE admitted' # admitted
          <6>1. admitted[j] = 0
            BY <1>3, <3>1, <4>1, <5>2 DEF Admission
          <6>2. admitted'[j] = admitted[j] + 1
            BY <1>3, <3>1, <3>4, <5>2
          <6>3. QED
            BY <6>1, <6>2
        <5>3. QED
          BY <5>1, <5>2
      <4>4. Issued(j)'
        BY <1>0, <1>1, <3>4 DEF Issued
      <4>5. QED
        BY <1>3, <2>1, <3>2, <4>1, <4>2, <4>3, <4>4 DEF Admission
    <3>5. QED
      BY <3>3, <3>4
  <2>4. QED
    BY <1>3, <2>2, <2>3 DEF Admissions
<1>4. CASE LookMember(r)
  <2> DEFINE pc == IF member[req[r].ws][req[r].user] = Absent THEN "join" ELSE "mark"
             s == [req[r] EXCEPT !.pc = pc]
  <2>1. req' = [req EXCEPT ![r] = s] /\ admitted' = admitted /\ doubtful' = doubtful /\ req[r].pc = "look"
    BY <1>4 DEF LookMember, At, ghosts
  <2>2. s.op = req[r].op /\ s.invite = req[r].invite /\ s.status = req[r].status /\ s.pc = pc
    BY <1>0 DEF Request
  <2>3. pc \in {"join", "mark"}
    OBVIOUS
  <2>4. req[r].op = "accept" /\ req[r].status # "pending"
    BY <1>0, <2>1 DEF Marking
  <2> HIDE DEF s, pc
  <2>5. QED
    BY <1>3, <2>1, <2>2, <2>3, <2>4
<1>5. CASE JoinWorkspace(r)
  <2>1. req[r].pc = "join" /\ doubtful' = doubtful
    BY <1>5 DEF JoinWorkspace, At
  <2>2. req[r].op = "accept" /\ req[r].status # "pending"
    BY <1>0, <2>1 DEF Marking
  <2>3. CASE Finish(r) /\ admitted' = admitted
    BY <1>1, <2>1, <2>3, ApartAdmissions, IdleMarking DEF Finish, Issued
  <2>4. CASE req' = [req EXCEPT ![r].pc = "mark"] /\ admitted' = [admitted EXCEPT ![req[r].invite] = @ + 1]
    <3> DEFINE s == [req[r] EXCEPT !.pc = "mark"]
    <3>1. req' = [req EXCEPT ![r] = s]
      BY <2>4
    <3>2. s.op = req[r].op /\ s.invite = req[r].invite /\ s.status = req[r].status /\ s.pc = "mark"
      BY <1>0 DEF Request
    <3> HIDE DEF s
    <3>3. QED
      BY <1>3, <2>1, <2>2, <2>4, <3>1, <3>2
  <2>5. QED
    BY <1>5, <2>3, <2>4 DEF JoinWorkspace
<1>6. QED
  BY <1>2, <1>4, <1>5

LEMMA MarkAdmissions ==
  ASSUME Typed, Admissions, NEW r \in Req, MarkInvitation(r)
  PROVE  Admissions'
<1>1. /\ req[r].pc = "mark" /\ Finish(r)
      /\ UNCHANGED <<admitted, doubtful>>
      /\ invite' = [invite EXCEPT ![req[r].invite].status = req[r].status]
  BY DEF MarkInvitation, At, ghosts
<1>2. req[r].invite \in Invite /\ req[r].status # "pending"
  BY <1>1 DEF Typed, WellFormed, Admissions, Marking
<1>3. PICK i \in Invite : i = req[r].invite
  BY <1>2
<1>4. invite'[i].status = req[r].status /\ (Issued(i) => Issued(i)')
  <2> DEFINE s == [invite[i] EXCEPT !.status = req[r].status]
  <2>1. invite[i] \in Invitation
    BY DEF Typed, TypeOK
  <2>2. s.status = req[r].status /\ s.ws = invite[i].ws /\ s.user = invite[i].user
    BY <2>1 DEF Invitation
  <2>3. invite'[i] = s
    BY <1>1, <1>3 DEF Typed, TypeOK
  <2> HIDE DEF s
  <2>4. QED
    BY <2>2, <2>3 DEF Issued
<1>5. \A j \in Invite : /\ Issued(j) => Issued(j)'
                        /\ invite'[j].status = "pending" => invite[j].status = "pending"
  <2>1. \A j \in Invite \ {i} : invite'[j] = invite[j]
    BY <1>1, <1>3 DEF Typed, TypeOK
  <2>2. QED
    BY <1>2, <1>3, <1>4, <2>1 DEF Issued
<1>6. QED
  BY <1>1, <1>2, <1>3, <1>4, <1>5, ApartAdmissions, IdleMarking DEF Finish

LEMMA FailAdmissions ==
  ASSUME Typed, Admissions, NEW r \in Req, Fail(r)
  PROVE  Admissions'
<1>1. UNCHANGED <<invite, admitted>> /\ Finish(r) /\ doubtful \subseteq doubtful'
  BY DEF Fail
<1>2. req[r].op = "accept" => req[r].invite \in doubtful'
  BY DEF Fail
<1>3. QED
  BY <1>1, <1>2, ApartAdmissions, IdleMarking DEF Finish, Issued

LEMMA StepAdmissions ==
  ASSUME Typed, Admissions, [Next]_vars
  PROVE  Admissions'
<1>1. CASE Next
  <2>1. ASSUME NEW r \in Req, Fail(r)
        PROVE  Admissions'
    BY <2>1, FailAdmissions
  <2>2. ASSUME NEW r \in Req, MarkInvitation(r)
        PROVE  Admissions'
    BY <2>2, MarkAdmissions
  <2>3. ASSUME NEW r \in Req, StartAccept(r) \/ LookMember(r) \/ JoinWorkspace(r)
        PROVE  Admissions'
    BY <2>3, AcceptAdmissions
  <2>4. ASSUME NEW r \in Req, CreateWorkspace(r) \/ OwnWorkspace(r) \/ Change(r) \/ StartRevoke(r)
        PROVE  Admissions'
    BY <2>4, PeopleAdmissions
  <2>5. ASSUME NEW i \in Invite, CreateInvitation(i) \/ PassExpiry(i)
        PROVE  Admissions'
    BY <2>5, InvitationAdmissions
  <2>6. QED
    BY <1>1, <2>1, <2>2, <2>3, <2>4, <2>5 DEF Next
<1>2. CASE UNCHANGED vars
  <2>1. UNCHANGED <<req, invite, admitted, doubtful>>
    BY <1>2 DEF vars, ghosts
  <2>2. QED
    BY <2>1 DEF Admissions, Admission, Accepts, Marking, Issued
<1>3. QED
  BY <1>1, <1>2

\* An invitation makes one membership, unless two acceptances of it overlapped or
\* one was interrupted before it could mark the invitation: accept() saves the
\* status last, and refuses an invitation that is no longer pending.
THEOREM InvitationSafe == Spec => []AdmitsOnce
<1>1. Admissions => AdmitsOnce
  BY DEF Admissions, Admission, AdmitsOnce
<1>2. QED
  BY InitTyped, StepTyped, InitAdmissions, StepAdmissions, <1>1, PTL DEF Spec

=============================================================================
