------------------------------ MODULE Accounts ------------------------------
(***************************************************************************)
(* The account of one e-mail address: registration, sign-in with a         *)
(* provider, password reset (auth.service.ts, users.service.ts), and the   *)
(* API keys of its workspace (api-keys.service.ts) as the guards use them. *)
(*                                                                         *)
(* A request is a sequence of awaits on the store; bcrypt and the mailer   *)
(* are awaited too, and fall between them.                                 *)
(***************************************************************************)
EXTENDS Naturals, FiniteSets

CONSTANTS
  Password,
  Request,
  MaxRequests, MaxFaults,  \* bounds on requests and on rejected awaits
  None

VARIABLES
  account,    \* the user record, or None
  workspaces, \* workspaces made for it
  mailed,     \* reset tokens that were mailed; a token is its number
  issued,     \* tokens issued so far
  key,        \* the API key: "none", "live" or "revoked"
  req,
  (* History variables. *)
  chosen,     \* the password last stored by a registration or a reset
  uses,       \* uses[t]: how often the token t has set the password
  raced,      \* two requests that set one record overlapped
  halfMade,   \* a registration was interrupted after it made the account
  stray,      \* a key was honoured although it was revoked before
  started, faults

history == <<chosen, uses, raced, halfMade, stray>>
vars == <<account, workspaces, mailed, issued, key, req, history, started, faults>>

Provider == {"github", "slack"}
Token    == 1..MaxRequests
Idle     == [at |-> "idle", by |-> None, secret |-> None, token |-> 0, seen |-> {}]

Account ==
  [password: Password \cup {None},
   providers: SUBSET Provider,  \* authProviders; addAuthProvider may push one twice
   token: {0} \cup Token,       \* passwordResetTokenHash, 0 when unset
   live: BOOLEAN]               \* passwordResetExpires is to come

AccountRequest ==
  [at: {"idle", "look", "create", "workspace", "attach", "token", "mail", "password", "touch"},
   by: {"password", "forgot", "reset", "key", "late", None} \cup Provider,
   secret: Password \cup {None}, token: {0} \cup Token, seen: SUBSET Provider]

TypeOK ==
  /\ account \in Account \cup {None}
  /\ workspaces \in Nat /\ issued \in 0..MaxRequests /\ mailed \subseteq Token
  /\ key \in {"none", "live", "revoked"}
  /\ req \in [Request -> AccountRequest]
  /\ chosen \in Password \cup {None} /\ uses \in [Token -> Nat]
  /\ {raced, halfMade, stray} \subseteq BOOLEAN
  /\ {started, faults} \subseteq Nat

Init ==
  /\ account = None /\ workspaces = 0 /\ mailed = {} /\ issued = 0 /\ key = "none"
  /\ req = [r \in Request |-> Idle]
  /\ chosen = None /\ uses = [t \in Token |-> 0]
  /\ raced = FALSE /\ halfMade = FALSE /\ stray = FALSE
  /\ started = 0 /\ faults = 0

Start(r, x) == /\ req[r] = Idle /\ started < MaxRequests /\ started' = started + 1
               /\ req' = [req EXCEPT ![r] = x]
Go(r, at)   == req' = [req EXCEPT ![r].at = at]
End(r)      == req' = [req EXCEPT ![r] = Idle]

-----------------------------------------------------------------------------
(* register and loginWithOAuth *)

StartRegister(r, s) ==
  /\ Start(r, [Idle EXCEPT !.at = "look", !.by = "password", !.secret = s])
  /\ UNCHANGED <<account, workspaces, mailed, issued, key, history, faults>>

StartOAuth(r, p) ==
  /\ Start(r, [Idle EXCEPT !.at = "look", !.by = p])
  /\ UNCHANGED <<account, workspaces, mailed, issued, key, history, faults>>

\* findByEmail: a registration ends, a provider is attached to what is there.
Look(r) ==
  /\ req[r].at = "look"
  /\ IF account = None THEN Go(r, "create")
     ELSE IF req[r].by = "password" THEN End(r)
     ELSE req' = [req EXCEPT ![r].at = "attach", ![r].seen = account.providers]
  /\ UNCHANGED <<account, workspaces, mailed, issued, key, history, started, faults>>

\* The unique index on email ends the slower of two requests.
Create(r) ==
  /\ req[r].at = "create"
  /\ IF account # None THEN End(r) /\ UNCHANGED <<account, chosen>>
     ELSE /\ account' = [password |-> req[r].secret, providers |-> {req[r].by} \cap Provider, token |-> 0, live |-> FALSE]
          /\ chosen' = req[r].secret
          /\ Go(r, "workspace")
  /\ UNCHANGED <<workspaces, mailed, issued, key, uses, raced, halfMade, stray, started, faults>>

CreateWithOwner(r) ==
  /\ req[r].at = "workspace"
  /\ workspaces' = workspaces + 1 /\ End(r)
  /\ UNCHANGED <<account, mailed, issued, key, history, started, faults>>

\* addAuthProvider decides on the record it was given and pushes to the stored one.
AddAuthProvider(r) ==
  /\ req[r].at = "attach"
  /\ account' = IF req[r].by \in req[r].seen THEN account ELSE [account EXCEPT !.providers = @ \cup {req[r].by}]
  /\ End(r)
  /\ UNCHANGED <<workspaces, mailed, issued, key, history, started, faults>>

-----------------------------------------------------------------------------
(* forgotPassword and resetPassword *)

\* Without an account the answer is the same and nothing happens.
StartForgot(r) ==
  /\ Start(r, IF account = None THEN Idle ELSE [Idle EXCEPT !.at = "token", !.by = "forgot"])
  /\ UNCHANGED <<account, workspaces, mailed, issued, key, history, faults>>

\* A new token replaces the one before.
SetResetToken(r) ==
  /\ req[r].at = "token"
  /\ issued' = issued + 1
  /\ account' = [account EXCEPT !.token = issued', !.live = TRUE]
  /\ req' = [req EXCEPT ![r].at = "mail", ![r].token = issued']
  /\ UNCHANGED <<workspaces, mailed, key, history, started, faults>>

SendPasswordReset(r) ==
  /\ req[r].at = "mail"
  /\ mailed' = mailed \cup {req[r].token} /\ End(r)
  /\ UNCHANGED <<account, workspaces, issued, key, history, started, faults>>

TokenExpires ==
  /\ account # None /\ account.live
  /\ account' = [account EXCEPT !.live = FALSE]
  /\ UNCHANGED <<workspaces, mailed, issued, key, req, history, started, faults>>

\* findByResetTokenHash; the new password is hashed before it is stored.
StartReset(r, t, s) ==
  /\ t \in mailed
  /\ LET valid == account # None /\ account.token = t /\ account.live IN
       /\ Start(r, IF valid THEN [Idle EXCEPT !.at = "password", !.by = "reset", !.secret = s, !.token = t] ELSE Idle)
       /\ raced' = (raced \/ (valid /\ \E q \in Request : req[q].at = "password"))
  /\ UNCHANGED <<account, workspaces, mailed, issued, key, chosen, uses, halfMade, stray, faults>>

\* Faulty variant: the token is left in place.
SetPasswordOnly(r) ==
  /\ req[r].at = "password"
  /\ account' = [account EXCEPT !.password = req[r].secret]
  /\ chosen' = req[r].secret /\ uses' = [uses EXCEPT ![req[r].token] = @ + 1]
  /\ End(r)
  /\ UNCHANGED <<workspaces, mailed, issued, key, raced, halfMade, stray, started, faults>>

\* The password is set by user id, and whatever token is stored is removed.
SetPassword(r) ==
  /\ req[r].at = "password"
  /\ account' = [account EXCEPT !.password = req[r].secret, !.token = 0, !.live = FALSE]
  /\ chosen' = req[r].secret /\ uses' = [uses EXCEPT ![req[r].token] = @ + 1]
  /\ End(r)
  /\ UNCHANGED <<workspaces, mailed, issued, key, raced, halfMade, stray, started, faults>>

-----------------------------------------------------------------------------
(* API keys *)

CreateKey == key = "none" /\ key' = "live"

\* A revoked key stays listed.
RevokeKey == key = "live" /\ key' = "revoked"

\* The owner of a workspace makes and revokes its keys.
SetKey ==
  /\ started < MaxRequests /\ started' = started + 1 /\ workspaces > 0
  /\ CreateKey \/ RevokeKey
  /\ UNCHANGED <<account, workspaces, mailed, issued, req, history, faults>>

\* A request with the key arrives; "late" marks one that a revocation preceded.
StartWithKey(r) ==
  /\ key # "none"
  /\ Start(r, [Idle EXCEPT !.at = "look", !.by = IF key = "live" THEN "key" ELSE "late"])
  /\ UNCHANGED <<account, workspaces, mailed, issued, key, history, faults>>

\* validate finds the key and refuses a revoked one ...
Validate(r) ==
  /\ req[r].at = "look" /\ req[r].by \in {"key", "late"}
  /\ IF key = "revoked" THEN End(r) ELSE Go(r, "touch")
  /\ UNCHANGED <<account, workspaces, mailed, issued, key, history, started, faults>>

\* ... notes the time of use; then the guard compares the workspace and lets it pass.
Admit(r) ==
  /\ req[r].at = "touch"
  /\ stray' = (stray \/ req[r].by = "late") /\ End(r)
  /\ UNCHANGED <<account, workspaces, mailed, issued, key, chosen, uses, raced, halfMade, started, faults>>

-----------------------------------------------------------------------------
\* A rejected await ends the request; nothing that was stored is undone.
Interrupt(r) ==
  /\ req[r] # Idle /\ faults < MaxFaults /\ faults' = faults + 1
  /\ halfMade' = (halfMade \/ req[r].at = "workspace") /\ End(r)
  /\ UNCHANGED <<account, workspaces, mailed, issued, key, chosen, uses, raced, stray, started>>

SignUp(r) == \/ \E s \in Password : StartRegister(r, s)
             \/ \E p \in Provider : StartOAuth(r, p)
             \/ req[r].by \in {"password"} \cup Provider /\ Look(r)
             \/ Create(r) \/ CreateWithOwner(r) \/ AddAuthProvider(r)
Recover(r) == \/ StartForgot(r) \/ SetResetToken(r) \/ SendPasswordReset(r)
              \/ \E t \in Token, s \in Password : StartReset(r, t, s)
              \/ SetPassword(r)

Next == \/ \E r \in Request : SignUp(r) \/ Recover(r) \/ StartWithKey(r) \/ Validate(r) \/ Admit(r) \/ Interrupt(r)
        \/ TokenExpires \/ SetKey

Spec == Init /\ [][Next]_vars

-----------------------------------------------------------------------------
(* Properties. *)

Making == \E r \in Request : req[r].at = "workspace"

\* However registrations and sign-ins with a provider race, an account gets one
\* workspace, unless the request that made it was interrupted before that.
OneWorkspace == workspaces = IF account = None \/ Making \/ halfMade THEN 0 ELSE 1

\* A reset token sets the password once, unless two resets with it overlap; and
\* the password is the one last chosen, whoever signs in meanwhile.
ResetOnce == /\ ~raced => \A t \in Token : uses[t] <= 1
             /\ account # None => account.password = chosen

\* A key is honoured for no request that arrives after it was revoked.
KeysHonoured == ~stray

AccountSound == OneWorkspace /\ ResetOnce /\ KeysHonoured
=============================================================================
