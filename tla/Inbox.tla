------------------------------- MODULE Inbox -------------------------------
(***************************************************************************)
(* Notifications: who gets one, who is mailed, and the daily digest        *)
(* (notifyUserIds, emailWatchers, sendDailyDigests, the preferences).      *)
(*                                                                         *)
(* A notification is produced in three awaits of one request, note[n] with *)
(* its local variables.  The mails of a notification are one job, which a  *)
(* worker runs from the first recipient at each attempt; module Jobs has   *)
(* the queue itself.  Recipients are sets: the order in which a loop takes *)
(* them is the order the store returned, which is left open.               *)
(***************************************************************************)
EXTENDS Naturals, FiniteSets

CONSTANTS
  User,
  Note,         \* identities of calls of notifyUserIds
  MaxEvents,    \* bound on the requests that notify
  MaxAttempts,  \* of a mail job
  MaxChanges,   \* bound on changes of preferences and marks
  MaxFaults,    \* bound on rejected calls
  None

VARIABLES
  pref,     \* notification_preferences, with its defaults
  inbox,    \* inbox[u][n]: "none", "unread" or "read"
  note,     \* the call, in the request behind it
  job,      \* its mail job
  mails,    \* mails[n][u]: mails delivered
  digest,   \* the run of the cron: the recipients still to come
  digests,  \* digests[u]: digests delivered by the current run
  started, faults

vars == <<pref, inbox, note, job, mails, digest, digests, started, faults>>

\* Changes and moves are told as comments are, deletions as reviews.
Kinds   == {"comment", "mention", "review"}
Mutable == {"comment"}  \* MUTABLE_KINDS, which lacks the reviews the page offers

Pref  == [email: BOOLEAN, digest: BOOLEAN, muted: SUBSET Mutable]
Fresh == [pc |-> "new", kind |-> "comment", actor |-> None, to |-> {}, mail |-> {}, after |-> None]
NoteReq == [pc: {"new", "waiting", "mutes", "insert", "mail", "enqueue", "done"}, kind: Kinds,
            actor: User \cup {None}, to: SUBSET User, mail: SUBSET User,
            after: Note \cup {None}]  \* the call before it in the request
NoJob == [state |-> "none", to |-> {}, left |-> {}, attempts |-> 0]
MailJob == [state: {"none", "pending", "running", "completed", "failed"}, to: SUBSET User,
            left: SUBSET User, attempts: 0..MaxAttempts]  \* left: whom the attempt has not come to

TypeOK ==
  /\ pref \in [User -> Pref]
  /\ inbox \in [User -> [Note -> {"none", "unread", "read"}]]
  /\ note \in [Note -> NoteReq]
  /\ job \in [Note -> MailJob]
  /\ mails \in [Note -> [User -> Nat]]
  /\ digest \in (SUBSET User) \cup {None}
  /\ digests \in [User -> 0..1]
  /\ {started, faults} \subseteq Nat

Init ==
  /\ pref \in [User -> [email: {TRUE}, digest: {TRUE}, muted: SUBSET Mutable]]
  /\ inbox = [u \in User |-> [n \in Note |-> "none"]]
  /\ note = [n \in Note |-> Fresh]
  /\ job = [n \in Note |-> NoJob]
  /\ mails = [n \in Note |-> [u \in User |-> 0]]
  /\ digest = None /\ digests = [u \in User |-> 0]
  /\ started = 0 /\ faults = 0

At(n, pc)   == note[n].pc = pc
Go(n, pc)   == note' = [note EXCEPT ![n].pc = pc]

-----------------------------------------------------------------------------
(* notifyUserIds. *)

Told(kind, actor, to) ==
  [pc |-> IF kind = "mention" THEN "insert" ELSE "mutes", kind |-> kind, actor |-> actor,
   to |-> to, mail |-> {}, after |-> None]

Event == Cardinality({n \in Note : ~At(n, "new") /\ note[n].after = None}) < MaxEvents

\* The watchers, without whoever acted: a user, or None for an API key.
Notify(n) ==
  /\ At(n, "new") /\ Event
  /\ \E to \in SUBSET User, actor \in User \cup {None}, kind \in Kinds :
       note' = [note EXCEPT ![n] = Told(kind, actor, to \ {actor})]
  /\ UNCHANGED <<pref, inbox, job, mails, digest, digests, started, faults>>

\* addComment: first the watchers who are not mentioned, then the mentions.
AddComment(n, m) ==
  /\ n # m /\ At(n, "new") /\ At(m, "new") /\ Event
  /\ \E to \in SUBSET User, actor \in User \cup {None} : \E mentions \in SUBSET (User \ {actor}) \ {{}} :
       note' = [note EXCEPT
         ![n] = Told("comment", actor, to \ (mentions \cup {actor})),
         ![m] = [Told("mention", actor, mentions) EXCEPT !.pc = "waiting", !.after = n]]
  /\ UNCHANGED <<pref, inbox, job, mails, digest, digests, started, faults>>

Mention(m) ==
  /\ At(m, "waiting") /\ At(note[m].after, "done")
  /\ Go(m, "insert")
  /\ UNCHANGED <<pref, inbox, job, mails, digest, digests, started, faults>>

\* notMutingKind.
DropMuting(n) ==
  /\ At(n, "mutes")
  /\ LET to == {u \in note[n].to : note[n].kind \notin pref[u].muted} IN
       note' = [note EXCEPT ![n].to = to, ![n].pc = IF to = {} THEN "done" ELSE "insert"]
  /\ UNCHANGED <<pref, inbox, job, mails, digest, digests, started, faults>>

InsertNotices(n) ==
  /\ At(n, "insert")
  /\ inbox' = [u \in User |-> [inbox[u] EXCEPT ![n] = IF u \in note[n].to THEN "unread" ELSE @]]
  /\ Go(n, "mail")
  /\ UNCHANGED <<pref, job, mails, digest, digests, started, faults>>

\* emailEnabledAmong.
ChooseMailed(n) ==
  /\ At(n, "mail")
  /\ LET mail == {u \in note[n].to : pref[u].email} IN
       note' = [note EXCEPT ![n].mail = mail, ![n].pc = IF mail = {} THEN "done" ELSE "enqueue"]
  /\ UNCHANGED <<pref, inbox, job, mails, digest, digests, started, faults>>

EnqueueMail(n) ==
  /\ At(n, "enqueue")
  /\ job' = [job EXCEPT ![n] = [NoJob EXCEPT !.state = "pending", !.to = note[n].mail]]
  /\ Go(n, "done")
  /\ UNCHANGED <<pref, inbox, mails, digest, digests, started, faults>>

\* A rejected read or insert fails the request, mentions to come included; a job
\* that cannot be queued is logged, and the request goes on.
FailNotify(n) ==
  /\ note[n].pc \notin {"new", "waiting", "done"} /\ faults < MaxFaults /\ faults' = faults + 1
  /\ note' = [m \in Note |->
       IF m = n \/ (note[m].after = n /\ ~At(n, "enqueue")) THEN [note[m] EXCEPT !.pc = "done"] ELSE note[m]]
  /\ UNCHANGED <<pref, inbox, job, mails, digest, digests, started>>

-----------------------------------------------------------------------------
(* The mail job. *)

StartMails(n) ==
  /\ job[n].state = "pending"
  /\ job' = [job EXCEPT ![n].state = "running", ![n].attempts = @ + 1, ![n].left = job[n].to]
  /\ UNCHANGED <<pref, inbox, note, mails, digest, digests, started, faults>>

\* sendWatchNotification
Deliver(n, u) == mails' = [mails EXCEPT ![n][u] = @ + 1]

\* One turn of the loop in emailWatchers.
SendMail(n) ==
  /\ job[n].state = "running"
  /\ \E u \in job[n].left : Deliver(n, u) /\ job' = [job EXCEPT ![n].left = @ \ {u}]
  /\ UNCHANGED <<pref, inbox, note, digest, digests, started, faults>>

EndMails(n) ==
  /\ job[n].state = "running" /\ job[n].left = {}
  /\ job' = [job EXCEPT ![n].state = "completed"]
  /\ UNCHANGED <<pref, inbox, note, mails, digest, digests, started, faults>>

\* Faulty variant: a recipient whose mail is refused is skipped.
SkipMail(n) ==
  /\ job[n].state = "running" /\ faults < MaxFaults /\ faults' = faults + 1
  /\ \E u \in job[n].left : job' = [job EXCEPT ![n].left = @ \ {u}]
  /\ UNCHANGED <<pref, inbox, note, mails, digest, digests, started>>

\* A refused mail ends the attempt; the rest is left to the next one.
FailMails(n) ==
  /\ job[n].state = "running" /\ faults < MaxFaults /\ faults' = faults + 1
  /\ job' = [job EXCEPT ![n].state = IF job[n].attempts = MaxAttempts THEN "failed" ELSE "pending"]
  /\ UNCHANGED <<pref, inbox, note, mails, digest, digests, started>>

-----------------------------------------------------------------------------
(* The digest: one run of the cron, with the recipients it read. *)

StartDigest ==
  /\ digest = None
  /\ started < MaxChanges /\ started' = started + 1
  /\ digest' = {u \in User : pref[u].digest}
  /\ digests' = [u \in User |-> 0]
  /\ UNCHANGED <<pref, inbox, note, job, mails, faults>>

DeliverDigest(u) == digests' = [digests EXCEPT ![u] = @ + 1]

\* Nothing unread, nothing sent.
SendDigest ==
  /\ digest # None
  /\ \E u \in digest :
       /\ IF \E n \in Note : inbox[u][n] = "unread" THEN DeliverDigest(u) ELSE UNCHANGED digests
       /\ digest' = digest \ {u}
  /\ UNCHANGED <<pref, inbox, note, job, mails, started, faults>>

\* The run ends after its last recipient, or with the first mail that is refused.
EndDigest ==
  /\ digest # None
  /\ IF digest = {} THEN UNCHANGED faults ELSE faults < MaxFaults /\ faults' = faults + 1
  /\ digest' = None
  /\ UNCHANGED <<pref, inbox, note, job, mails, digests, started>>

-----------------------------------------------------------------------------
(* The reader. *)

Change == started < MaxChanges /\ started' = started + 1

\* NotificationPreferencesService.set merges one field; the page sends a list
\* that names reviews too, which the controller refuses.
SetPreference(u) ==
  /\ Change
  /\ \/ pref' = [pref EXCEPT ![u].email = ~@]
     \/ pref' = [pref EXCEPT ![u].digest = ~@]
     \/ \E k \in Mutable : pref' = [pref EXCEPT ![u].muted = (@ \ {k}) \cup ({k} \ @)]
  /\ UNCHANGED <<inbox, note, job, mails, digest, digests, faults>>

MarkRead(u) ==
  /\ Change
  /\ \E ns \in {{n} : n \in Note} \cup {Note} :
       inbox' = [inbox EXCEPT ![u] = [n \in Note |-> IF n \in ns /\ @[n] = "unread" THEN "read" ELSE @[n]]]
  /\ UNCHANGED <<pref, note, job, mails, digest, digests, faults>>

Next ==
  \/ \E n \in Note : \/ \E m \in Note : AddComment(n, m)
                     \/ Notify(n) \/ Mention(n) \/ DropMuting(n) \/ InsertNotices(n) \/ ChooseMailed(n) \/ EnqueueMail(n)
                     \/ FailNotify(n) \/ StartMails(n) \/ SendMail(n) \/ EndMails(n) \/ FailMails(n)
  \/ StartDigest \/ SendDigest \/ EndDigest
  \/ \E u \in User : SetPreference(u) \/ MarkRead(u)

Spec == Init /\ [][Next]_vars

-----------------------------------------------------------------------------
(* Properties. *)

\* Whoever is mailed about an event has it in the inbox and is not its author;
\* a finished job has mailed every recipient, and nobody more often than it was
\* attempted: a retry after a refusal in the middle mails the first ones again.
MailsSent ==
  \A n \in Note, u \in User :
    /\ mails[n][u] <= job[n].attempts
    /\ mails[n][u] > 0 => inbox[u][n] # "none" /\ u # note[n].actor
    /\ job[n].state = "completed" /\ u \in job[n].to => mails[n][u] >= 1

\* One comment tells a user once, as a mention if it is one; and without a failure
\* everybody mentioned is told, whatever was muted.
CommentsTold ==
  \A n, m \in Note :
    note[m].after = n /\ n # m =>
      /\ \A u \in User : inbox[u][n] = "none" \/ inbox[u][m] = "none"
      /\ At(m, "done") /\ faults = 0 => \A u \in User : u \in note[m].to => inbox[u][m] # "none"

MailsMatch == MailsSent /\ CommentsTold
=============================================================================
