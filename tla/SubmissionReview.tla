-------------------------- MODULE SubmissionReview --------------------------
(***************************************************************************)
(* The life of a community plugin's record: submission with an opt-in      *)
(* contact address, review with its mail, PATCH, deletion, and the         *)
(* deletion of the submitter's account (api/service/submission.go,         *)
(* review.go, plugin_service.go over both backends).                       *)
(*                                                                         *)
(* A request is a sequence of repository calls.  Each call is atomic (one  *)
(* statement or transaction, or one critical section of the file store's   *)
(* mutex); between two calls any other request may run, and a request may  *)
(* end after any of its calls (an error, a caller gone, a restart).        *)
(***************************************************************************)
EXTENDS Naturals, FiniteSets

CONSTANTS PluginIds,     \* ids the plugins table can hand out
          Logins,        \* GitHub logins of submitters
          Texts,         \* values of the patchable fields but the author
          Requests,      \* requests in flight at once
          MaxMails,      \* bound on mails per plugin
          MaxAudits,     \* bound on account deletions per login
          Nobody,        \* the author of an anonymised plugin
          NoRow

ASSUME ReviewAssumption ==
    /\ MaxMails \in Nat /\ MaxAudits \in Nat
    /\ Nobody \notin Logins

Row == [author : Logins \union {Nobody}, text : Texts,
        status : {"pending", "active", "rejected"},
        contact : BOOLEAN,          \* is notify_email set?
        live : BOOLEAN]

ASSUME NoRowAssumption == NoRow \notin Row

VARIABLES backend,   \* "postgres" or "file": the deployment's choice
          rows,      \* plugins (and notify-emails.json of the file backend)
          mails,     \* mails sent per plugin
          audits,    \* account_deletions: login -> records
          req        \* the requests in flight

vars == <<backend, rows, mails, audits, req>>

Idle == [op |-> "idle"]

Pending ==
    [op : {"contact"}, plugin : PluginIds]
    \union [op : {"review", "notify"}, plugin : PluginIds,
            status : {"active", "rejected"}]
    \union [op : {"update"}, plugin : PluginIds, patched : {"author", "text"},
            author : Logins, text : Texts]
    \union [op : {"delete"}, plugin : PluginIds]
    \union [op : {"account"}, login : Logins, owned : SUBSET PluginIds,
            left : SUBSET PluginIds, erased : SUBSET PluginIds]

TypeOK ==
    /\ backend \in {"postgres", "file"}
    /\ rows \in [PluginIds -> Row \union {NoRow}]
    /\ mails \in [PluginIds -> 0 .. MaxMails]
    /\ audits \in [Logins -> 0 .. MaxAudits]
    /\ req \in [Requests -> Pending \union {Idle}]

-----------------------------------------------------------------------------
Stored(p) == rows[p] # NoRow
Live(p) == Stored(p) /\ rows[p].live

Goto(r, q) == req' = [req EXCEPT ![r] = q]
Begin(r, q) == req[r] = Idle /\ Goto(r, q) /\ UNCHANGED <<backend, rows, mails, audits>>
End(r) == Goto(r, Idle)

(* SetNotifyEmail: PostgreSQL looks for a live row, the file backend only  *)
(* for the plugin's file.                                                  *)
ContactWritable(p) == Stored(p) /\ (backend = "postgres" => rows[p].live)

-----------------------------------------------------------------------------
Init ==
    /\ backend \in {"postgres", "file"}
    /\ rows = [p \in PluginIds |-> NoRow]
    /\ mails = [p \in PluginIds |-> 0]
    /\ audits = [a \in Logins |-> 0]
    /\ req = [r \in Requests |-> Idle]

(* SubmitPlugin: a pending row, read back; then, when an address was       *)
(* given, its own write, whose failure is only logged.  The file backend   *)
(* stores the deletedAt of the body: the reading finds nothing then, and   *)
(* the request ends.                                                       *)
Submit(r, p, a, t, given, live) ==
    /\ req[r] = Idle
    /\ ~Stored(p)
    /\ live \/ backend = "file"
    /\ rows' = [rows EXCEPT ![p] = [author |-> a, text |-> t,
                    status |-> "pending", contact |-> FALSE, live |-> live]]
    /\ Goto(r, IF given /\ live THEN [op |-> "contact", plugin |-> p] ELSE Idle)
    /\ UNCHANGED <<backend, mails, audits>>

SetContact(r) ==
    LET p == req[r].plugin IN
    /\ req[r].op = "contact"
    /\ ContactWritable(p)
    /\ rows' = [rows EXCEPT ![p].contact = TRUE]
    /\ End(r)
    /\ UNCHANGED <<backend, mails, audits>>

(* ReviewPlugin: look up, SetReviewOutcome, then read the record and the   *)
(* address again and send the mail.  The present status is never looked at.*)
AskReview(r, p, s) ==
    Live(p) /\ Begin(r, [op |-> "review", plugin |-> p, status |-> s])

SetReviewOutcome(r) ==
    LET q == req[r] IN
    /\ q.op = "review"
    /\ Live(q.plugin)
    /\ rows' = [rows EXCEPT ![q.plugin].status = q.status]
    /\ Goto(r, [q EXCEPT !.op = "notify"])
    /\ UNCHANGED <<backend, mails, audits>>

NotifyReviewOutcome(r) ==
    LET p == req[r].plugin IN
    /\ req[r].op = "notify"
    /\ Live(p) /\ rows[p].contact
    /\ mails[p] < MaxMails
    /\ mails' = [mails EXCEPT ![p] = @ + 1]
    /\ End(r)
    /\ UNCHANGED <<backend, rows, audits>>

(* UpdatePlugin: the whole record is read and patched in memory; Update    *)
(* writes every patchable column of it (not the status).  Only an admin's  *)
(* patch may name another author.                                          *)
AskUpdateText(r, p, t) ==
    Live(p) /\ Begin(r, [op |-> "update", plugin |-> p, patched |-> "text",
                         author |-> rows[p].author, text |-> t])

AskUpdateAuthor(r, p, a) ==
    Live(p) /\ Begin(r, [op |-> "update", plugin |-> p, patched |-> "author",
                         author |-> a, text |-> rows[p].text])

(* A slip: the status of the record that was read is written back too.     *)
UpdatedAsRead(row, q) ==
    [row EXCEPT !.author = q.author, !.text = q.text, !.status = "pending"]

Updated(row, q) == [row EXCEPT !.author = q.author, !.text = q.text]

Update(r) ==
    LET q == req[r] IN
    /\ q.op = "update"
    /\ Live(q.plugin)
    /\ rows' = [rows EXCEPT ![q.plugin] = Updated(@, q)]
    /\ End(r)
    /\ UNCHANGED <<backend, mails, audits>>

AskDelete(r, p) == Live(p) /\ Begin(r, [op |-> "delete", plugin |-> p])

Delete(r) ==
    LET p == req[r].plugin IN
    /\ req[r].op = "delete"
    /\ Live(p)
    /\ rows' = [rows EXCEPT ![p].live = FALSE]
    /\ End(r)
    /\ UNCHANGED <<backend, mails, audits>>

(* DeleteAccount: the live plugins of the login are listed once; then, one *)
(* after the other, the address is cleared and the plugin deleted and      *)
(* anonymised by id; the first call that fails ends the request.           *)
AskDeleteAccount(r, a) ==
    LET owned == {p \in PluginIds : Live(p) /\ rows[p].author = a} IN
    Begin(r, [op |-> "account", login |-> a, owned |-> owned, left |-> owned,
              erased |-> {}])

EraseContact(r, p) ==
    LET q == req[r] IN
    /\ q.op = "account"
    /\ q.erased = {}
    /\ p \in q.left
    /\ ContactWritable(p)
    /\ rows' = [rows EXCEPT ![p].contact = FALSE]
    /\ Goto(r, [q EXCEPT !.erased = {p}])
    /\ UNCHANGED <<backend, mails, audits>>

(* Slips: going on past a plugin that could not be deleted; a record of    *)
(* the deletion before the deletions.                                      *)
DeletableOrGone(p) == Stored(p)
FinishedAtOnce(q) == TRUE

Deletable(p) == Live(p)
Finished(q) == q.left = {}
Anonymous == Nobody

DeleteOwned(r, p) ==
    LET q == req[r] IN
    /\ q.op = "account"
    /\ q.erased = {p}
    /\ Deletable(p)
    /\ rows' = [rows EXCEPT ![p].live = FALSE, ![p].author = Anonymous]
    /\ Goto(r, [q EXCEPT !.left = @ \ {p}, !.erased = {}])
    /\ UNCHANGED <<backend, mails, audits>>

RecordAccountDeletion(r) ==
    LET q == req[r] IN
    /\ q.op = "account"
    /\ Finished(q)
    /\ audits[q.login] < MaxAudits
    /\ audits' = [audits EXCEPT ![q.login] = @ + 1]
    /\ End(r)
    /\ UNCHANGED <<backend, rows, mails>>

GiveUp(r) ==
    /\ req[r] # Idle
    /\ End(r)
    /\ UNCHANGED <<backend, rows, mails, audits>>

Step(r) ==
    \/ SetContact(r) \/ SetReviewOutcome(r) \/ NotifyReviewOutcome(r)
    \/ Update(r) \/ Delete(r) \/ RecordAccountDeletion(r) \/ GiveUp(r)
    \/ \E a \in Logins : AskDeleteAccount(r, a)
    \/ \E p \in PluginIds :
          \/ AskDelete(r, p) \/ EraseContact(r, p) \/ DeleteOwned(r, p)
          \/ \E s \in {"active", "rejected"} : AskReview(r, p, s)
          \/ \E t \in Texts : AskUpdateText(r, p, t)
          \/ \E a \in Logins : AskUpdateAuthor(r, p, a)
          \/ \E a \in Logins, t \in Texts, given, live \in BOOLEAN :
                Submit(r, p, a, t, given, live)

Next == \E r \in Requests : Step(r)

Spec == Init /\ [][Next]_vars

-----------------------------------------------------------------------------
(* Whoever was mailed about a plugin was mailed a decision that stands: no *)
(* patch, submission or deletion that runs before, between or after        *)
(* SetReviewOutcome and the mail makes the plugin pending again.           *)
MailImpliesDecision ==
    \A p \in PluginIds :
        mails[p] > 0 => (Stored(p) /\ rows[p].status # "pending")

(* Only a review decides: a patch computed from a record that was pending  *)
(* cannot take back an approval recorded since, and nothing makes a        *)
(* reviewed plugin pending again.                                          *)
StatusDecidedByReview ==
    [][\A p \in PluginIds :
          (Stored(p) /\ rows'[p].status # rows[p].status) =>
              \E r \in Requests :
                  req[r] = [op |-> "review", plugin |-> p,
                            status |-> rows'[p].status]]_vars

(* A deleted record is out of reach of the requests that read it before:   *)
(* no late review, patch or account deletion changes or revives it.        *)
DeletedRecordFrozen ==
    [][\A p \in PluginIds :
          (Stored(p) /\ ~rows[p].live) =>
              /\ Stored(p)' /\ ~rows'[p].live
              /\ \A f \in {"author", "text", "status"} :
                     rows'[p][f] = rows[p][f]]_vars

(* An account deletion is recorded only once every plugin it set out to    *)
(* delete is deleted and anonymised.                                       *)
AccountAuditComplete ==
    [][\A r \in Requests :
          (req[r].op = "account" /\ audits' # audits /\ req[r]' = Idle) =>
              \A p \in req[r].owned : ~Live(p) /\ rows[p].author = Nobody]_vars
=============================================================================
