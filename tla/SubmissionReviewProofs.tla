----------------------- MODULE SubmissionReviewProofs -----------------------
(***************************************************************************)
(* Proofs about SubmissionReview, for any number of plugins, logins, texts *)
(* and requests in flight.                                                 *)
(*                                                                         *)
(* Every property is about what a request may still do with what it read   *)
(* earlier.  So the proofs are in two parts: what a step may do to one row *)
(* whoever takes it (RowStep), and what the requests under way rely on     *)
(* (Reliance), which no such step takes from them.                         *)
(***************************************************************************)
EXTENDS SubmissionReview, TLAPS

ReviewOf(p, s) == [op |-> "review", plugin |-> p, status |-> s]

(* What a step does to a row.                                              *)
RowStep(p) ==
    /\ rows'[p] \in Row \union {NoRow}
    /\ Stored(p) => Stored(p)'
    /\ Live(p)' => rows'[p].author \in Logins
    /\ Stored(p) /\ rows'[p].status # rows[p].status =>
           /\ rows'[p].status # "pending"
           /\ \E r \in Requests : req[r] = ReviewOf(p, rows'[p].status)
    /\ Stored(p) /\ ~rows[p].live =>
           /\ ~rows'[p].live
           /\ rows'[p].author = rows[p].author
           /\ rows'[p].text = rows[p].text
           /\ rows'[p].status = rows[p].status

RowsStep == rows' = [p \in PluginIds |-> rows'[p]] /\ \A p \in PluginIds : RowStep(p)

(* The author of a live record is a login: an update that only patches     *)
(* other fields writes it back.                                            *)
LiveHasAuthor == \A p \in PluginIds : Live(p) => rows[p].author \in Logins

(* A plugin an account deletion has dealt with.                            *)
Erased(p) == Stored(p) /\ ~rows[p].live /\ rows[p].author = Nobody

(* What a request under way relies on: a review that has yet to mail, that *)
(* the plugin is decided; an account deletion, that what it has crossed    *)
(* off is erased.                                                          *)
Reliance(q) ==
    /\ q.op = "notify" => Stored(q.plugin) /\ rows[q.plugin].status # "pending"
    /\ q.op = "account" =>
           /\ q.erased \subseteq q.left
           /\ \A p \in q.owned \ q.left : Erased(p)

IInv ==
    /\ TypeOK
    /\ LiveHasAuthor
    /\ MailImpliesDecision
    /\ \A r \in Requests : Reliance(req[r])

-----------------------------------------------------------------------------
(* The shape of a request follows from its operation.                      *)
LEMMA Shapes ==
    ASSUME TypeOK, NEW r \in Requests
    PROVE  /\ req[r].op = "contact" => req[r].plugin \in PluginIds
           /\ req[r].op \in {"review", "notify"} =>
                  req[r] \in [op : {"review", "notify"}, plugin : PluginIds,
                              status : {"active", "rejected"}]
           /\ req[r].op = "update" =>
                  req[r] \in [op : {"update"}, plugin : PluginIds,
                              patched : {"author", "text"},
                              author : Logins, text : Texts]
           /\ req[r].op = "delete" => req[r].plugin \in PluginIds
           /\ req[r].op = "account" =>
                  req[r] \in [op : {"account"}, login : Logins,
                              owned : SUBSET PluginIds, left : SUBSET PluginIds,
                              erased : SUBSET PluginIds]
           /\ req[r].op = "idle" => req[r] = Idle
<1>1. req[r] \in Pending \union {Idle} BY DEF TypeOK
<1> QED BY <1>1 DEF Pending, Idle

LEMMA StoredTyped ==
    ASSUME TypeOK, NEW p \in PluginIds
    PROVE  /\ Stored(p) => rows[p] \in Row
           /\ rows[p] \in Row => Stored(p)
BY NoRowAssumption DEF TypeOK, Stored

(* A row that stays as it is.                                              *)
LEMMA RowStays ==
    ASSUME TypeOK, LiveHasAuthor, NEW p \in PluginIds, rows'[p] = rows[p]
    PROVE  RowStep(p)
BY DEF RowStep, LiveHasAuthor, TypeOK, Stored, Live

LEMMA RowsStay ==
    ASSUME TypeOK, LiveHasAuthor, rows' = rows
    PROVE  RowsStep
BY RowStays DEF RowsStep, TypeOK

(* A row that a step replaces, the others being left alone.                *)
LEMMA OneRow ==
    ASSUME TypeOK, LiveHasAuthor, NEW p \in PluginIds, NEW new,
           rows' = [rows EXCEPT ![p] = new], rows'[p] = new => RowStep(p)
    PROVE  RowsStep
<1>1. rows' = [s \in PluginIds |-> rows'[s]] BY DEF TypeOK
<1>2. rows'[p] = new BY DEF TypeOK
<1>3. \A s \in PluginIds \ {p} : rows'[s] = rows[s] BY DEF TypeOK
<1>4. \A s \in PluginIds : RowStep(s) BY <1>2, <1>3, RowStays
<1> QED BY <1>1, <1>4 DEF RowsStep

LEMMA SubmitRows ==
    ASSUME TypeOK, LiveHasAuthor, NEW r \in Requests, NEW p \in PluginIds,
           NEW a \in Logins, NEW t \in Texts, NEW given \in BOOLEAN,
           NEW live \in BOOLEAN, Submit(r, p, a, t, given, live)
    PROVE  RowsStep
<1> DEFINE new == [author |-> a, text |-> t, status |-> "pending",
                   contact |-> FALSE, live |-> live]
<1>1. rows' = [rows EXCEPT ![p] = new] /\ ~Stored(p) BY DEF Submit
<1>2. new \in Row /\ new.author \in Logins BY DEF Row
<1>3. new # NoRow BY <1>2, NoRowAssumption
<1> HIDE DEF new
<1>4. rows'[p] = new => RowStep(p) BY <1>1, <1>2 DEF RowStep
<1> QED BY <1>1, <1>4, OneRow

(* An address is set or cleared.                                           *)
LEMMA ContactRow ==
    ASSUME TypeOK, LiveHasAuthor, NEW p \in PluginIds, NEW b \in BOOLEAN,
           Stored(p), rows' = [rows EXCEPT ![p].contact = b]
    PROVE  RowsStep
<1> DEFINE new == [rows[p] EXCEPT !.contact = b]
<1>1. rows[p] \in Row BY StoredTyped
<1>2. /\ new \in Row /\ new.author = rows[p].author /\ new.text = rows[p].text
      /\ new.status = rows[p].status /\ new.live = rows[p].live
  BY <1>1 DEF Row
<1>3. rows' = [rows EXCEPT ![p] = new] OBVIOUS
<1> HIDE DEF new
<1>4. rows'[p] = new => RowStep(p)
  BY <1>1, <1>2, NoRowAssumption DEF RowStep, Stored, Live, LiveHasAuthor
<1> QED BY <1>3, <1>4, OneRow

LEMMA ReviewRow ==
    ASSUME TypeOK, LiveHasAuthor, NEW r \in Requests, SetReviewOutcome(r)
    PROVE  RowsStep
<1>1. req[r].op = "review" BY DEF SetReviewOutcome
<1>2. req[r] \in [op : {"review", "notify"}, plugin : PluginIds,
                  status : {"active", "rejected"}]
  BY <1>1, Shapes
<1>3. PICK p \in PluginIds, s \in {"active", "rejected"} : req[r] = ReviewOf(p, s)
  BY <1>1, <1>2 DEF ReviewOf
<1>4. Live(p) /\ rows' = [rows EXCEPT ![p].status = s]
  BY <1>3 DEF SetReviewOutcome, ReviewOf
<1> DEFINE new == [rows[p] EXCEPT !.status = s]
<1>5. rows[p] \in Row /\ rows[p].live BY <1>4, StoredTyped DEF Live
<1>6. new \in Row /\ new.author = rows[p].author /\ new.status = s
  BY <1>5 DEF Row
<1>7. rows' = [rows EXCEPT ![p] = new] BY <1>4
<1>8. rows[p].author \in Logins BY <1>4 DEF LiveHasAuthor
<1> HIDE DEF new
<1>9. rows'[p] = new => RowStep(p)
  BY <1>3, <1>5, <1>6, <1>8, NoRowAssumption DEF RowStep, Stored
<1> QED BY <1>7, <1>9, OneRow

LEMMA UpdateRow ==
    ASSUME TypeOK, LiveHasAuthor, NEW r \in Requests, Update(r)
    PROVE  RowsStep
<1>1. req[r].op = "update" BY DEF Update
<1>2. req[r].plugin \in PluginIds /\ req[r].author \in Logins /\ req[r].text \in Texts
  BY <1>1, Shapes
<1>3. PICK p \in PluginIds : p = req[r].plugin BY <1>2
<1> DEFINE new == Updated(rows[p], req[r])
<1>4. Live(p) /\ rows' = [rows EXCEPT ![p] = new] BY <1>3 DEF Update
<1>5. rows[p] \in Row /\ rows[p].live BY <1>4, StoredTyped DEF Live
<1>6. new \in Row /\ new.author \in Logins /\ new.status = rows[p].status
  BY <1>2, <1>5 DEF Row, Updated
<1> HIDE DEF new
<1>7. rows'[p] = new => RowStep(p)
  BY <1>5, <1>6, NoRowAssumption DEF RowStep, Stored
<1> QED BY <1>4, <1>7, OneRow

(* A plugin is deleted, with or without its author.                        *)
LEMMA DeleteRow ==
    ASSUME TypeOK, LiveHasAuthor, NEW p \in PluginIds, Live(p),
           NEW new \in Row, ~new.live, new.status = rows[p].status,
           rows' = [rows EXCEPT ![p] = new]
    PROVE  RowsStep
<1>1. rows[p].live BY DEF Live
<1>2. rows'[p] = new => RowStep(p)
  BY <1>1, NoRowAssumption DEF RowStep, Stored, Live
<1> QED BY <1>2, OneRow

(* A step of any request takes its course with every row.                  *)
LEMMA StepRows ==
    ASSUME TypeOK, LiveHasAuthor, [Next]_vars
    PROVE  RowsStep
<1>1. CASE UNCHANGED rows BY <1>1, RowsStay
<1>2. ASSUME NEW r \in Requests, SetContact(r) PROVE RowsStep
  <2>1. req[r].plugin \in PluginIds BY <1>2, Shapes DEF SetContact
  <2>2. PICK p \in PluginIds : p = req[r].plugin BY <2>1
  <2>3. Stored(p) /\ rows' = [rows EXCEPT ![p].contact = TRUE]
    BY <1>2, <2>2 DEF SetContact, ContactWritable
  <2> QED BY <2>3, ContactRow
<1>3. ASSUME NEW r \in Requests, NEW p \in PluginIds, EraseContact(r, p)
      PROVE  RowsStep
  BY <1>3, ContactRow DEF EraseContact, ContactWritable
<1>4. ASSUME NEW r \in Requests, Delete(r) PROVE RowsStep
  <2>1. req[r].plugin \in PluginIds BY <1>4, Shapes DEF Delete
  <2>2. PICK p \in PluginIds : p = req[r].plugin BY <2>1
  <2> DEFINE new == [rows[p] EXCEPT !.live = FALSE]
  <2>3. Live(p) /\ rows' = [rows EXCEPT ![p] = new] BY <1>4, <2>2 DEF Delete
  <2>4. rows[p] \in Row BY <2>3, StoredTyped DEF Live
  <2>5. new \in Row /\ ~new.live /\ new.status = rows[p].status BY <2>4 DEF Row
  <2> QED BY <2>3, <2>5, DeleteRow
<1>5. ASSUME NEW r \in Requests, NEW p \in PluginIds, DeleteOwned(r, p)
      PROVE  RowsStep
  <2> DEFINE new == [rows[p] EXCEPT !.live = FALSE, !.author = Nobody]
  <2>1. Live(p) /\ rows' = [rows EXCEPT ![p] = new]
    BY <1>5 DEF DeleteOwned, Deletable, Anonymous
  <2>2. rows[p] \in Row BY <2>1, StoredTyped DEF Live
  <2>3. new \in Row /\ ~new.live /\ new.status = rows[p].status BY <2>2 DEF Row
  <2> QED BY <2>1, <2>3, DeleteRow
<1>6. ASSUME NEW r \in Requests,
             \/ NotifyReviewOutcome(r) \/ RecordAccountDeletion(r) \/ GiveUp(r)
             \/ \E a \in Logins : AskDeleteAccount(r, a)
      PROVE  RowsStep
  BY <1>1, <1>6
  DEF NotifyReviewOutcome, RecordAccountDeletion, GiveUp, AskDeleteAccount, Begin
<1>7. ASSUME NEW r \in Requests, NEW p \in PluginIds,
             \/ AskDelete(r, p)
             \/ \E s \in {"active", "rejected"} : AskReview(r, p, s)
             \/ \E t \in Texts : AskUpdateText(r, p, t)
             \/ \E a \in Logins : AskUpdateAuthor(r, p, a)
      PROVE  RowsStep
  BY <1>1, <1>7 DEF AskDelete, AskReview, AskUpdateText, AskUpdateAuthor, Begin
<1>8. ASSUME NEW r \in Requests, Step(r) PROVE RowsStep
  BY <1>2, <1>3, <1>4, <1>5, <1>6, <1>7, <1>8, SubmitRows, ReviewRow, UpdateRow, Zenon
  DEF Step
<1>9. CASE UNCHANGED vars BY <1>1, <1>9 DEF vars
<1> QED BY <1>8, <1>9 DEF Next

-----------------------------------------------------------------------------
(* What a request relies on, no step of another takes away.                *)
LEMMA RelianceStays ==
    ASSUME TypeOK, RowsStep, NEW r \in Requests, Reliance(req[r]), req'[r] = req[r]
    PROVE  Reliance(req[r])'
<1>1. ASSUME NEW p \in PluginIds, Stored(p), rows[p].status # "pending"
      PROVE  Stored(p)' /\ rows'[p].status # "pending"
  BY <1>1 DEF RowsStep, RowStep
<1>2. ASSUME NEW p \in PluginIds, Erased(p) PROVE Erased(p)'
  BY <1>2 DEF RowsStep, RowStep, Erased
<1>3. req[r].op = "notify" => req[r].plugin \in PluginIds BY Shapes
<1>4. req[r].op = "account" => req[r].owned \subseteq PluginIds BY Shapes
<1>5. req[r].op = "notify" => Stored(req[r].plugin)' /\ rows'[req[r].plugin].status # "pending"
  <2> SUFFICES ASSUME req[r].op = "notify"
               PROVE  Stored(req[r].plugin)' /\ rows'[req[r].plugin].status # "pending"
    OBVIOUS
  <2>1. PICK p \in PluginIds : p = req[r].plugin BY <1>3
  <2>2. Stored(p) /\ rows[p].status # "pending" BY <2>1 DEF Reliance
  <2>3. Stored(p)' /\ rows'[p].status # "pending" BY <1>1, <2>2
  <2> QED BY <2>1, <2>3 DEF Stored
<1>6. req[r].op = "account" =>
        /\ req[r].erased \subseteq req[r].left
        /\ \A p \in req[r].owned \ req[r].left : Erased(p)'
  BY <1>2, <1>4 DEF Reliance
<1> QED BY <1>5, <1>6 DEF Reliance, Stored

(* The request that takes a step goes on with a request it may rely on.    *)
GoesOn(r) ==
    /\ req' = [req EXCEPT ![r] = req'[r]]
    /\ req'[r] \in Pending \union {Idle}
    /\ Reliance(req[r])'

LEMMA Ends ==
    ASSUME TypeOK, NEW r \in Requests, End(r)
    PROVE  GoesOn(r)
<1>1. req' = [req EXCEPT ![r] = Idle] /\ req'[r] = Idle BY DEF End, Goto, TypeOK
<1>2. req'[r].op = "idle" BY <1>1 DEF Idle
<1> QED BY <1>1, <1>2 DEF GoesOn, Reliance

(* A request that relies on nothing yet.                                   *)
LEMMA Begins ==
    ASSUME TypeOK, NEW r \in Requests, NEW q \in Pending, Goto(r, q),
           q.op \in {"contact", "review", "update", "delete"}
    PROVE  GoesOn(r)
<1>1. req' = [req EXCEPT ![r] = q] /\ req'[r] = q BY DEF Goto, TypeOK
<1> QED BY <1>1 DEF GoesOn, Reliance

LEMMA SubmitGoesOn ==
    ASSUME TypeOK, NEW r \in Requests, NEW p \in PluginIds,
           NEW a \in Logins, NEW t \in Texts, NEW given \in BOOLEAN,
           NEW live \in BOOLEAN, Submit(r, p, a, t, given, live)
    PROVE  GoesOn(r)
<1> DEFINE q == [op |-> "contact", plugin |-> p]
<1>1. CASE given /\ live
  <2>1. Goto(r, q) BY <1>1 DEF Submit
  <2>2. q \in Pending /\ q.op = "contact" BY DEF Pending
  <2> QED BY <2>1, <2>2, Begins
<1>2. CASE ~(given /\ live) BY <1>2, Ends DEF Submit, End
<1> QED BY <1>1, <1>2

LEMMA AskGoesOn ==
    ASSUME TypeOK, LiveHasAuthor, NEW r \in Requests, NEW p \in PluginIds,
           \/ AskDelete(r, p)
           \/ \E s \in {"active", "rejected"} : AskReview(r, p, s)
           \/ \E t \in Texts : AskUpdateText(r, p, t)
           \/ \E a \in Logins : AskUpdateAuthor(r, p, a)
    PROVE  GoesOn(r)
<1>1. CASE AskDelete(r, p)
  <2> DEFINE q == [op |-> "delete", plugin |-> p]
  <2>1. Goto(r, q) BY <1>1 DEF AskDelete, Begin
  <2>2. q \in Pending /\ q.op = "delete" BY DEF Pending
  <2> QED BY <2>1, <2>2, Begins
<1>2. ASSUME NEW s \in {"active", "rejected"}, AskReview(r, p, s) PROVE GoesOn(r)
  <2> DEFINE q == [op |-> "review", plugin |-> p, status |-> s]
  <2>1. Goto(r, q) BY <1>2 DEF AskReview, Begin
  <2>2. q \in Pending /\ q.op = "review" BY DEF Pending
  <2> QED BY <2>1, <2>2, Begins
<1>3. ASSUME NEW a \in Logins, NEW t \in Texts, NEW f \in {"author", "text"},
             Goto(r, [op |-> "update", plugin |-> p, patched |-> f,
                      author |-> a, text |-> t])
      PROVE  GoesOn(r)
  <2> DEFINE q == [op |-> "update", plugin |-> p, patched |-> f,
                   author |-> a, text |-> t]
  <2>1. q \in Pending /\ q.op = "update" BY DEF Pending
  <2> QED BY <1>3, <2>1, Begins
<1>4. Live(p) => rows[p].author \in Logins /\ rows[p].text \in Texts
  BY StoredTyped DEF LiveHasAuthor, Live, Row
<1>5. ASSUME NEW t \in Texts, AskUpdateText(r, p, t) PROVE GoesOn(r)
  <2>1. PICK a \in Logins : a = rows[p].author BY <1>4, <1>5 DEF AskUpdateText
  <2> QED BY <1>3, <1>5, <2>1 DEF AskUpdateText, Begin
<1>6. ASSUME NEW a \in Logins, AskUpdateAuthor(r, p, a) PROVE GoesOn(r)
  <2>1. PICK t \in Texts : t = rows[p].text BY <1>4, <1>6 DEF AskUpdateAuthor
  <2> QED BY <1>3, <1>6, <2>1 DEF AskUpdateAuthor, Begin
<1> QED BY <1>1, <1>2, <1>5, <1>6

LEMMA ReviewGoesOn ==
    ASSUME TypeOK, NEW r \in Requests, SetReviewOutcome(r)
    PROVE  GoesOn(r)
<1>1. req[r].op = "review" BY DEF SetReviewOutcome
<1>2. req[r] \in [op : {"review", "notify"}, plugin : PluginIds,
                  status : {"active", "rejected"}]
  BY <1>1, Shapes
<1>3. PICK p \in PluginIds, s \in {"active", "rejected"} : req[r] = ReviewOf(p, s)
  BY <1>1, <1>2 DEF ReviewOf
<1> DEFINE q == [op |-> "notify", plugin |-> p, status |-> s]
<1>4. /\ Live(p) /\ rows' = [rows EXCEPT ![p].status = s]
      /\ req' = [req EXCEPT ![r] = q]
  <2>1. req[r].plugin = p /\ req[r].status = s BY <1>3 DEF ReviewOf
  <2>2. [req[r] EXCEPT !.op = "notify"] = q BY <1>3 DEF ReviewOf
  <2> HIDE DEF q
  <2> QED BY <2>1, <2>2 DEF SetReviewOutcome, Goto
<1>5. rows[p] \in Row BY <1>4, StoredTyped DEF Live
<1>6. rows'[p] \in Row /\ rows'[p].status = s BY <1>4, <1>5 DEF Row, TypeOK
<1>7. Stored(p)' BY <1>6, NoRowAssumption DEF Stored
<1>8. req'[r] = q BY <1>4 DEF TypeOK
<1>9. q \in Pending /\ q.op = "notify" /\ q.plugin = p BY DEF Pending
<1> HIDE DEF q
<1>10. Reliance(req[r])' BY <1>6, <1>7, <1>8, <1>9 DEF Reliance, Stored
<1> QED BY <1>4, <1>8, <1>9, <1>10 DEF GoesOn

LEMMA AccountGoesOn ==
    ASSUME TypeOK, NEW r \in Requests, RowsStep, Reliance(req[r]),
           \/ \E a \in Logins : AskDeleteAccount(r, a)
           \/ \E p \in PluginIds : EraseContact(r, p) \/ DeleteOwned(r, p)
    PROVE  GoesOn(r)
<1> DEFINE Account == [op : {"account"}, login : Logins, owned : SUBSET PluginIds,
                       left : SUBSET PluginIds, erased : SUBSET PluginIds]
<1>1. ASSUME NEW q \in Account, Goto(r, q), q.erased \subseteq q.left,
             \A p \in q.owned \ q.left : Erased(p)'
      PROVE  GoesOn(r)
  <2>1. req' = [req EXCEPT ![r] = q] /\ req'[r] = q BY <1>1 DEF Goto, TypeOK
  <2>2. q \in Pending /\ q.op = "account" BY DEF Pending
  <2> QED BY <1>1, <2>1, <2>2 DEF GoesOn, Reliance
<1>2. ASSUME NEW a \in Logins, AskDeleteAccount(r, a) PROVE GoesOn(r)
  <2> DEFINE owned == {p \in PluginIds : Live(p) /\ rows[p].author = a}
  <2>1. PICK o \in SUBSET PluginIds : o = owned OBVIOUS
  <2> DEFINE q == [op |-> "account", login |-> a, owned |-> o, left |-> o,
                   erased |-> {}]
  <2>2. Goto(r, q) BY <1>2, <2>1 DEF AskDeleteAccount, Begin
  <2>3. q \in Account OBVIOUS
  <2>4. q.erased \subseteq q.left /\ q.owned \ q.left = {} OBVIOUS
  <2> QED BY <1>1, <2>2, <2>3, <2>4
<1>3. ASSUME NEW p \in PluginIds, Erased(p) PROVE Erased(p)'
  BY <1>3 DEF RowsStep, RowStep, Erased
<1>4. ASSUME NEW p \in PluginIds, EraseContact(r, p) PROVE GoesOn(r)
  <2>1. req[r].op = "account" /\ p \in req[r].left BY <1>4 DEF EraseContact
  <2>2. req[r] \in Account BY <2>1, Shapes
  <2>3. PICK q \in Account : q = [req[r] EXCEPT !.erased = {p}]
    BY <2>2
  <2>4. /\ q.left = req[r].left /\ q.owned = req[r].owned /\ q.erased = {p}
    BY <2>2, <2>3
  <2>5. Goto(r, q) BY <1>4, <2>3 DEF EraseContact
  <2>6. \A s \in q.owned \ q.left : Erased(s)'
    BY <1>3, <2>1, <2>2, <2>4 DEF Reliance
  <2> QED BY <1>1, <2>1, <2>4, <2>5, <2>6
<1>5. ASSUME NEW p \in PluginIds, DeleteOwned(r, p) PROVE GoesOn(r)
  <2>1. /\ req[r].op = "account" /\ Live(p)
        /\ rows' = [rows EXCEPT ![p].live = FALSE, ![p].author = Nobody]
    BY <1>5 DEF DeleteOwned, Deletable, Anonymous
  <2>2. req[r] \in Account BY <2>1, Shapes
  <2>3. PICK q \in Account : q = [req[r] EXCEPT !.left = @ \ {p}, !.erased = {}]
    BY <2>2
  <2>4. q.left = req[r].left \ {p} /\ q.owned = req[r].owned /\ q.erased = {}
    BY <2>2, <2>3
  <2>5. Goto(r, q) BY <1>5, <2>3 DEF DeleteOwned
  <2>6. rows[p] \in Row BY <2>1, StoredTyped DEF Live
  <2>7. rows'[p] \in Row /\ ~rows'[p].live /\ rows'[p].author = Nobody
    BY <2>1, <2>6 DEF Row, TypeOK
  <2>8. Erased(p)' BY <2>7, NoRowAssumption DEF Erased, Stored
  <2>9. \A s \in q.owned \ q.left : Erased(s)'
    BY <1>3, <2>1, <2>2, <2>4, <2>8 DEF Reliance
  <2> QED BY <1>1, <2>4, <2>5, <2>9
<1> QED BY <1>2, <1>4, <1>5

LEMMA StepGoesOn ==
    ASSUME IInv, RowsStep, NEW r \in Requests, Step(r)
    PROVE  GoesOn(r)
<1> USE DEF IInv
<1>1. CASE SetContact(r) \/ NotifyReviewOutcome(r) \/ Update(r) \/ Delete(r)
           \/ RecordAccountDeletion(r) \/ GiveUp(r)
  BY <1>1, Ends DEF SetContact, NotifyReviewOutcome, Update, Delete,
                    RecordAccountDeletion, GiveUp
<1>2. CASE SetReviewOutcome(r) BY <1>2, ReviewGoesOn
<1>3. CASE \/ \E a \in Logins : AskDeleteAccount(r, a)
           \/ \E p \in PluginIds : EraseContact(r, p) \/ DeleteOwned(r, p)
  BY <1>3, AccountGoesOn
<1>4. ASSUME NEW p \in PluginIds,
             \/ AskDelete(r, p)
             \/ \E s \in {"active", "rejected"} : AskReview(r, p, s)
             \/ \E t \in Texts : AskUpdateText(r, p, t)
             \/ \E a \in Logins : AskUpdateAuthor(r, p, a)
      PROVE  GoesOn(r)
  BY <1>4, AskGoesOn
<1>5. ASSUME NEW p \in PluginIds, NEW a \in Logins, NEW t \in Texts,
             NEW given \in BOOLEAN, NEW live \in BOOLEAN,
             Submit(r, p, a, t, given, live)
      PROVE  GoesOn(r)
  BY <1>5, SubmitGoesOn
<1> HIDE DEF IInv
<1> QED BY <1>1, <1>2, <1>3, <1>4, <1>5, Zenon DEF Step

-----------------------------------------------------------------------------
(* Mails and audit records                                                 *)

(* A mail is sent about a plugin that is decided.                          *)
MailStep ==
    /\ backend' \in {"postgres", "file"}
    /\ mails' \in [PluginIds -> 0 .. MaxMails]
    /\ audits' \in [Logins -> 0 .. MaxAudits]
    /\ \A p \in PluginIds :
           mails'[p] > 0 /\ ~(mails[p] > 0) =>
               Stored(p) /\ rows[p].status # "pending"

LEMMA StepMails ==
    ASSUME IInv, NEW r \in Requests, Step(r)
    PROVE  MailStep
<1> USE DEF IInv
<1>1. CASE UNCHANGED <<backend, mails, audits>> BY <1>1 DEF MailStep, TypeOK
<1>2. CASE NotifyReviewOutcome(r)
  <2>1. req[r].op = "notify" BY <1>2 DEF NotifyReviewOutcome
  <2>2. req[r].plugin \in PluginIds BY <2>1, Shapes
  <2>3. PICK p \in PluginIds : p = req[r].plugin BY <2>2
  <2>4. /\ mails[p] < MaxMails /\ mails' = [mails EXCEPT ![p] = @ + 1]
        /\ UNCHANGED <<backend, rows, audits>>
    BY <1>2, <2>3 DEF NotifyReviewOutcome
  <2>5. Stored(p) /\ rows[p].status # "pending" BY <2>1, <2>3 DEF Reliance
  <2>6. mails' \in [PluginIds -> 0 .. MaxMails]
    BY <2>4, ReviewAssumption DEF TypeOK
  <2> QED BY <2>4, <2>5, <2>6 DEF MailStep, TypeOK
<1>3. CASE RecordAccountDeletion(r)
  <2>1. req[r].op = "account" BY <1>3 DEF RecordAccountDeletion
  <2>2. req[r].login \in Logins BY <2>1, Shapes
  <2>3. audits' \in [Logins -> 0 .. MaxAudits]
    BY <1>3, <2>2, ReviewAssumption DEF RecordAccountDeletion, TypeOK
  <2> QED BY <1>3, <2>3 DEF RecordAccountDeletion, MailStep, TypeOK
<1>4. CASE SetContact(r) \/ SetReviewOutcome(r) \/ Update(r) \/ Delete(r) \/ GiveUp(r)
           \/ \E a \in Logins : AskDeleteAccount(r, a)
  BY <1>1, <1>4
  DEF SetContact, SetReviewOutcome, Update, Delete, GiveUp, AskDeleteAccount, Begin
<1>5. ASSUME NEW p \in PluginIds,
             \/ AskDelete(r, p) \/ EraseContact(r, p) \/ DeleteOwned(r, p)
             \/ \E s \in {"active", "rejected"} : AskReview(r, p, s)
             \/ \E t \in Texts : AskUpdateText(r, p, t)
             \/ \E a \in Logins : AskUpdateAuthor(r, p, a)
             \/ \E a \in Logins, t \in Texts, given, live \in BOOLEAN :
                   Submit(r, p, a, t, given, live)
      PROVE  MailStep
  BY <1>1, <1>5 DEF AskDelete, EraseContact, DeleteOwned, AskReview, AskUpdateText,
                    AskUpdateAuthor, Submit, Begin
<1> HIDE DEF IInv
<1> QED BY <1>2, <1>3, <1>4, <1>5, Zenon DEF Step

-----------------------------------------------------------------------------
LEMMA InitInv == Init => IInv
<1> SUFFICES ASSUME Init PROVE IInv OBVIOUS
<1>1. TypeOK BY ReviewAssumption DEF Init, TypeOK
<1>2. \A p \in PluginIds : ~Stored(p) BY DEF Init, Stored
<1>3. LiveHasAuthor BY <1>2 DEF LiveHasAuthor, Live
<1>4. MailImpliesDecision BY DEF Init, MailImpliesDecision
<1>5. \A r \in Requests : Reliance(req[r]) BY DEF Init, Idle, Reliance
<1> QED BY <1>1, <1>3, <1>4, <1>5 DEF IInv

LEMMA StepInv == IInv /\ [Next]_vars => IInv'
<1> SUFFICES ASSUME IInv, [Next]_vars PROVE IInv' OBVIOUS
<1> USE DEF IInv
<1>1. RowsStep BY StepRows
<1>2. ASSUME NEW r \in Requests, Step(r) PROVE IInv'
  <2>1. GoesOn(r) BY <1>1, <1>2, StepGoesOn
  <2>2. MailStep BY <1>2, StepMails
  <2>3. rows' \in [PluginIds -> Row \union {NoRow}] BY <1>1 DEF RowsStep, RowStep
  <2>4. req' \in [Requests -> Pending \union {Idle}] BY <2>1 DEF GoesOn, TypeOK
  <2>5. TypeOK' BY <2>2, <2>3, <2>4 DEF TypeOK, MailStep
  <2>6. LiveHasAuthor' BY <1>1 DEF LiveHasAuthor, RowsStep, RowStep
  <2>7. ASSUME NEW s \in Requests PROVE Reliance(req[s])'
    <3>1. CASE s = r BY <2>1, <3>1 DEF GoesOn
    <3>2. CASE s # r
      <4>1. req'[s] = req[s] BY <2>1, <3>2 DEF GoesOn, TypeOK
      <4> QED BY <1>1, <4>1, RelianceStays
    <3> QED BY <3>1, <3>2
  <2>8. ASSUME NEW p \in PluginIds, mails'[p] > 0
        PROVE  Stored(p)' /\ rows'[p].status # "pending"
    <3>1. Stored(p) /\ rows[p].status # "pending"
      BY <2>2, <2>8 DEF MailStep, MailImpliesDecision
    <3> QED BY <1>1, <3>1 DEF RowsStep, RowStep
  <2> QED BY <2>5, <2>6, <2>7, <2>8 DEF MailImpliesDecision
<1>3. CASE UNCHANGED vars
  BY <1>3 DEF vars, TypeOK, LiveHasAuthor, MailImpliesDecision, Reliance, Live,
              Stored, Erased
<1> QED BY <1>2, <1>3 DEF Next

LEMMA Inductive == Spec => []IInv
BY InitInv, StepInv, PTL DEF Spec

(* Rows, mails and requests keep their types: an anonymised record has the *)
(* empty author, not none.                                                 *)
THEOREM TypeCorrect == Spec => []TypeOK
<1>1. IInv => TypeOK BY DEF IInv
<1> QED BY <1>1, Inductive, PTL

(* A submitter is mailed about decisions that stand (notifyReviewOutcome   *)
(* runs after SetReviewOutcome, and nothing makes the plugin pending       *)
(* again).                                                                 *)
THEOREM MailedDecisionsStand == Spec => []MailImpliesDecision
<1>1. IInv => MailImpliesDecision BY DEF IInv
<1> QED BY <1>1, Inductive, PTL

(* Only SetReviewOutcome changes a status, and to the one its reviewer     *)
(* asked for.                                                              *)
THEOREM OnlyReviewDecides == Spec => StatusDecidedByReview
<1>1. IInv /\ [Next]_vars =>
        [\A p \in PluginIds :
            (Stored(p) /\ rows'[p].status # rows[p].status) =>
                \E r \in Requests :
                    req[r] = [op |-> "review", plugin |-> p,
                              status |-> rows'[p].status]]_vars
  BY StepRows DEF IInv, RowsStep, RowStep, ReviewOf
<1> QED BY <1>1, Inductive, PTL DEF Spec, StatusDecidedByReview

(* Update, SetReviewOutcome and Delete look for a live row: a deleted one  *)
(* keeps its author, text and status whoever still holds a reading of it.  *)
THEOREM DeletedStaysFrozen == Spec => DeletedRecordFrozen
<1>1. IInv /\ [Next]_vars =>
        [\A p \in PluginIds :
            (Stored(p) /\ ~rows[p].live) =>
                /\ Stored(p)' /\ ~rows'[p].live
                /\ \A f \in {"author", "text", "status"} :
                       rows'[p][f] = rows[p][f]]_vars
  <2> SUFFICES ASSUME IInv, [Next]_vars, NEW p \in PluginIds,
                      Stored(p), ~rows[p].live
               PROVE  /\ Stored(p)' /\ ~rows'[p].live
                      /\ \A f \in {"author", "text", "status"} :
                             rows'[p][f] = rows[p][f]
    OBVIOUS
  <2>1. RowStep(p) BY StepRows DEF IInv, RowsStep
  <2>2. rows[p] \in Row /\ rows'[p] \in Row
    BY <2>1, StoredTyped DEF IInv, RowStep, Stored
  <2>3. /\ rows'[p].author = rows[p].author /\ rows'[p].text = rows[p].text
        /\ rows'[p].status = rows[p].status
    BY <2>1 DEF RowStep
  <2>4. \A f \in {"author", "text", "status"} : rows'[p][f] = rows[p][f]
    BY <2>2, <2>3 DEF Row
  <2> QED BY <2>1, <2>4 DEF RowStep
<1> QED BY <1>1, Inductive, PTL DEF Spec, DeletedRecordFrozen

(* DeleteAccount records an account's deletion only after every plugin it  *)
(* listed is deleted and anonymised, and all of them still are.            *)
THEOREM AuditsAreComplete == Spec => AccountAuditComplete
<1>1. IInv /\ [Next]_vars =>
        [\A r \in Requests :
            (req[r].op = "account" /\ audits' # audits /\ req[r]' = Idle) =>
                \A p \in req[r].owned : ~Live(p) /\ rows[p].author = Nobody]_vars
  <2> SUFFICES ASSUME IInv, Next, NEW r \in Requests, req[r].op = "account",
                      audits' # audits, req'[r] = Idle
               PROVE  \A p \in req[r].owned : ~Live(p) /\ rows[p].author = Nobody
    BY DEF vars
  <2>1. PICK s \in Requests : Step(s) BY DEF Next
  <2>2. RecordAccountDeletion(s)
    BY <2>1 DEF Step, SetContact, SetReviewOutcome, NotifyReviewOutcome, Update,
                Delete, GiveUp, AskDeleteAccount, AskDelete, EraseContact,
                DeleteOwned, AskReview, AskUpdateText, AskUpdateAuthor, Submit, Begin
  <2>3. s = r
    <3>1. req' = [req EXCEPT ![s] = Idle]
      BY <2>2 DEF RecordAccountDeletion, End, Goto
    <3>2. s # r => req'[r] = req[r] BY <3>1 DEF IInv, TypeOK
    <3> QED BY <3>2 DEF Idle
  <2>4. req[r].left = {} BY <2>2, <2>3 DEF RecordAccountDeletion, Finished
  <2>5. Reliance(req[r]) BY DEF IInv
  <2> QED BY <2>4, <2>5 DEF Reliance, Erased, Live
<1> QED BY <1>1, Inductive, PTL DEF Spec, AccountAuditComplete
=============================================================================
