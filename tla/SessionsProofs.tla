--------------------------- MODULE SessionsProofs ---------------------------
(***************************************************************************)
(* Proofs about Sessions, for any number of accounts, processes, tokens    *)
(* and requests and any lifetimes with ReauthWindow <= SessionTTL.         *)
(***************************************************************************)
EXTENDS Sessions, TLAPS

(* What follows an accepted token is a request or none.                    *)
LEMMA AcceptedType ==
    ASSUME TypeOK, NEW q \in Request
    PROVE  Accepted(q) \in Request \cup {Idle}
<1>1. [q EXCEPT !.step = "held"] \in Request /\ [q EXCEPT !.step = "cleared"] \in Request
  BY DEF Request, Steps
<1> QED BY <1>1 DEF Accepted

LEMMA RequestTyped ==
    ASSUME TypeOK, NEW r \in Requests, req[r] # Idle
    PROVE  req[r] \in Request
BY DEF TypeOK

LEMMA OneMoreType ==
    ASSUME NEW most \in Nat, NEW n \in 0 .. most
    PROVE  /\ OneMore(n, most) \in 0 .. most
           /\ n <= OneMore(n, most)
           /\ OneMore(n, most) <= n + 1
           /\ n < most => OneMore(n, most) = n + 1
BY DEF OneMore

LEMMA InitTyped == Init => TypeOK
BY SessionsAssumption DEF Init, TypeOK

LEMMA SignInTyped ==
    ASSUME TypeOK, NEW s \in SignIns, SignInStep(s)
    PROVE  TypeOK'
<1> USE DEF TypeOK
<1>1. ASSUME NEW p \in Processes, NEW l \in Logins \cup {NoLogin}, Callback(s, p, l)
      PROVE  TypeOK'
  BY <1>1 DEF Callback, CallbackState
<1>2. CASE RecordLogin(s)
  <2>1. callback[s] \in CallbackState BY <1>2 DEF RecordLogin
  <2>2. [callback[s] EXCEPT !.recorded = TRUE] \in CallbackState
    BY <2>1 DEF CallbackState
  <2>3. callback' \in [SignIns -> CallbackState \cup {Idle}]
    BY <1>2, <2>2 DEF RecordLogin
  <2>4. users' \subseteq Logins BY <1>2, <2>1 DEF RecordLogin, CallbackState
  <2> QED BY <1>2, <2>3, <2>4 DEF RecordLogin
<1>3. CASE RecordFails(s) BY <1>3 DEF RecordFails
<1>4. ASSUME NEW t \in Tokens, IssueJWT(s, t) PROVE TypeOK'
  <2>1. callback[s] \in CallbackState BY <1>4 DEF IssueJWT
  <2>2. callback[s].login \in Logins \cup {NoLogin} BY <2>1 DEF CallbackState
  <2>3. [login |-> callback[s].login, age |-> 0] \in Claims
    BY <2>2, SessionsAssumption DEF Claims, Oldest
  <2>4. token' \in [Tokens -> Claims \cup {Idle}] BY <1>4, <2>3 DEF IssueJWT
  <2>5. signedIn' \in [Logins \cup {NoLogin} -> 0 .. ReauthWindow + 1]
    BY <1>4, <2>2, SessionsAssumption DEF IssueJWT
  <2> QED BY <1>4, <2>4, <2>5 DEF IssueJWT
<1> QED BY <1>1, <1>2, <1>3, <1>4 DEF SignInStep

LEMMA RevokeTyped ==
    ASSUME TypeOK, NEW p \in Processes, NEW t \in Tokens, Revoke(p, t)
    PROVE  /\ list' \in [Processes -> SUBSET Tokens]
           /\ added' \in [Processes -> [Tokens -> 0 .. SweepEvery]]
           /\ swept' \in [Processes -> 0 .. SweepEvery]
<1> DEFINE entries == list[p] \cup {t}
           left == IF swept[p] >= SweepEvery THEN Kept(entries) ELSE entries
<1>1. left \in SUBSET Tokens BY DEF Kept, TypeOK
<1>2. list' = [list EXCEPT ![p] = left] BY DEF Revoke
<1>3. added' = [added EXCEPT ![p] =
                  [u \in Tokens |-> IF u \notin left THEN SweepEvery
                                    ELSE IF u = t THEN 0 ELSE added[p][u]]]
  BY DEF Revoke
<1> HIDE DEF left
<1>4. list' \in [Processes -> SUBSET Tokens] BY <1>1, <1>2 DEF TypeOK
<1>5. [u \in Tokens |-> IF u \notin left THEN SweepEvery
                        ELSE IF u = t THEN 0 ELSE added[p][u]]
         \in [Tokens -> 0 .. SweepEvery]
  BY SessionsAssumption DEF TypeOK
<1>6. added' \in [Processes -> [Tokens -> 0 .. SweepEvery]]
  BY <1>3, <1>5 DEF TypeOK
<1>7. swept' \in [Processes -> 0 .. SweepEvery]
  BY SessionsAssumption DEF TypeOK, Revoke
<1> QED BY <1>4, <1>6, <1>7

LEMMA EndSessionTyped ==
    ASSUME TypeOK, NEW r \in Requests, req[r] # Idle, EndSession(r)
    PROVE  TypeOK'
<1>1. req[r] \in Request BY RequestTyped
<1>2. req[r].on \in Processes /\ req[r].bearer \in Tokens BY <1>1 DEF Request
<1>3. Revoke(req[r].on, req[r].bearer) BY DEF EndSession
<1>4. /\ list' \in [Processes -> SUBSET Tokens]
      /\ added' \in [Processes -> [Tokens -> 0 .. SweepEvery]]
      /\ swept' \in [Processes -> 0 .. SweepEvery]
  BY <1>2, <1>3, RevokeTyped
<1> QED BY <1>2, <1>4 DEF EndSession, TypeOK

LEMMA RequestStepTyped ==
    ASSUME TypeOK, NEW r \in Requests, RequestStep(r)
    PROVE  TypeOK'
<1>1. ASSUME NEW p \in Processes, NEW t \in Tokens, NEW kind \in Kinds,
             Parse(r, p, t, kind)
      PROVE  TypeOK'
  <2>1. [on |-> p, kind |-> kind, bearer |-> t, check |-> t,
         confirming |-> FALSE, step |-> "parsed", late |-> t \in ended[p],
         static |-> FALSE] \in Request
    BY DEF Request, Steps
  <2> QED BY <1>1, <2>1 DEF Parse, TypeOK
<1>2. CASE IsRevoked(r)
  <2>1. req[r] \in Request BY <1>2, RequestTyped DEF IsRevoked
  <2>2. [req[r] EXCEPT !.step = "expired"] \in Request BY <2>1 DEF Request, Steps
  <2>3. Accepted(req[r]) \in Request \cup {Idle} BY <2>1, AcceptedType
  <2> QED BY <1>2, <2>2, <2>3 DEF IsRevoked, TypeOK
<1>3. CASE DropExpired(r)
  <2>1. req[r] \in Request BY <1>3, RequestTyped DEF DropExpired
  <2>2. Accepted(req[r]) \in Request \cup {Idle} BY <2>1, AcceptedType
  <2>3. req[r].on \in Processes /\ req[r].check \in Tokens BY <2>1 DEF Request
  <2>4. req' \in [Requests -> Request \cup {Idle}] BY <1>3, <2>2 DEF DropExpired, TypeOK
  <2>5. list' \in [Processes -> SUBSET Tokens] BY <1>3, <2>3 DEF DropExpired, TypeOK
  <2>6. added' \in [Processes -> [Tokens -> 0 .. SweepEvery]]
    BY <1>3, <2>3, SessionsAssumption DEF DropExpired, TypeOK
  <2> QED BY <1>3, <2>4, <2>5, <2>6 DEF DropExpired, TypeOK
<1>4. CASE Answer(r) BY <1>4 DEF Answer, TypeOK
<1>5. CASE Logout(r) BY <1>5, EndSessionTyped DEF Logout
<1>6. ASSUME NEW given \in {StaticToken, Idle}, RecentAuth(r, given) PROVE TypeOK'
  <2>1. req[r] \in Request BY <1>6, RequestTyped DEF RecentAuth
  <2>2. FreshlyAuthenticated(req[r].bearer) \in BOOLEAN BY DEF FreshlyAuthenticated
  <2>3. [req[r] EXCEPT !.step = "cleared",
                       !.static = ~FreshlyAuthenticated(req[r].bearer)] \in Request
    BY <2>1, <2>2 DEF Request, Steps
  <2>4. req' = [req EXCEPT ![r] = [req[r] EXCEPT !.step = "cleared",
                       !.static = ~FreshlyAuthenticated(req[r].bearer)]]
    BY <1>6, <2>1 DEF RecentAuth, Request, TypeOK
  <2> QED BY <1>6, <2>3, <2>4 DEF RecentAuth, TypeOK
<1>7. ASSUME NEW t \in Tokens, Reauthenticate(r, t) PROVE TypeOK'
  <2>1. req[r] \in Request BY <1>7, RequestTyped DEF Reauthenticate
  <2> DEFINE late == t \in ended[req[r].on]
             new == [req[r] EXCEPT !.step = "parsed", !.check = t,
                       !.confirming = TRUE, !.late = late]
  <2>2. late \in BOOLEAN OBVIOUS
  <2>4. req' = [req EXCEPT ![r] = new]
    BY <1>7, <2>1 DEF Reauthenticate, Request, TypeOK
  <2> HIDE DEF late
  <2>3. new \in Request
    BY <2>1, <2>2 DEF Request, Steps
  <2>5. UNCHANGED <<token, users, callback, list, swept, ended, added, signedIn>>
    BY <1>7 DEF Reauthenticate
  <2> HIDE DEF new
  <2> QED BY <2>3, <2>4, <2>5 DEF TypeOK
<1>8. CASE ReauthRequired(r) BY <1>8 DEF ReauthRequired, TypeOK
<1>9. CASE DeleteAccount(r)
  <2>1. req[r] \in Request BY <1>9, RequestTyped DEF DeleteAccount
  <2>2. [req[r] EXCEPT !.step = "deleted"] \in Request BY <2>1 DEF Request, Steps
  <2> QED BY <1>9, <2>2 DEF DeleteAccount, TypeOK
<1>10. CASE FinishDelete(r) BY <1>10, EndSessionTyped DEF FinishDelete
<1> QED BY <1>1, <1>2, <1>3, <1>4, <1>5, <1>6, <1>7, <1>8, <1>9, <1>10 DEF RequestStep

LEMMA TickTyped ==
    ASSUME TypeOK, Tick
    PROVE  TypeOK'
<1>1. Oldest \in Nat /\ ReauthWindow + 1 \in Nat BY SessionsAssumption DEF Oldest
<1>2. ASSUME NEW t \in Tokens, token[t] # Idle
      PROVE  [token[t] EXCEPT !.age = OneMore(@, Oldest)] \in Claims
  <2>1. token[t] \in Claims BY <1>2 DEF TypeOK
  <2>2. token[t].age \in 0 .. Oldest BY <2>1 DEF Claims
  <2>3. OneMore(token[t].age, Oldest) \in 0 .. Oldest BY <1>1, <2>2, OneMoreType
  <2> QED BY <2>1, <2>3 DEF Claims
<1>3. token' \in [Tokens -> Claims \cup {Idle}] BY <1>2 DEF Tick, TypeOK
<1>4. swept' \in [Processes -> 0 .. SweepEvery]
  BY SessionsAssumption, OneMoreType DEF Tick, TypeOK
<1>5. signedIn' \in [Logins \cup {NoLogin} -> 0 .. ReauthWindow + 1]
  BY <1>1, OneMoreType DEF Tick, TypeOK
<1>6. added' \in [Processes -> [Tokens -> 0 .. SweepEvery]]
  BY SessionsAssumption, OneMoreType DEF Tick, TypeOK
<1> QED BY <1>3, <1>4, <1>5, <1>6 DEF Tick, TypeOK

LEMMA RestartTyped ==
    ASSUME TypeOK, NEW p \in Processes, Restart(p)
    PROVE  TypeOK'
BY SessionsAssumption DEF Restart, TypeOK

LEMMA NextTyped == TypeOK /\ [Next]_vars => TypeOK'
<1> SUFFICES ASSUME TypeOK, [Next]_vars PROVE TypeOK' OBVIOUS
<1>1. CASE Next
  BY <1>1, SignInTyped, RequestStepTyped, TickTyped, RestartTyped DEF Next
<1>2. CASE UNCHANGED vars BY <1>2 DEF vars, TypeOK
<1> QED BY <1>1, <1>2

(* The state of Sessions has its type in every reachable state.            *)
THEOREM TypeCorrect == Spec => []TypeOK
BY InitTyped, NextTyped, PTL DEF Spec

-----------------------------------------------------------------------------
(* The inductive invariant.  Requests and sign-outs name tokens that were  *)
(* issued, so that their ages only grow.                                   *)
NamesIssued ==
    /\ \A r \in Requests : req[r] # Idle =>
          req[r].bearer \in Issued /\ req[r].check \in Issued
    /\ \A p \in Processes : ended[p] \subseteq Issued /\ list[p] \subseteq Issued

(* A sign-out that was answered is on the list while it matters.           *)
EndedListed ==
    \A p \in Processes : \A t \in ended[p] : t \in list[p] \/ Outlived(t)

(* What the steps of a request know of its token.                          *)
LateEnded ==
    \A r \in Requests : req[r] # Idle =>
        /\ req[r].late => req[r].check \in ended[req[r].on]
        /\ req[r].step = "expired" => Outlived(req[r].check)

(* An account has signed in no longer ago than any of its tokens.          *)
SignedInSince ==
    \A t \in Issued : signedIn[token[t].login] <= Age(t)

(* Between sweeps, the list holds what expired or was put there since.     *)
SweptSince ==
    \A p \in Processes : swept[p] < SweepEvery =>
        \A t \in list[p] :
            Age(t) <= SessionTTL + swept[p] \/ added[p][t] <= swept[p]

(* With a user store, a sign-in past RecordLogin is on record.             *)
CallbackRecorded ==
    HasUserStore => \A s \in SignIns :
        callback[s] # Idle /\ callback[s].recorded => callback[s].login \in users

Inv ==
    /\ TypeOK
    /\ NamesIssued
    /\ EndedListed
    /\ LateEnded
    /\ SignedOutRefused
    /\ SignedInSince
    /\ SweptSince
    /\ CallbackRecorded
    /\ SessionsRecorded

LEMMA InitInv == Init => Inv
<1> SUFFICES ASSUME Init PROVE Inv OBVIOUS
<1>1. TypeOK BY InitTyped
<1>2. NamesIssued /\ EndedListed /\ LateEnded /\ SignedOutRefused
  BY DEF Init, NamesIssued, EndedListed, LateEnded, SignedOutRefused
<1>3. SignedInSince /\ SweptSince /\ CallbackRecorded /\ SessionsRecorded
  BY DEF Init, SignedInSince, SweptSince, CallbackRecorded, SessionsRecorded, Issued
<1> QED BY <1>1, <1>2, <1>3 DEF Inv

(* The steps of a sign-in.                                                 *)
LEMMA SignInInv ==
    ASSUME Inv, NEW s \in SignIns, SignInStep(s)
    PROVE  Inv'
<1>1. TypeOK' BY SignInTyped DEF Inv
<1>2. ASSUME NEW t \in Tokens, IssueJWT(s, t) PROVE Inv'
  <2>1. /\ t \notin Issued
        /\ token' = [token EXCEPT ![t] = [login |-> callback[s].login, age |-> 0]]
        /\ signedIn' = [signedIn EXCEPT ![callback[s].login] = 0]
        /\ callback' = [callback EXCEPT ![s] = Idle]
        /\ callback[s] # Idle /\ callback[s].recorded
        /\ UNCHANGED <<users, req, list, swept, ended, added>>
    BY <1>2 DEF IssueJWT
  <2>2. callback[s] \in CallbackState BY <2>1 DEF Inv, TypeOK
  <2>3. callback[s].login \in Logins \cup {NoLogin} BY <2>2 DEF CallbackState
  <2>4. \A u \in Issued : u \in Issued' /\ token'[u] = token[u]
    BY <2>1 DEF Issued, Inv, TypeOK
  <2>5. Issued' \subseteq Issued \cup {t} BY <2>1 DEF Issued, Inv, TypeOK
  <2>6. \A u \in Issued : Age(u)' = Age(u) /\ (Outlived(u)' <=> Outlived(u))
    BY <2>4 DEF Age, Outlived
  <2>7. NamesIssued' BY <2>1, <2>4 DEF Inv, NamesIssued
  <2>8. EndedListed' BY <2>1, <2>6 DEF Inv, NamesIssued, EndedListed
  <2>9. LateEnded' BY <2>1, <2>6 DEF Inv, NamesIssued, LateEnded
  <2>10. SignedOutRefused' BY <2>1, <2>6 DEF Inv, NamesIssued, SignedOutRefused
  <2>11. SignedInSince'
    <3> SUFFICES ASSUME NEW u \in Issued' PROVE (signedIn[token[u].login] <= Age(u))'
      BY DEF SignedInSince
    <3>1. CASE u = t
      <4>1. token'[t].login = callback[s].login /\ token'[t].age = 0
        BY <2>1 DEF Inv, TypeOK
      <4>2. signedIn'[callback[s].login] = 0 BY <2>1, <2>3 DEF Inv, TypeOK
      <4> QED BY <3>1, <4>1, <4>2 DEF Age
    <3>2. CASE u # t
      <4>1. u \in Issued /\ token'[u] = token[u] BY <2>4, <2>5, <3>2
      <4>2. token[u] \in Claims BY <4>1 DEF Issued, Inv, TypeOK
      <4>3. token[u].login \in Logins \cup {NoLogin} /\ token[u].age \in 0 .. Oldest
        BY <4>2 DEF Claims
      <4>4. signedIn[token[u].login] <= token[u].age
        BY <4>1 DEF Inv, SignedInSince, Age
      <4>5. CASE token[u].login = callback[s].login
        <5>1. signedIn'[token[u].login] = 0 BY <2>1, <2>3, <4>5 DEF Inv, TypeOK
        <5> QED BY <4>1, <4>3, <5>1 DEF Age
      <4>6. CASE token[u].login # callback[s].login
        <5>1. signedIn'[token[u].login] = signedIn[token[u].login]
          BY <2>1, <4>3, <4>6 DEF Inv, TypeOK
        <5> QED BY <4>1, <4>4, <5>1 DEF Age
      <4> QED BY <4>5, <4>6
    <3> QED BY <3>1, <3>2
  <2>12. SweptSince' BY <2>1, <2>6 DEF Inv, NamesIssued, SweptSince
  <2>13. CallbackRecorded' BY <2>1 DEF Inv, CallbackRecorded, TypeOK
  <2>14. SessionsRecorded'
    <3>1. HasUserStore => callback[s].login \in users
      BY <2>1 DEF Inv, CallbackRecorded
    <3>2. token'[t].login = callback[s].login BY <2>1 DEF Inv, TypeOK
    <3> QED BY <2>1, <2>4, <2>5, <3>1, <3>2 DEF Inv, SessionsRecorded
  <2> QED BY <1>1, <2>7, <2>8, <2>9, <2>10, <2>11, <2>12, <2>13, <2>14 DEF Inv
<1>3. ASSUME UNCHANGED <<token, req, list, swept, ended, added, signedIn>>,
             users \subseteq users', CallbackRecorded'
      PROVE  Inv'
  <2>1. NamesIssued' /\ EndedListed' /\ LateEnded' /\ SignedOutRefused'
    BY <1>3 DEF Inv, NamesIssued, EndedListed, LateEnded, SignedOutRefused, Issued,
                Outlived, Age
  <2>2. SignedInSince' /\ SweptSince'
    BY <1>3 DEF Inv, SignedInSince, SweptSince, Issued, Age
  <2>3. SessionsRecorded' BY <1>3 DEF Inv, SessionsRecorded, Issued
  <2> QED BY <1>1, <1>3, <2>1, <2>2, <2>3 DEF Inv
<1>4. ASSUME NEW p \in Processes, NEW l \in Logins \cup {NoLogin}, Callback(s, p, l)
      PROVE  Inv'
  <2>1. CallbackRecorded' BY <1>4 DEF Callback, CallbackRecorded, Inv, TypeOK
  <2> QED BY <1>3, <1>4, <2>1 DEF Callback
<1>5. CASE RecordLogin(s)
  <2>1. users \subseteq users' BY <1>5 DEF RecordLogin
  <2>2. CallbackRecorded'
    <3> SUFFICES ASSUME HasUserStore, NEW u \in SignIns,
                        callback'[u] # Idle, callback'[u].recorded
                 PROVE  callback'[u].login \in users'
      BY DEF CallbackRecorded
    <3>1. callback[s] \in CallbackState BY <1>5 DEF RecordLogin, Inv, TypeOK
    <3>2. CASE u = s
      <4>1. callback'[s].login = callback[s].login
        BY <1>5, <3>1 DEF RecordLogin, Inv, TypeOK, CallbackState
      <4> QED BY <1>5, <3>2, <4>1 DEF RecordLogin
    <3>3. CASE u # s
      <4>1. callback'[u] = callback[u] BY <1>5, <3>3 DEF RecordLogin, Inv, TypeOK
      <4> QED BY <2>1, <4>1 DEF Inv, CallbackRecorded
    <3> QED BY <3>2, <3>3
  <2> QED BY <1>3, <1>5, <2>1, <2>2 DEF RecordLogin
<1>6. CASE RecordFails(s)
  <2>1. CallbackRecorded' BY <1>6 DEF RecordFails, CallbackRecorded, Inv, TypeOK
  <2> QED BY <1>3, <1>6, <2>1 DEF RecordFails
<1> QED BY <1>2, <1>4, <1>5, <1>6 DEF SignInStep

(* A step that changes one request only keeps the invariant if the request *)
(* as it is then is in order.                                              *)
InOrder(q) ==
    /\ q.bearer \in Issued /\ q.check \in Issued
    /\ q.late => q.check \in ended[q.on]
    /\ q.step = "expired" => Outlived(q.check)
    /\ q.step \in {"held", "cleared", "deleted"} /\ q.late => Outlived(q.check)

LEMMA InvInOrder ==
    ASSUME Inv, NEW r \in Requests, req[r] # Idle
    PROVE  req[r] \in Request /\ InOrder(req[r])
BY DEF Inv, TypeOK, NamesIssued, LateEnded, SignedOutRefused, InOrder

LEMMA ReqOnlyInv ==
    ASSUME Inv, TypeOK', NEW r \in Requests, NEW q,
           req' = [req EXCEPT ![r] = q],
           UNCHANGED <<token, users, callback, list, swept, ended, added, signedIn>>,
           q # Idle => InOrder(q)
    PROVE  Inv'
<1>1. /\ Issued' = Issued
      /\ \A t : Age(t)' = Age(t) /\ (Outlived(t)' <=> Outlived(t))
  BY DEF Issued, Age, Outlived
<1>2. \A u \in Requests : req'[u] # Idle =>
         /\ req'[u].bearer \in Issued /\ req'[u].check \in Issued
         /\ req'[u].late => req'[u].check \in ended[req'[u].on]
         /\ req'[u].step = "expired" => Outlived(req'[u].check)
         /\ req'[u].step \in {"held", "cleared", "deleted"} /\ req'[u].late
              => Outlived(req'[u].check)
  <2> SUFFICES ASSUME NEW u \in Requests, req'[u] # Idle PROVE InOrder(req'[u])
    BY DEF InOrder
  <2>1. CASE u = r BY <2>1 DEF Inv, TypeOK
  <2>2. CASE u # r
    <3>1. req'[u] = req[u] BY <2>2 DEF Inv, TypeOK
    <3> QED BY <3>1, InvInOrder
  <2> QED BY <2>1, <2>2
<1>3. NamesIssued' BY <1>1, <1>2 DEF Inv, NamesIssued
<1>4. EndedListed' BY <1>1 DEF Inv, EndedListed
<1>5. LateEnded' BY <1>1, <1>2 DEF LateEnded
<1>6. SignedOutRefused' BY <1>1, <1>2 DEF SignedOutRefused
<1>7. SignedInSince' /\ SweptSince' BY <1>1 DEF Inv, SignedInSince, SweptSince
<1>8. CallbackRecorded' /\ SessionsRecorded'
  BY <1>1 DEF Inv, CallbackRecorded, SessionsRecorded
<1> QED BY <1>3, <1>4, <1>5, <1>6, <1>7, <1>8 DEF Inv

LEMMA AcceptedInOrder ==
    ASSUME Inv, NEW q \in Request, InOrder(q), q.late => Outlived(q.check),
           Accepted(q) # Idle
    PROVE  InOrder(Accepted(q))
<1>1. \E st \in {"held", "cleared"} : Accepted(q) = [q EXCEPT !.step = st]
  BY DEF Accepted
<1>2. PICK st \in {"held", "cleared"} : Accepted(q) = [q EXCEPT !.step = st]
  BY <1>1
<1>3. /\ Accepted(q).bearer = q.bearer /\ Accepted(q).check = q.check
      /\ Accepted(q).late = q.late /\ Accepted(q).on = q.on
      /\ Accepted(q).step = st
  BY <1>2 DEF Request
<1> QED BY <1>3 DEF InOrder

(* A sign-out, or the end of an account deletion.                          *)
LEMMA EndSessionInv ==
    ASSUME Inv, NEW r \in Requests, req[r] # Idle, EndSession(r)
    PROVE  Inv'
<1> DEFINE p == req[r].on
           t == req[r].bearer
           due == swept[p] >= SweepEvery
           entries == list[p] \cup {t}
           left == IF due THEN Kept(entries) ELSE entries
<1>1. TypeOK' BY EndSessionTyped DEF Inv
<1>2. req[r] \in Request /\ InOrder(req[r]) BY InvInOrder
<1>3. p \in Processes /\ t \in Tokens /\ t \in Issued BY <1>2 DEF Request, InOrder
<1>4. /\ list' = [list EXCEPT ![p] = left]
      /\ added' = [added EXCEPT ![p] =
             [u \in Tokens |-> IF u \notin left THEN SweepEvery
                               ELSE IF u = t THEN 0 ELSE added[p][u]]]
      /\ swept' = [swept EXCEPT ![p] = IF due THEN 0 ELSE @]
      /\ ended' = [ended EXCEPT ![p] = @ \cup {t}]
      /\ req' = [req EXCEPT ![r] = Idle]
      /\ UNCHANGED <<token, users, callback, signedIn>>
  BY DEF EndSession, Revoke
<1>5. /\ Issued' = Issued
      /\ \A u : Age(u)' = Age(u) /\ (Outlived(u)' <=> Outlived(u))
  BY <1>4 DEF Issued, Age, Outlived
<1>6. /\ \A u \in entries : u \in left \/ Outlived(u)
      /\ left \subseteq entries
      /\ due => \A u \in left : ~Outlived(u)
      /\ ~due => left = entries
  BY DEF Kept
<1>7. entries \subseteq Issued BY <1>3 DEF Inv, NamesIssued
<1> HIDE DEF left
<1>8. \A q \in Processes : q # p => /\ list'[q] = list[q] /\ added'[q] = added[q]
                                   /\ swept'[q] = swept[q] /\ ended'[q] = ended[q]
  BY <1>4 DEF Inv, TypeOK
<1>9. list'[p] = left /\ ended'[p] = ended[p] \cup {t}
  BY <1>3, <1>4 DEF Inv, TypeOK
<1>10. \A u \in Requests : req'[u] # Idle => req'[u] = req[u]
  BY <1>4 DEF Inv, TypeOK
<1>11. NamesIssued'
  BY <1>3, <1>5, <1>6, <1>7, <1>8, <1>9, <1>10 DEF Inv, NamesIssued
<1>12. EndedListed'
  <2> SUFFICES ASSUME NEW q \in Processes, NEW u \in ended'[q]
               PROVE  u \in list'[q] \/ Outlived(u)
    BY <1>5 DEF EndedListed
  <2>1. CASE q # p BY <2>1, <1>8 DEF Inv, EndedListed
  <2>2. CASE q = p
    <3>1. u \in entries \/ Outlived(u) BY <2>2, <1>9 DEF Inv, EndedListed
    <3> QED BY <2>2, <3>1, <1>6, <1>9
  <2> QED BY <2>1, <2>2
<1>13. LateEnded'
  <2> SUFFICES ASSUME NEW u \in Requests, req'[u] # Idle
               PROVE  /\ req[u].late => req[u].check \in ended'[req[u].on]
                      /\ req[u].step = "expired" => Outlived(req[u].check)
    BY <1>5, <1>10 DEF LateEnded
  <2>1. req[u] # Idle BY <1>10
  <2>2. req[u] \in Request /\ InOrder(req[u]) BY <2>1, InvInOrder
  <2>3. req[u].on \in Processes BY <2>2 DEF Request
  <2>4. ended[req[u].on] \subseteq ended'[req[u].on] BY <2>3, <1>8, <1>9
  <2> QED BY <2>2, <2>4 DEF InOrder
<1>14. SignedOutRefused' BY <1>5, <1>10 DEF Inv, SignedOutRefused
<1>15. SignedInSince' BY <1>4, <1>5 DEF Inv, SignedInSince
<1>16. SweptSince'
  <2> SUFFICES ASSUME NEW q \in Processes, swept'[q] < SweepEvery, NEW u \in list'[q]
               PROVE  Age(u) <= SessionTTL + swept'[q] \/ added'[q][u] <= swept'[q]
    BY <1>5 DEF SweptSince
  <2>1. CASE q # p BY <2>1, <1>8 DEF Inv, SweptSince
  <2>2. CASE q = p
    <3>1. u \in left /\ u \in Issued /\ u \in Tokens
      BY <2>2, <1>6, <1>7, <1>9 DEF Issued
    <3>2. token[u] \in Claims BY <3>1 DEF Issued, Inv, TypeOK
    <3>3. Age(u) \in 0 .. Oldest BY <3>2 DEF Age, Claims
    <3>4. swept[p] \in 0 .. SweepEvery BY <1>3 DEF Inv, TypeOK
    <3>5. CASE due
      <4>1. swept'[p] = 0 BY <3>5, <1>3, <1>4 DEF Inv, TypeOK
      <4>2. ~Outlived(u) BY <3>1, <3>5, <1>6
      <4> QED BY <2>2, <3>3, <4>1, <4>2, SessionsAssumption DEF Outlived, Oldest
    <3>6. CASE ~due
      <4>1. swept'[p] = swept[p] BY <3>6, <1>3, <1>4 DEF Inv, TypeOK
      <4>2. CASE u = t
        <5>1. added'[p][u] = 0 BY <4>2, <3>1, <1>3, <1>4 DEF Inv, TypeOK
        <5> QED BY <2>2, <3>4, <4>1, <5>1
      <4>3. CASE u # t
        <5>1. added'[p][u] = added[p][u] BY <4>3, <3>1, <1>3, <1>4 DEF Inv, TypeOK
        <5>2. u \in list[p] BY <4>3, <3>1, <3>6, <1>6
        <5>3. swept[p] < SweepEvery BY <3>4, <3>6, SessionsAssumption
        <5> QED BY <2>2, <1>3, <4>1, <5>1, <5>2, <5>3 DEF Inv, SweptSince
      <4> QED BY <4>2, <4>3
    <3> QED BY <3>5, <3>6
  <2> QED BY <2>1, <2>2
<1>17. CallbackRecorded' /\ SessionsRecorded'
  BY <1>4, <1>5 DEF Inv, CallbackRecorded, SessionsRecorded
<1> QED BY <1>1, <1>11, <1>12, <1>13, <1>14, <1>15, <1>16, <1>17 DEF Inv

LEMMA RequestStepInv ==
    ASSUME Inv, NEW r \in Requests, RequestStep(r)
    PROVE  Inv'
<1>1. TypeOK' BY RequestStepTyped DEF Inv
<1>2. ASSUME NEW p \in Processes, NEW t \in Tokens, NEW kind \in Kinds,
             Parse(r, p, t, kind)
      PROVE  Inv'
  <2> DEFINE q == [on |-> p, kind |-> kind, bearer |-> t, check |-> t,
                   confirming |-> FALSE, step |-> "parsed", late |-> t \in ended[p],
                   static |-> FALSE]
  <2>1. InOrder(q) BY <1>2 DEF Parse, InOrder
  <2> QED BY <1>1, <1>2, <2>1, ReqOnlyInv DEF Parse
<1>3. CASE IsRevoked(r)
  <2> DEFINE q == req[r]
             n == IF q.check \notin list[q.on] THEN Accepted(q)
                  ELSE IF Outlived(q.check) THEN [q EXCEPT !.step = "expired"]
                  ELSE Idle
  <2>1. req[r] # Idle /\ req' = [req EXCEPT ![r] = n] BY <1>3 DEF IsRevoked
  <2>2. q \in Request /\ InOrder(q) BY <2>1, InvInOrder
  <2>3. n # Idle => InOrder(n)
    <3>1. CASE q.check \notin list[q.on]
      <4>1. q.late => Outlived(q.check)
        BY <2>2, <3>1 DEF InOrder, Request, Inv, EndedListed
      <4> QED BY <2>2, <3>1, <4>1, AcceptedInOrder
    <3>2. CASE q.check \in list[q.on] /\ Outlived(q.check)
      BY <2>2, <3>2 DEF InOrder, Request
    <3> QED BY <3>1, <3>2
  <2> QED BY <1>1, <1>3, <2>1, <2>3, ReqOnlyInv DEF IsRevoked
<1>4. CASE DropExpired(r)
  <2> DEFINE q == req[r]
             p == q.on
  <2>1. req[r] # Idle /\ q.step = "expired" BY <1>4 DEF DropExpired
  <2>2. q \in Request /\ InOrder(q) BY <2>1, InvInOrder
  <2>3. Outlived(q.check) BY <2>1, <2>2 DEF InOrder
  <2>4. Accepted(q) # Idle => InOrder(Accepted(q)) BY <2>2, <2>3, AcceptedInOrder
  <2>5. /\ list' = [list EXCEPT ![p] = @ \ {q.check}]
        /\ added' = [added EXCEPT ![p][q.check] = SweepEvery]
        /\ req' = [req EXCEPT ![r] = Accepted(q)]
        /\ UNCHANGED <<token, users, callback, swept, ended, signedIn>>
    BY <1>4 DEF DropExpired
  <2>6. p \in Processes /\ q.check \in Tokens BY <2>2 DEF Request
  <2>7. /\ Issued' = Issued
        /\ \A u : Age(u)' = Age(u) /\ (Outlived(u)' <=> Outlived(u))
    BY <2>5 DEF Issued, Age, Outlived
  <2>8. \A x \in Processes : list'[x] \subseteq list[x]
    BY <2>5, <2>6 DEF Inv, TypeOK
  <2>9. \A x \in Processes : \A u \in list[x] : u \in list'[x] \/ Outlived(u)
    BY <2>3, <2>5, <2>6 DEF Inv, TypeOK
  <2>10. \A x \in Processes : \A u \in list'[x] : added'[x][u] = added[x][u]
    BY <2>5, <2>6 DEF Inv, TypeOK
  <2>11. \A u \in Requests : req'[u] # Idle => InOrder(req'[u])
    <3> SUFFICES ASSUME NEW u \in Requests, req'[u] # Idle PROVE InOrder(req'[u])
      OBVIOUS
    <3>1. CASE u = r BY <2>4, <2>5, <3>1 DEF Inv, TypeOK
    <3>2. CASE u # r
      <4>1. req'[u] = req[u] BY <2>5, <3>2 DEF Inv, TypeOK
      <4> QED BY <4>1, InvInOrder
    <3> QED BY <3>1, <3>2
  <2>12. NamesIssued' BY <2>5, <2>7, <2>8, <2>11 DEF Inv, NamesIssued, InOrder
  <2>13. EndedListed' BY <2>5, <2>7, <2>9 DEF Inv, EndedListed
  <2>14. LateEnded' /\ SignedOutRefused'
    BY <2>5, <2>7, <2>11 DEF LateEnded, SignedOutRefused, InOrder
  <2>15. SignedInSince' BY <2>5, <2>7 DEF Inv, SignedInSince
  <2>16. SweptSince'
    BY <2>5, <2>7, <2>8, <2>10 DEF Inv, SweptSince
  <2>17. CallbackRecorded' /\ SessionsRecorded'
    BY <2>5, <2>7 DEF Inv, CallbackRecorded, SessionsRecorded
  <2> QED BY <1>1, <2>12, <2>13, <2>14, <2>15, <2>16, <2>17 DEF Inv
<1>5. CASE Answer(r) BY <1>1, <1>5, ReqOnlyInv DEF Answer
<1>6. CASE Logout(r) BY <1>6, EndSessionInv DEF Logout
<1>7. ASSUME NEW given \in {StaticToken, Idle}, RecentAuth(r, given) PROVE Inv'
  <2> DEFINE stale == ~FreshlyAuthenticated(req[r].bearer)
             n == [req[r] EXCEPT !.step = "cleared", !.static = stale]
  <2>1. req[r] # Idle /\ req[r].step = "held" BY <1>7 DEF RecentAuth
  <2>2. req[r] \in Request /\ InOrder(req[r]) BY <2>1, InvInOrder
  <2>3. req' = [req EXCEPT ![r] = n]
    BY <1>7, <2>2 DEF RecentAuth, Inv, TypeOK, Request
  <2> HIDE DEF stale
  <2>4. InOrder(n) BY <2>1, <2>2 DEF InOrder, Request
  <2>5. UNCHANGED <<token, users, callback, list, swept, ended, added, signedIn>>
    BY <1>7 DEF RecentAuth
  <2> QED BY <1>1, <2>3, <2>4, <2>5, ReqOnlyInv
<1>8. ASSUME NEW t \in Tokens, Reauthenticate(r, t) PROVE Inv'
  <2> DEFINE late == t \in ended[req[r].on]
             n == [req[r] EXCEPT !.step = "parsed", !.check = t,
                                 !.confirming = TRUE, !.late = late]
  <2>1. req[r] # Idle /\ t \in Issued BY <1>8 DEF Reauthenticate
  <2>2. req[r] \in Request /\ InOrder(req[r]) BY <2>1, InvInOrder
  <2>3. req' = [req EXCEPT ![r] = n]
    BY <1>8, <2>2 DEF Reauthenticate, Inv, TypeOK, Request
  <2>4. /\ n.bearer = req[r].bearer /\ n.check = t /\ n.on = req[r].on
        /\ n.step = "parsed" /\ n.late = late
    BY <2>2 DEF Request
  <2>5. InOrder(n) BY <2>1, <2>2, <2>4 DEF InOrder
  <2>6. UNCHANGED <<token, users, callback, list, swept, ended, added, signedIn>>
    BY <1>8 DEF Reauthenticate
  <2> HIDE DEF n
  <2> QED BY <1>1, <2>3, <2>5, <2>6, ReqOnlyInv
<1>9. CASE ReauthRequired(r) BY <1>1, <1>9, ReqOnlyInv DEF ReauthRequired
<1>10. CASE DeleteAccount(r)
  <2> DEFINE n == [req[r] EXCEPT !.step = "deleted"]
  <2>1. req[r] # Idle /\ req[r].step = "cleared" BY <1>10 DEF DeleteAccount
  <2>2. req[r] \in Request /\ InOrder(req[r]) BY <2>1, InvInOrder
  <2>3. InOrder(n) BY <2>1, <2>2 DEF InOrder, Request
  <2>4. req' = [req EXCEPT ![r] = n] \/ req' = [req EXCEPT ![r] = Idle]
    BY <1>10, <2>2 DEF DeleteAccount, Inv, TypeOK
  <2>5. UNCHANGED <<token, users, callback, list, swept, ended, added, signedIn>>
    BY <1>10 DEF DeleteAccount
  <2> HIDE DEF n
  <2> QED BY <1>1, <2>3, <2>4, <2>5, ReqOnlyInv
<1>11. CASE FinishDelete(r) BY <1>11, EndSessionInv DEF FinishDelete
<1> QED BY <1>2, <1>3, <1>4, <1>5, <1>6, <1>7, <1>8, <1>9, <1>10, <1>11 DEF RequestStep

LEMMA TickInv ==
    ASSUME Inv, Tick
    PROVE  Inv'
<1>1. TypeOK' BY TickTyped DEF Inv
<1>2. Oldest \in Nat /\ ReauthWindow + 1 \in Nat
  BY SessionsAssumption DEF Oldest
<1>3. UNCHANGED <<users, callback, req, list, ended>> BY DEF Tick
<1>4. \A t \in Issued : /\ token'[t].login = token[t].login
                         /\ Age(t) \in 0 .. Oldest
                         /\ Age(t)' = OneMore(Age(t), Oldest)
  <2> SUFFICES ASSUME NEW t \in Issued
               PROVE  /\ token'[t].login = token[t].login
                      /\ Age(t) \in 0 .. Oldest
                      /\ Age(t)' = OneMore(Age(t), Oldest)
    OBVIOUS
  <2>1. t \in Tokens /\ token[t] # Idle BY DEF Issued
  <2>2. token[t] \in Claims BY <2>1 DEF Inv, TypeOK
  <2>3. token'[t] = [token[t] EXCEPT !.age = OneMore(@, Oldest)] BY <2>1 DEF Tick
  <2> QED BY <2>2, <2>3 DEF Claims, Age
<1>5. \A t \in Tokens : token[t] = Idle => token'[t] = Idle BY DEF Tick
<1>6. Issued' \subseteq Issued BY <1>5 DEF Issued
<1>7. Issued \subseteq Issued'
  <2> SUFFICES ASSUME NEW t \in Issued, token'[t] = Idle PROVE FALSE
    BY DEF Issued
  <2>1. t \in Tokens /\ token[t] # Idle BY DEF Issued
  <2>2. token[t] \in Claims BY <2>1 DEF Inv, TypeOK
  <2>3. token'[t] = [token[t] EXCEPT !.age = OneMore(@, Oldest)] BY <2>1 DEF Tick
  <2>4. token[t].age \in 0 .. Oldest BY <2>2 DEF Claims
  <2>5. OneMore(token[t].age, Oldest) \in 0 .. Oldest BY <1>2, <2>4, OneMoreType
  <2>6. token'[t] \in Claims BY <2>2, <2>3, <2>5 DEF Claims
  <2> QED BY <2>6, IdleAssumption
<1>8. Issued' = Issued BY <1>6, <1>7
<1>9. \A t \in Issued : Outlived(t) => Outlived(t)'
  BY <1>2, <1>4, OneMoreType, SessionsAssumption DEF Outlived
<1>10. NamesIssued' BY <1>3, <1>8 DEF Inv, NamesIssued
<1>11. EndedListed' BY <1>3, <1>9 DEF Inv, NamesIssued, EndedListed
<1>12. LateEnded' BY <1>3, <1>9 DEF Inv, NamesIssued, LateEnded
<1>13. SignedOutRefused' BY <1>3, <1>9 DEF Inv, NamesIssued, SignedOutRefused
<1>14. SignedInSince'
  <2> SUFFICES ASSUME NEW t \in Issued
               PROVE  signedIn'[token[t].login] <= Age(t)'
    BY <1>4, <1>8 DEF SignedInSince
  <2> DEFINE l == token[t].login
  <2>1. token[t] \in Claims BY DEF Issued, Inv, TypeOK
  <2>2. l \in Logins \cup {NoLogin} BY <2>1 DEF Claims
  <2>3. signedIn[l] \in 0 .. ReauthWindow + 1 BY <2>2 DEF Inv, TypeOK
  <2>4. signedIn'[l] = OneMore(signedIn[l], ReauthWindow + 1) BY <2>2 DEF Tick
  <2>5. signedIn[l] <= Age(t) BY DEF Inv, SignedInSince
  <2>6. Age(t) \in 0 .. Oldest /\ Age(t)' = OneMore(Age(t), Oldest) BY <1>4
  <2>7. ReauthWindow + 1 <= Oldest BY SessionsAssumption DEF Oldest
  <2> QED BY <1>2, <2>3, <2>4, <2>5, <2>6, <2>7 DEF OneMore
<1>15. SweptSince'
  <2> SUFFICES ASSUME NEW p \in Processes, swept'[p] < SweepEvery, NEW t \in list[p]
               PROVE  Age(t)' <= SessionTTL + swept'[p] \/ added'[p][t] <= swept'[p]
    BY <1>3 DEF SweptSince
  <2>1. t \in Issued /\ t \in Tokens BY DEF Inv, NamesIssued, Issued
  <2>2. swept[p] \in 0 .. SweepEvery /\ added[p][t] \in 0 .. SweepEvery
    BY <2>1 DEF Inv, TypeOK
  <2>3. swept'[p] = OneMore(swept[p], SweepEvery)
        /\ added'[p][t] = OneMore(added[p][t], SweepEvery)
    BY <2>1 DEF Tick
  <2>4. swept[p] < SweepEvery /\ swept'[p] = swept[p] + 1
    BY <2>2, <2>3, SessionsAssumption DEF OneMore
  <2>5. Age(t) <= SessionTTL + swept[p] \/ added[p][t] <= swept[p]
    BY <2>4 DEF Inv, SweptSince
  <2>6. Age(t) \in 0 .. Oldest /\ Age(t)' = OneMore(Age(t), Oldest) BY <1>4, <2>1
  <2>7. Age(t)' \in 0 .. Oldest /\ Age(t)' <= Age(t) + 1
    BY <1>2, <2>6, OneMoreType
  <2>8. added'[p][t] \in 0 .. SweepEvery /\ added'[p][t] <= added[p][t] + 1
    BY <2>2, <2>3, OneMoreType, SessionsAssumption
  <2> QED BY <2>2, <2>4, <2>5, <2>6, <2>7, <2>8, SessionsAssumption
<1>16. CallbackRecorded' BY <1>3 DEF Inv, CallbackRecorded
<1>17. SessionsRecorded' BY <1>3, <1>4, <1>8 DEF Inv, SessionsRecorded
<1> QED BY <1>1, <1>10, <1>11, <1>12, <1>13, <1>14, <1>15, <1>16, <1>17 DEF Inv

LEMMA RestartInv ==
    ASSUME Inv, NEW p \in Processes, Restart(p)
    PROVE  Inv'
<1>1. TypeOK' BY RestartTyped DEF Inv
<1>2. UNCHANGED <<token, users, signedIn>> BY DEF Restart
<1>3. /\ Issued' = Issued
      /\ \A u : Age(u)' = Age(u) /\ (Outlived(u)' <=> Outlived(u))
  BY <1>2 DEF Issued, Age, Outlived
<1>4. \A r \in Requests : req'[r] # Idle => req'[r] = req[r] /\ req[r].on # p
  BY DEF Restart
<1>5. \A q \in Processes : q # p => /\ list'[q] = list[q] /\ added'[q] = added[q]
                                    /\ swept'[q] = swept[q] /\ ended'[q] = ended[q]
  BY DEF Restart, Inv, TypeOK
<1>6. list'[p] = {} /\ ended'[p] = {} BY DEF Restart, Inv, TypeOK
<1>7. NamesIssued' BY <1>3, <1>4, <1>5, <1>6 DEF Inv, NamesIssued
<1>8. EndedListed' BY <1>3, <1>5, <1>6 DEF Inv, EndedListed
<1>9. LateEnded'
  <2> SUFFICES ASSUME NEW r \in Requests, req'[r] # Idle
               PROVE  /\ req[r].late => req[r].check \in ended'[req[r].on]
                      /\ req[r].step = "expired" => Outlived(req[r].check)
    BY <1>3, <1>4 DEF LateEnded
  <2>1. req[r] # Idle /\ req[r].on # p BY <1>4
  <2>2. req[r] \in Request /\ InOrder(req[r]) BY <2>1, InvInOrder
  <2>3. ended'[req[r].on] = ended[req[r].on] BY <1>5, <2>1, <2>2 DEF Request
  <2> QED BY <2>2, <2>3 DEF InOrder
<1>10. SignedOutRefused' BY <1>3, <1>4 DEF Inv, SignedOutRefused
<1>11. SignedInSince' BY <1>2, <1>3 DEF Inv, SignedInSince
<1>12. SweptSince' BY <1>3, <1>5, <1>6 DEF Inv, SweptSince
<1>13. CallbackRecorded' BY <1>2 DEF Restart, Inv, CallbackRecorded
<1>14. SessionsRecorded' BY <1>2, <1>3 DEF Inv, SessionsRecorded
<1> QED BY <1>1, <1>7, <1>8, <1>9, <1>10, <1>11, <1>12, <1>13, <1>14 DEF Inv

LEMMA NextInv == Inv /\ [Next]_vars => Inv'
<1> SUFFICES ASSUME Inv, [Next]_vars PROVE Inv' OBVIOUS
<1>1. CASE Next BY <1>1, SignInInv, RequestStepInv, TickInv, RestartInv DEF Next
<1>2. CASE UNCHANGED vars
  <2>1. TypeOK' BY <1>2, NextTyped DEF Inv
  <2>2. NamesIssued' /\ EndedListed' /\ LateEnded' /\ SignedOutRefused'
    BY <1>2 DEF vars, Inv, NamesIssued, EndedListed, LateEnded, SignedOutRefused,
                Issued, Outlived, Age
  <2>3. SignedInSince' /\ SweptSince' /\ CallbackRecorded' /\ SessionsRecorded'
    BY <1>2 DEF vars, Inv, SignedInSince, SweptSince, CallbackRecorded,
                SessionsRecorded, Issued, Age
  <2> QED BY <2>1, <2>2, <2>3 DEF Inv
<1> QED BY <1>1, <1>2

LEMMA Invariance == Spec => []Inv
BY InitInv, NextInv, PTL DEF Spec

(* A session that was signed out or that deleted its account is not        *)
(* accepted again by the process that answered, until it restarts, while   *)
(* the token has not expired.                                              *)
THEOREM SignedOut == Spec => []SignedOutRefused
<1>1. Inv => SignedOutRefused BY DEF Inv
<1> QED BY <1>1, Invariance, PTL

(* With a user store every session belongs to an account on record, though *)
(* recording may fail and a reply of GitHub may name no account.           *)
THEOREM Recorded == Spec => []SessionsRecorded
<1>1. Inv => SessionsRecorded BY DEF Inv
<1> QED BY <1>1, Invariance, PTL

(* Accepting a token leaves a request that is not cleared, or one whose    *)
(* account has signed in within the window.                                *)
LEMMA AcceptedByHolder ==
    ASSUME Inv, NEW q \in Request, InOrder(q),
           Accepted(q) # Idle, Accepted(q).step = "cleared"
    PROVE  signedIn[token[q.bearer].login] <= ReauthWindow
<1>1. q.confirming /\ SameAccount(q) /\ FreshlyAuthenticated(q.check)
  BY DEF Accepted, Request
<1>2. q.check \in Issued BY DEF InOrder
<1>3. signedIn[token[q.check].login] <= Age(q.check) BY <1>2 DEF Inv, SignedInSince
<1>4. token[q.check] \in Claims BY <1>2 DEF Issued, Inv, TypeOK
<1>5. token[q.check].login \in Logins \cup {NoLogin} /\ Age(q.check) \in 0 .. Oldest
  BY <1>4 DEF Claims, Age
<1>6. signedIn[token[q.check].login] \in 0 .. ReauthWindow + 1
  BY <1>5 DEF Inv, TypeOK
<1> QED BY <1>1, <1>3, <1>5, <1>6, SessionsAssumption DEF SameAccount, FreshlyAuthenticated

LEMMA StepCleared ==
    ASSUME Inv, Next
    PROVE  ClearedByHolder
<1> SUFFICES ASSUME NEW u \in Requests, req[u] # Idle, req[u].step # "cleared",
                    req'[u] # Idle, req'[u].step = "cleared"
             PROVE  \/ req'[u].static
                    \/ signedIn[token[req[u].bearer].login] <= ReauthWindow
  BY DEF ClearedByHolder
<1>1. req[u] \in Request /\ InOrder(req[u]) BY InvInOrder
<1>2. req'[u] # req[u] OBVIOUS
<1>3. ASSUME NEW s \in SignIns, SignInStep(s) PROVE FALSE
  BY <1>2, <1>3 DEF SignInStep, Callback, RecordLogin, RecordFails, IssueJWT
<1>4. CASE Tick BY <1>2, <1>4 DEF Tick
<1>5. ASSUME NEW p \in Processes, Restart(p) PROVE FALSE
  BY <1>2, <1>5 DEF Restart
<1>6. ASSUME NEW r \in Requests, RequestStep(r)
      PROVE  \/ req'[u].static
             \/ signedIn[token[req[u].bearer].login] <= ReauthWindow
  <2>1. ASSUME NEW q, req' = [req EXCEPT ![r] = q]
        PROVE  r = u /\ req'[u] = q
    BY <1>2, <2>1 DEF Inv, TypeOK
  <2>2. ASSUME NEW p \in Processes, NEW t \in Tokens, NEW kind \in Kinds,
               Parse(r, p, t, kind)
        PROVE  FALSE
    BY <2>1, <2>2 DEF Parse
  <2>3. CASE IsRevoked(r)
    <3>1. r = u /\ \/ req'[u] = Accepted(req[u])
                   \/ req'[u] = [req[u] EXCEPT !.step = "expired"]
      BY <2>1, <2>3 DEF IsRevoked
    <3>2. req'[u] = Accepted(req[u]) BY <1>1, <3>1 DEF Request
    <3> QED BY <1>1, <3>2, AcceptedByHolder
  <2>4. CASE DropExpired(r)
    <3>1. r = u /\ req'[u] = Accepted(req[u]) BY <2>1, <2>4 DEF DropExpired
    <3> QED BY <1>1, <3>1, AcceptedByHolder
  <2>5. CASE Answer(r) BY <2>1, <2>5 DEF Answer
  <2>6. CASE Logout(r) BY <2>1, <2>6 DEF Logout, EndSession
  <2>7. ASSUME NEW given \in {StaticToken, Idle}, RecentAuth(r, given)
        PROVE  \/ req'[u].static
               \/ signedIn[token[req[u].bearer].login] <= ReauthWindow
    <3>1. r = u BY <1>2, <2>7 DEF RecentAuth, Inv, TypeOK
    <3>2. req'[u].static = ~FreshlyAuthenticated(req[u].bearer)
      BY <1>1, <2>7, <3>1 DEF RecentAuth, Inv, TypeOK, Request
    <3>3. CASE FreshlyAuthenticated(req[u].bearer)
      <4>1. req[u].bearer \in Issued BY <1>1 DEF InOrder
      <4>2. token[req[u].bearer] \in Claims BY <4>1 DEF Issued, Inv, TypeOK
      <4>3. /\ token[req[u].bearer].login \in Logins \cup {NoLogin}
            /\ Age(req[u].bearer) \in 0 .. Oldest
        BY <4>2 DEF Claims, Age
      <4>4. signedIn[token[req[u].bearer].login] \in 0 .. ReauthWindow + 1
        BY <4>3 DEF Inv, TypeOK
      <4>5. signedIn[token[req[u].bearer].login] <= Age(req[u].bearer)
        BY <4>1 DEF Inv, SignedInSince
      <4> QED BY <3>3, <4>3, <4>4, <4>5, SessionsAssumption DEF FreshlyAuthenticated
    <3>4. CASE ~FreshlyAuthenticated(req[u].bearer) BY <3>2, <3>4
    <3> QED BY <3>3, <3>4
  <2>8. ASSUME NEW t \in Tokens, Reauthenticate(r, t) PROVE FALSE
    <3>1. r = u BY <1>2, <2>8 DEF Reauthenticate, Inv, TypeOK
    <3>2. req'[u].step = "parsed"
      BY <1>1, <2>8, <3>1 DEF Reauthenticate, Inv, TypeOK, Request
    <3> QED BY <3>2
  <2>9. CASE ReauthRequired(r) BY <2>1, <2>9 DEF ReauthRequired
  <2>10. CASE DeleteAccount(r)
    <3>1. r = u BY <1>2, <2>10 DEF DeleteAccount, Inv, TypeOK
    <3> QED BY <2>10, <3>1 DEF DeleteAccount
  <2>11. CASE FinishDelete(r) BY <2>1, <2>11 DEF FinishDelete, EndSession
  <2> QED BY <1>6, <2>2, <2>3, <2>4, <2>5, <2>6, <2>7, <2>8, <2>9, <2>10, <2>11
          DEF RequestStep
<1> QED BY <1>3, <1>4, <1>5, <1>6 DEF Next

(* Account deletion needs a recent GitHub sign-in of the account itself,   *)
(* or ADMIN_TOKEN.                                                         *)
THEOREM AccountStepUp == Spec => StepUp
<1>1. Inv /\ [Next]_vars => [ClearedByHolder]_vars BY StepCleared
<1> QED BY <1>1, Invariance, PTL DEF Spec, StepUp

LEMMA StepSweeps ==
    ASSUME Inv, Next
    PROVE  SignOutSweeps
<1> DEFINE Signing(u) == \/ req[u].step = "held" /\ req[u].kind = "logout"
                         \/ req[u].step = "deleted"
<1> SUFFICES ASSUME NEW u \in Requests, req[u] # Idle, req'[u] = Idle, Signing(u),
                    NEW t \in list'[req[u].on]
             PROVE  \/ Age(t) <= SessionTTL
                    \/ Age(t) < SessionTTL + SweepEvery
                    \/ added'[req[u].on][t] < SweepEvery
  BY DEF SignOutSweeps
<1> DEFINE p == req[u].on
<1>1. req[u] \in Request /\ InOrder(req[u]) BY InvInOrder
<1>2. p \in Processes BY <1>1 DEF Request
<1>3. req'[u] # req[u] OBVIOUS
<1>4. ASSUME NEW s \in SignIns, SignInStep(s) PROVE FALSE
  BY <1>3, <1>4 DEF SignInStep, Callback, RecordLogin, RecordFails, IssueJWT
<1>5. CASE Tick BY <1>3, <1>5 DEF Tick
<1>6. ASSUME NEW x \in Processes, Restart(x) PROVE FALSE
  <2>1. x = p BY <1>3, <1>6 DEF Restart
  <2>2. list'[p] = {} BY <1>2, <1>6, <2>1 DEF Restart, Inv, TypeOK
  <2> QED BY <2>2
<1>7. ASSUME NEW r \in Requests, RequestStep(r) PROVE r = u /\ EndSession(u)
  <2>1. r = u
    BY <1>3, <1>7 DEF RequestStep, Parse, IsRevoked, DropExpired, Answer, Logout,
       EndSession, RecentAuth, Reauthenticate, ReauthRequired, DeleteAccount,
       FinishDelete, Inv, TypeOK
  <2>2. /\ \A x \in Processes, y \in Tokens, kind \in Kinds : ~Parse(u, x, y, kind)
        /\ ~IsRevoked(u) /\ ~DropExpired(u) /\ ~Answer(u)
        /\ ~ReauthRequired(u) /\ ~DeleteAccount(u)
    BY DEF Parse, IsRevoked, DropExpired, Answer, ReauthRequired, DeleteAccount
  <2>3. ASSUME NEW given \in {StaticToken, Idle}, RecentAuth(u, given) PROVE FALSE
    BY <2>3 DEF RecentAuth
  <2>4. ASSUME NEW y \in Tokens, Reauthenticate(u, y) PROVE FALSE
    BY <2>4 DEF Reauthenticate
  <2> QED BY <1>7, <2>1, <2>2, <2>3, <2>4 DEF RequestStep, Logout, FinishDelete
<1>8. ASSUME EndSession(u)
      PROVE  \/ Age(t) <= SessionTTL
             \/ Age(t) < SessionTTL + SweepEvery
             \/ added'[p][t] < SweepEvery
  <2> DEFINE b == req[u].bearer
             entries == list[p] \cup {b}
             due == swept[p] >= SweepEvery
             left == IF due THEN Kept(entries) ELSE entries
  <2>1. b \in Tokens /\ b \in Issued BY <1>1 DEF Request, InOrder
  <2>2. /\ list' = [list EXCEPT ![p] = left]
        /\ added' = [added EXCEPT ![p] =
               [x \in Tokens |-> IF x \notin left THEN SweepEvery
                                 ELSE IF x = b THEN 0 ELSE added[p][x]]]
    BY <1>8 DEF EndSession, Revoke
  <2>3. t \in left BY <1>2, <2>2 DEF Inv, TypeOK
  <2>4. t \in entries /\ (due => ~Outlived(t)) BY <2>3 DEF Kept
  <2> HIDE DEF left
  <2>5. t \in Tokens /\ t \in Issued BY <1>2, <2>1, <2>4 DEF Inv, NamesIssued, Issued
  <2>6. token[t] \in Claims BY <2>5 DEF Issued, Inv, TypeOK
  <2>7. Age(t) \in 0 .. Oldest BY <2>6 DEF Age, Claims
  <2>8. swept[p] \in 0 .. SweepEvery BY <1>2 DEF Inv, TypeOK
  <2>9. CASE due BY <2>4, <2>7, <2>9, SessionsAssumption DEF Outlived, Oldest
  <2>10. CASE ~due
    <3>1. swept[p] < SweepEvery BY <2>8, <2>10, SessionsAssumption
    <3>2. CASE t = b
      <4>1. added'[p][t] = 0 BY <1>2, <2>2, <2>3, <2>5, <3>2 DEF Inv, TypeOK
      <4> QED BY <2>8, <3>1, <4>1, SessionsAssumption
    <3>3. CASE t # b
      <4>1. added'[p][t] = added[p][t]
        BY <1>2, <2>2, <2>3, <2>5, <3>3 DEF Inv, TypeOK
      <4>2. Age(t) <= SessionTTL + swept[p] \/ added[p][t] <= swept[p]
        BY <1>2, <2>4, <3>1, <3>3 DEF Inv, SweptSince
      <4>3. added[p][t] \in 0 .. SweepEvery BY <1>2, <2>5 DEF Inv, TypeOK
      <4> QED BY <2>7, <2>8, <3>1, <4>1, <4>2, <4>3, SessionsAssumption DEF Oldest
    <3> QED BY <3>2, <3>3
  <2> QED BY <2>9, <2>10
<1> QED BY <1>4, <1>5, <1>6, <1>7, <1>8 DEF Next

(* What a sign-out leaves on the revocation list is what has just expired, *)
(* or was just put there: the list does not keep every sign-out there was. *)
THEOREM RevocationsSwept == Spec => ListSwept
<1>1. Inv /\ [Next]_vars => [SignOutSweeps]_vars BY StepSweeps
<1> QED BY <1>1, Invariance, PTL DEF Spec, ListSwept
=============================================================================
