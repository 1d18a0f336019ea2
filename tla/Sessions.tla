------------------------------ MODULE Sessions ------------------------------
(***************************************************************************)
(* Signing in with GitHub, signing out and the step-up check of account    *)
(* deletion: api/handlers/auth.go, session.go and api/middleware/auth.go.  *)
(* A session is a signed token that no server stores; every process keeps  *)
(* a list of the tokens signed out there.  A request validates its token   *)
(* in steps: the signature and the expiry first, then the list, then, for  *)
(* an entry that has expired, its removal under a second lock.  Time is    *)
(* the age of a token; what a role allows is left out.  `ended` (sign-outs *)
(* answered), `added` (age of an entry) and `signedIn` (age of an          *)
(* account's latest sign-in) are history.                                  *)
(***************************************************************************)
EXTENDS Integers, FiniteSets

CONSTANTS Logins,         \* GitHub accounts
          NoLogin,        \* the empty login of an error body read as a user
          Processes,      \* API processes
          SignIns,        \* callbacks in progress at once
          Requests,       \* requests in progress at once
          Tokens,         \* tokens, named by their jti: bounds the sign-ins
          HasUserStore,   \* FALSE with the file store
          SessionTTL, ReauthWindow,
          SweepEvery,     \* a minute
          Idle,
          StaticToken     \* ADMIN_TOKEN given as the reauthentication token

ASSUME SessionsAssumption ==
    /\ SessionTTL \in Nat /\ ReauthWindow \in Nat /\ SweepEvery \in Nat
    /\ ReauthWindow <= SessionTTL
    /\ HasUserStore \in BOOLEAN
    /\ NoLogin \notin Logins
    /\ StaticToken \notin Tokens

VARIABLES token,      \* claims of the tokens issued
          users,      \* registry_users
          callback,   \* callbacks under way
          req,        \* requests under way
          list,       \* revocationList.revoked, per process
          swept,      \* age of revocationList.last, per process
          ended, added, signedIn

vars == <<token, users, callback, req, list, swept, ended, added, signedIn>>

Oldest == SessionTTL + SweepEvery + 1

Claims == [login : Logins \cup {NoLogin}, age : 0 .. Oldest]
ASSUME IdleAssumption == Idle \notin Claims

Kinds == {"use", "logout", "delete"}
Steps == {"parsed", "expired", "held", "cleared", "deleted"}
Request == [on : Processes, kind : Kinds, bearer : Tokens, check : Tokens,
            confirming : BOOLEAN, step : Steps, late : BOOLEAN, static : BOOLEAN]
CallbackState == [on : Processes, login : Logins \cup {NoLogin}, recorded : BOOLEAN]

TypeOK ==
    /\ token \in [Tokens -> Claims \cup {Idle}]
    /\ users \subseteq Logins
    /\ callback \in [SignIns -> CallbackState \cup {Idle}]
    /\ req \in [Requests -> Request \cup {Idle}]
    /\ list \in [Processes -> SUBSET Tokens]
    /\ swept \in [Processes -> 0 .. SweepEvery]
    /\ ended \in [Processes -> SUBSET Tokens]
    /\ added \in [Processes -> [Tokens -> 0 .. SweepEvery]]
    /\ signedIn \in [Logins \cup {NoLogin} -> 0 .. ReauthWindow + 1]

Init ==
    /\ token = [t \in Tokens |-> Idle]
    /\ users = {}
    /\ callback = [s \in SignIns |-> Idle]
    /\ req = [r \in Requests |-> Idle]
    /\ list = [p \in Processes |-> {}]
    /\ swept = [p \in Processes |-> 0]
    /\ ended = [p \in Processes |-> {}]
    /\ added = [p \in Processes |-> [t \in Tokens |-> SweepEvery]]
    /\ signedIn = [l \in Logins \cup {NoLogin} |-> ReauthWindow + 1]

Issued == {t \in Tokens : token[t] # Idle}
Age(t) == token[t].age
Valid(t) == Age(t) < SessionTTL
Outlived(t) == Age(t) > SessionTTL
FreshlyAuthenticated(t) == Age(t) <= ReauthWindow

-----------------------------------------------------------------------------
(* Callback: the state is verified, the code exchanged and the user        *)
(* fetched.  The body of an error reply parses as a user without a login.  *)
(* A failure before this point ends the sign-in and changes nothing.       *)
Callback(s, p, l) ==
    /\ callback[s] = Idle
    /\ callback' = [callback EXCEPT ![s] =
                        [on |-> p, login |-> l, recorded |-> FALSE]]
    /\ UNCHANGED <<token, users, req, list, swept, ended, added, signedIn>>

(* RecordLogin, where there is a user store: it refuses an empty login.    *)
RecordLogin(s) ==
    /\ callback[s] # Idle /\ ~callback[s].recorded
    /\ HasUserStore => callback[s].login # NoLogin
    /\ callback' = [callback EXCEPT ![s].recorded = TRUE]
    /\ users' = IF HasUserStore THEN users \cup {callback[s].login} ELSE users
    /\ UNCHANGED <<token, req, list, swept, ended, added, signedIn>>

(* RecordLogin fails, for an empty login or in the database: no session.   *)
RecordFails(s) ==
    /\ callback[s] # Idle /\ ~callback[s].recorded
    /\ HasUserStore
    /\ callback' = [callback EXCEPT ![s] = Idle]
    /\ UNCHANGED <<token, users, req, list, swept, ended, added, signedIn>>

(* issueJWT, and the cookie.                                               *)
IssueJWT(s, t) ==
    /\ callback[s] # Idle /\ callback[s].recorded
    /\ t \notin Issued
    /\ token' = [token EXCEPT ![t] = [login |-> callback[s].login, age |-> 0]]
    /\ signedIn' = [signedIn EXCEPT ![callback[s].login] = 0]
    /\ callback' = [callback EXCEPT ![s] = Idle]
    /\ UNCHANGED <<users, req, list, swept, ended, added>>

-----------------------------------------------------------------------------
(* ValidateJWT up to the revocation list: signature and expiry.            *)
Parse(r, p, t, kind) ==
    /\ req[r] = Idle
    /\ t \in Issued /\ Valid(t)
    /\ req' = [req EXCEPT ![r] =
           [on |-> p, kind |-> kind, bearer |-> t, check |-> t,
            confirming |-> FALSE, step |-> "parsed", late |-> t \in ended[p],
            static |-> FALSE]]
    /\ UNCHANGED <<token, users, callback, list, swept, ended, added, signedIn>>

(* Mutated form of SameAccount: whose token it is makes no difference.     *)
AnyAccount(q) == TRUE

SameAccount(q) == token[q.check].login = token[q.bearer].login

(* What follows a token that was accepted: the handler, or, for the        *)
(* reauthentication token, the rest of requireRecentAuth.                  *)
Accepted(q) ==
    IF ~q.confirming THEN [q EXCEPT !.step = "held"]
    ELSE IF SameAccount(q) /\ FreshlyAuthenticated(q.check)
         THEN [q EXCEPT !.step = "cleared"] ELSE Idle

(* IsRevoked, the read lock: no entry, an entry that counts, or one whose  *)
(* token has expired since it was parsed.                                  *)
IsRevoked(r) ==
    /\ req[r] # Idle /\ req[r].step = "parsed"
    /\ LET q == req[r]
       IN  req' = [req EXCEPT ![r] =
               IF q.check \notin list[q.on] THEN Accepted(q)
               ELSE IF Outlived(q.check) THEN [q EXCEPT !.step = "expired"]
               ELSE Idle]
    /\ UNCHANGED <<token, users, callback, list, swept, ended, added, signedIn>>

(* IsRevoked, the write lock: the entry goes, and the token is accepted.   *)
DropExpired(r) ==
    /\ req[r] # Idle /\ req[r].step = "expired"
    /\ LET q == req[r]
       IN  /\ list' = [list EXCEPT ![q.on] = @ \ {q.check}]
           /\ added' = [added EXCEPT ![q.on][q.check] = SweepEvery]
           /\ req' = [req EXCEPT ![r] = Accepted(q)]
    /\ UNCHANGED <<token, users, callback, swept, ended, signedIn>>

(* Any other handler behind RequireAuth, RequireAdmin or OptionalAuth.     *)
Answer(r) ==
    /\ req[r] # Idle /\ req[r].step = "held" /\ req[r].kind = "use"
    /\ req' = [req EXCEPT ![r] = Idle]
    /\ UNCHANGED <<token, users, callback, list, swept, ended, added, signedIn>>

-----------------------------------------------------------------------------
(* Mutated form of Kept: an entry lasts as long as a sign-in is fresh.     *)
KeptFresh(tokens) == {t \in tokens : FreshlyAuthenticated(t)}

(* What a sweep leaves.                                                    *)
Kept(tokens) == {t \in tokens : ~Outlived(t)}

(* Mutated form of Revoke: nobody sweeps.                                  *)
RevokeUnswept(p, t) ==
    /\ list' = [list EXCEPT ![p] = @ \cup {t}]
    /\ added' = [added EXCEPT ![p][t] = 0]
    /\ UNCHANGED swept

(* Revoke, with sweepLocked: at most one sweep a minute.                   *)
Revoke(p, t) ==
    LET entries == list[p] \cup {t}
        due == swept[p] >= SweepEvery
        left == IF due THEN Kept(entries) ELSE entries
    IN  /\ list' = [list EXCEPT ![p] = left]
        /\ added' = [added EXCEPT ![p] =
               [u \in Tokens |-> IF u \notin left THEN SweepEvery
                                 ELSE IF u = t THEN 0 ELSE added[p][u]]]
        /\ swept' = [swept EXCEPT ![p] = IF due THEN 0 ELSE @]

(* The session of a request is over.                                       *)
EndSession(r) ==
    /\ Revoke(req[r].on, req[r].bearer)
    /\ ended' = [ended EXCEPT ![req[r].on] = @ \cup {req[r].bearer}]
    /\ req' = [req EXCEPT ![r] = Idle]
    /\ UNCHANGED <<token, users, callback, signedIn>>

Logout(r) ==
    /\ req[r] # Idle /\ req[r].step = "held" /\ req[r].kind = "logout"
    /\ EndSession(r)

(* requireRecentAuth with a recent sign-in behind the session, or with     *)
(* ADMIN_TOKEN as the reauthentication token.                              *)
RecentAuth(r, given) ==
    /\ req[r] # Idle /\ req[r].step = "held" /\ req[r].kind = "delete"
    /\ FreshlyAuthenticated(req[r].bearer) \/ given = StaticToken
    /\ req' = [req EXCEPT ![r].step = "cleared",
                          ![r].static = ~FreshlyAuthenticated(req[r].bearer)]
    /\ UNCHANGED <<token, users, callback, list, swept, ended, added, signedIn>>

(* requireRecentAuth turns to the token in the body of the request.        *)
Reauthenticate(r, t) ==
    /\ req[r] # Idle /\ req[r].step = "held" /\ req[r].kind = "delete"
    /\ ~FreshlyAuthenticated(req[r].bearer)
    /\ t \in Issued /\ Valid(t)
    /\ req' = [req EXCEPT ![r].step = "parsed", ![r].check = t,
                          ![r].confirming = TRUE, ![r].late = t \in ended[req[r].on]]
    /\ UNCHANGED <<token, users, callback, list, swept, ended, added, signedIn>>

(* There is no token in the body, or not one that is valid.                *)
ReauthRequired(r) ==
    /\ req[r] # Idle /\ req[r].step = "held" /\ req[r].kind = "delete"
    /\ ~FreshlyAuthenticated(req[r].bearer)
    /\ req' = [req EXCEPT ![r] = Idle]
    /\ UNCHANGED <<token, users, callback, list, swept, ended, added, signedIn>>

(* DeleteAccount: the service succeeds, or fails and leaves the session.   *)
DeleteAccount(r) ==
    /\ req[r] # Idle /\ req[r].step = "cleared"
    /\ \/ req' = [req EXCEPT ![r].step = "deleted"]
       \/ req' = [req EXCEPT ![r] = Idle]
    /\ UNCHANGED <<token, users, callback, list, swept, ended, added, signedIn>>

(* DeleteAccount ends its own session.                                     *)
FinishDelete(r) ==
    /\ req[r] # Idle /\ req[r].step = "deleted"
    /\ EndSession(r)

-----------------------------------------------------------------------------
OneMore(n, most) == IF n < most THEN n + 1 ELSE most

Tick ==
    /\ token' = [t \in Tokens |-> IF token[t] = Idle THEN Idle
                    ELSE [token[t] EXCEPT !.age = OneMore(@, Oldest)]]
    /\ swept' = [p \in Processes |-> OneMore(swept[p], SweepEvery)]
    /\ signedIn' = [l \in Logins \cup {NoLogin} |->
                        OneMore(signedIn[l], ReauthWindow + 1)]
    /\ added' = [p \in Processes |->
                     [t \in Tokens |-> OneMore(added[p][t], SweepEvery)]]
    /\ UNCHANGED <<users, callback, req, list, ended>>

(* A process stops and starts again: its list is gone, and what it was     *)
(* doing.                                                                  *)
Restart(p) ==
    /\ list' = [list EXCEPT ![p] = {}]
    /\ added' = [added EXCEPT ![p] = [t \in Tokens |-> SweepEvery]]
    /\ ended' = [ended EXCEPT ![p] = {}]
    /\ swept' = [swept EXCEPT ![p] = 0]
    /\ req' = [r \in Requests |-> IF req[r] # Idle /\ req[r].on = p
                                  THEN Idle ELSE req[r]]
    /\ callback' = [s \in SignIns |-> IF callback[s] # Idle /\ callback[s].on = p
                                      THEN Idle ELSE callback[s]]
    /\ UNCHANGED <<token, users, signedIn>>

SignInStep(s) ==
    \/ \E p \in Processes, l \in Logins \cup {NoLogin} : Callback(s, p, l)
    \/ RecordLogin(s)
    \/ RecordFails(s)
    \/ \E t \in Tokens : IssueJWT(s, t)

RequestStep(r) ==
    \/ \E p \in Processes, t \in Tokens, kind \in Kinds : Parse(r, p, t, kind)
    \/ IsRevoked(r)
    \/ DropExpired(r)
    \/ Answer(r)
    \/ Logout(r)
    \/ \E given \in {StaticToken, Idle} : RecentAuth(r, given)
    \/ \E t \in Tokens : Reauthenticate(r, t)
    \/ ReauthRequired(r)
    \/ DeleteAccount(r)
    \/ FinishDelete(r)

Next ==
    \/ \E s \in SignIns : SignInStep(s)
    \/ \E r \in Requests : RequestStep(r)
    \/ Tick
    \/ \E p \in Processes : Restart(p)

Spec == Init /\ [][Next]_vars

-----------------------------------------------------------------------------
(* A session that was signed out, or that deleted its account, is never    *)
(* accepted again by the process that answered the sign-out, until that    *)
(* process restarts: not by a request that is past parsing the token when  *)
(* the entry is swept, and not through the second lock of IsRevoked.  The  *)
(* one way in is a request that parsed the token before it expired and     *)
(* read the list after: then the token has expired.                        *)
SignedOutRefused ==
    \A r \in Requests :
        /\ req[r] # Idle
        /\ req[r].step \in {"held", "cleared", "deleted"}
        /\ req[r].late
        => Outlived(req[r].check)

(* A request that clears the step-up check does so by ADMIN_TOKEN, or      *)
(* while the account's latest sign-in is recent.                           *)
ClearedByHolder ==
    \A r \in Requests :
        /\ req[r] # Idle /\ req[r].step # "cleared"
        /\ req'[r] # Idle /\ req'[r].step = "cleared"
        => \/ req'[r].static
           \/ signedIn[token[req[r].bearer].login] <= ReauthWindow

(* An account is deleted only when its own holder has signed in with       *)
(* GitHub within the window, or with the break-glass ADMIN_TOKEN: an old   *)
(* session, a fresh session of somebody else or one that was signed out    *)
(* does not clear the step-up check.                                       *)
StepUp == [][ClearedByHolder]_vars

(* What a sign-out leaves on the list of its process.                      *)
SignOutSweeps ==
    \A r \in Requests :
        /\ req[r] # Idle /\ req'[r] = Idle
        /\ \/ req[r].step = "held" /\ req[r].kind = "logout"
           \/ req[r].step = "deleted"
        => \A t \in list'[req[r].on] :
              \/ Age(t) <= SessionTTL
              \/ Age(t) < SessionTTL + SweepEvery
              \/ added'[req[r].on][t] < SweepEvery

(* What a sign-out leaves on the list is bounded, for any number of        *)
(* sessions and however late a request puts its entry: only entries of     *)
(* tokens that expired less than a minute ago, or put there less than a    *)
(* minute ago.                                                             *)
ListSwept == [][SignOutSweeps]_vars

(* With a user store every session belongs to an account on record: a      *)
(* sign-in whose record fails, or that has no login, gets no session.      *)
SessionsRecorded ==
    HasUserStore => \A t \in Issued : token[t].login \in users
=============================================================================
