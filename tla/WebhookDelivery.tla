--------------------------- MODULE WebhookDelivery ---------------------------
(***************************************************************************)
(* Consumer webhooks of one plugin (api/handlers/webhooks.go and the       *)
(* webhook repositories): subscriptions, the fan-out of an event to them,  *)
(* and the bookkeeping that disables a failing endpoint.                   *)
(*                                                                         *)
(* An event starts a goroutine that lists the active subscriptions and     *)
(* starts one goroutine per subscription; each posts with a timeout and    *)
(* records the outcome.  Nothing is queued on disk and nothing is ordered: *)
(* deliveries of many events to one endpoint run side by side, and a       *)
(* restart loses them.                                                     *)
(***************************************************************************)
EXTENDS Naturals, FiniteSets

CONSTANTS Subs,          \* ids of webhook_subscriptions
          Owners,        \* accounts
          Refs,          \* references that all resolve to the plugin
          Canonical,     \* the one plugin.Ref() returns
          Dead,          \* subscriptions whose endpoint always fails
          MaxFailures,   \* maxConsecutiveWebhookFailures
          PerOwner,      \* maxWebhookSubscriptionsPerOwner
          MaxEvents, MaxFlights, MaxCreating, MaxRestarts,   \* bounds
          Never, Gone    \* rows not yet created, and deleted

ASSUME WebhookAssumption ==
    /\ MaxFailures \in Nat \ {0} /\ PerOwner \in Nat \ {0}
    /\ {MaxEvents, MaxFlights, MaxCreating, MaxRestarts} \subseteq Nat
    /\ Canonical \in Refs /\ Dead \subseteq Subs

FailureCap == MaxFailures + MaxFlights     \* where the count stops counting

Sub == [owner : Owners, ref : Refs, active : BOOLEAN,
        failures : 0 .. FailureCap]

ASSUME RowAssumption == Never \notin Sub /\ Gone \notin Sub /\ Never # Gone

VARIABLES backend,    \* "postgres" or "file": the deployment's choice
          subs,       \* the subscriptions
          creating,   \* creations past the limit check, per owner
          events,     \* events whose subscriptions are not listed yet
          flights,    \* deliveries under way, per subscription
          restarts

vars == <<backend, subs, creating, events, flights, restarts>>

TypeOK ==
    /\ backend \in {"postgres", "file"}
    /\ subs \in [Subs -> Sub \union {Never, Gone}]
    /\ creating \in [Owners -> 0 .. MaxCreating]
    /\ events \in 0 .. MaxEvents
    /\ flights \in [Subs -> 0 .. MaxFlights]
    /\ restarts \in 0 .. MaxRestarts

-----------------------------------------------------------------------------
Exists(s) == subs[s] \notin {Never, Gone}
Active(s) == Exists(s) /\ subs[s].active
OwnedBy(o) == {s \in Subs : Exists(s) /\ subs[s].owner = o}

(* The rows a fan-out selects: active, and registered under the reference  *)
(* the event carries.                                                      *)
Listening(s) == Active(s) /\ subs[s].ref = Canonical

Init ==
    /\ backend \in {"postgres", "file"}
    /\ subs = [s \in Subs |-> Never]
    /\ creating = [o \in Owners |-> 0]
    /\ events = 0
    /\ flights = [s \in Subs |-> 0]
    /\ restarts = 0

(* Mutated form of BelowLimit: one more than the limit.                    *)
AtMostLimit(o) == Cardinality(OwnedBy(o)) <= PerOwner

BelowLimit(o) == Cardinality(OwnedBy(o)) < PerOwner

(* CreateSubscription: the count is checked, then the row is inserted.     *)
CheckLimit(o) ==
    /\ BelowLimit(o)
    /\ creating[o] < MaxCreating
    /\ creating' = [creating EXCEPT ![o] = @ + 1]
    /\ UNCHANGED <<backend, subs, events, flights, restarts>>

NewSub(o, ref) == [owner |-> o, ref |-> ref, active |-> TRUE, failures |-> 0]

(* The reference is stored as it was given, not as it was resolved.        *)
Create(s, o, ref) ==
    /\ creating[o] > 0
    /\ subs[s] = Never
    /\ subs' = [subs EXCEPT ![s] = NewSub(o, ref)]
    /\ creating' = [creating EXCEPT ![o] = @ - 1]
    /\ UNCHANGED <<backend, events, flights, restarts>>

(* No secret, or the insert fails.                                         *)
CreateFails(o) ==
    /\ creating[o] > 0
    /\ creating' = [creating EXCEPT ![o] = @ - 1]
    /\ UNCHANGED <<backend, subs, events, flights, restarts>>

(* By its owner or an admin; deliveries under way are not called back.     *)
Delete(s) ==
    /\ Exists(s)
    /\ subs' = [subs EXCEPT ![s] = Gone]
    /\ UNCHANGED <<backend, creating, events, flights, restarts>>

Publish ==
    /\ events < MaxEvents
    /\ events' = events + 1
    /\ UNCHANGED <<backend, subs, creating, flights, restarts>>

FanOut ==
    /\ events > 0
    /\ \A s \in Subs : Listening(s) => flights[s] < MaxFlights
    /\ events' = events - 1
    /\ flights' = [s \in Subs |-> IF Listening(s) THEN flights[s] + 1
                                                  ELSE flights[s]]
    /\ UNCHANGED <<backend, subs, creating, restarts>>

(* The listing or the encoding fails: the event is dropped, for everybody. *)
FanOutFails ==
    /\ events > 0
    /\ events' = events - 1
    /\ UNCHANGED <<backend, subs, creating, flights, restarts>>

(* active after a failure that makes the count f.  PostgreSQL recomputes   *)
(* it from the count alone; the file backend only ever clears it.          *)
(* Slips: the recomputation in both, a count one too high, no limit.       *)
RecomputedActive(sub, f) == f < MaxFailures
LateActive(sub, f) == sub.active /\ f <= MaxFailures
AlwaysActive(sub, f) == sub.active

StillActive(sub, f) ==
    /\ f < MaxFailures
    /\ backend = "file" => sub.active

(* One delivery ends and RecordDelivery updates the row, if it is there.   *)
Deliver(s, success) ==
    /\ flights[s] > 0
    /\ success => s \notin Dead
    /\ flights' = [flights EXCEPT ![s] = @ - 1]
    /\ subs' = IF ~Exists(s) THEN subs
               ELSE IF success THEN [subs EXCEPT ![s].failures = 0]
               ELSE [subs EXCEPT ![s].failures = IF @ < FailureCap THEN @ + 1 ELSE @,
                                 ![s].active = StillActive(subs[s],
                                                           subs[s].failures + 1)]
    /\ UNCHANGED <<backend, creating, events, restarts>>

(* The error of RecordDelivery is dropped.                                 *)
LoseRecord(s) ==
    /\ flights[s] > 0
    /\ flights' = [flights EXCEPT ![s] = @ - 1]
    /\ UNCHANGED <<backend, subs, creating, events, restarts>>

(* The goroutines die with the process, the rows stay.                     *)
Restart ==
    /\ restarts < MaxRestarts
    /\ restarts' = restarts + 1
    /\ creating' = [o \in Owners |-> 0]
    /\ events' = 0
    /\ flights' = [s \in Subs |-> 0]
    /\ UNCHANGED <<backend, subs>>

Next ==
    \/ Publish \/ FanOut \/ FanOutFails \/ Restart
    \/ \E o \in Owners : CheckLimit(o) \/ CreateFails(o)
    \/ \E s \in Subs :
          \/ Delete(s) \/ LoseRecord(s)
          \/ \E success \in BOOLEAN : Deliver(s, success)
          \/ \E o \in Owners, ref \in Refs : Create(s, o, ref)

(* The runtime runs every goroutine, a delivery ends within its timeout,   *)
(* and the database does not refuse the bookkeeping for ever.              *)
Fairness ==
    /\ WF_vars(FanOut)
    /\ \A s \in Subs : SF_vars(\E success \in BOOLEAN : Deliver(s, success))

Spec == Init /\ [][Next]_vars
FairSpec == Spec /\ Fairness

-----------------------------------------------------------------------------
(* An active subscription has failed fewer times in a row than the limit,  *)
(* whatever deliveries were under way when it reached it.                  *)
ActiveBelowLimit ==
    \A s \in Subs : Active(s) => subs[s].failures < MaxFailures

(* The requests of an account that are past the check together add at most *)
(* one subscription each to the limit, however deletions, restarts and     *)
(* failed inserts fall between the count and the row.                      *)
OvershootBounded ==
    \A o \in Owners :
        Cardinality(OwnedBy(o)) + creating[o] < PerOwner + MaxCreating

(* A dead endpoint is not retried for ever, although events keep coming,   *)
(* bookkeeping is lost and the process restarts (README: "so a dead        *)
(* endpoint is not retried forever").                                      *)
DeadEndpointRetired == \A s \in Dead : <>[](flights[s] = 0)

(* On the file backend nothing enables a disabled subscription again, in   *)
(* whatever order the deliveries that were under way end: only a new       *)
(* registration brings the endpoint back (fileWebhookRepository).          *)
FileKeepsDisabled ==
    [][backend = "file" =>
          \A s \in Subs : (Exists(s) /\ ~subs[s].active) => ~Active(s)']_vars
=============================================================================
