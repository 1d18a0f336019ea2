--------------------------- MODULE NotifyProofs ---------------------------
(***************************************************************************)
(* Proofs about what the registry tells others: webhook subscriptions and  *)
(* their deliveries, the announcement of advisories, the comparison of     *)
(* versions that decides whom an advisory affects, and which version is    *)
(* named as the latest, for any number of subscriptions, accounts,         *)
(* advisories and overlapping refreshes, any failure limit, any bounds,    *)
(* any numbers and prereleases, and any number of versions and dates.      *)
(*                                                                         *)
(* An advisory is accounted for when it has been announced, is lost, or a  *)
(* refresh is about to announce it.  It stays so (AccountedStays).  What a *)
(* refresh has read was stored, and so accounted for; hence so is all that *)
(* it stores, being in its reading or being what it will announce.         *)
(*                                                                         *)
(* Two versions are compared as two sequences of keys are: the first entry *)
(* that differs decides (Decided), or else the length (Prefixed); each     *)
(* branch of CompareVersions is one of the two.                            *)
(*                                                                         *)
(* The file and the table hold the same versions (SameVersions).  However  *)
(* the file is read it is newest first, so the first version that          *)
(* qualifies has the date of the row the subquery takes (NewestRow).       *)
(***************************************************************************)
EXTENDS WebhookDelivery, AdvisoryRefresh, VersionOrder,
        SequenceTheorems, FiniteSetTheorems, WellFoundedInduction, TLAPS

-----------------------------------------------------------------------------
(* Webhooks                                                                *)

LEMMA ExistsTyped ==
    ASSUME TypeOK, NEW s \in Subs, Exists(s)
    PROVE  subs[s] \in Sub
BY DEF TypeOK, Exists

(* What RecordDelivery makes of a row, and what it leaves.                 *)
Failed(s) ==
    [subs[s] EXCEPT !.failures = IF @ < FailureCap THEN @ + 1 ELSE @,
                    !.active = StillActive(subs[s], subs[s].failures + 1)]

LEMMA FailedFacts ==
    ASSUME TypeOK, NEW s \in Subs, Exists(s)
    PROVE  /\ Failed(s) \in Sub
           /\ Failed(s).active => Failed(s).failures < MaxFailures
           /\ backend = "file" /\ ~subs[s].active => ~Failed(s).active
<1>1. subs[s] \in Sub BY ExistsTyped
<1>2. /\ subs[s].failures \in 0 .. FailureCap
      /\ FailureCap \in Nat
      /\ MaxFailures \in Nat
  BY <1>1, WebhookAssumption DEF Sub, FailureCap
<1>3. StillActive(subs[s], subs[s].failures + 1) \in BOOLEAN BY DEF StillActive
<1>4. (IF subs[s].failures < FailureCap THEN subs[s].failures + 1 ELSE subs[s].failures)
          \in 0 .. FailureCap
  BY <1>2
<1>5. Failed(s) \in Sub BY <1>1, <1>3, <1>4 DEF Failed, Sub
<1>6. /\ Failed(s).active = StillActive(subs[s], subs[s].failures + 1)
      /\ Failed(s).failures <= subs[s].failures + 1
  BY <1>1, <1>2 DEF Failed, Sub
<1>7. Failed(s).failures \in Nat BY <1>2, <1>5 DEF Sub
<1>8. Failed(s).active => Failed(s).failures < MaxFailures
  <2>1. Failed(s).active => subs[s].failures + 1 < MaxFailures
    BY <1>6, Zenon DEF StillActive
  <2>2. subs[s].failures + 1 < MaxFailures => Failed(s).failures < MaxFailures
    BY <1>2, <1>6, <1>7
  <2> QED BY <2>1, <2>2, Zenon
<1>9. backend = "file" /\ ~subs[s].active => ~Failed(s).active
  BY <1>6 DEF StillActive
<1> QED BY <1>5, <1>8, <1>9

(* What a step may do to a subscription.                                   *)
RowEffect(s) ==
    \/ subs'[s] = subs[s]
    \/ subs'[s] = Gone
    \/ subs[s] = Never /\ \E o \in Owners, given \in Refs : subs'[s] = NewSub(o, given)
    \/ Exists(s) /\ subs'[s] = [subs[s] EXCEPT !.failures = 0]
    \/ Exists(s) /\ subs'[s] = Failed(s)

RowsEffect == subs' = [t \in Subs |-> subs'[t]] /\ \A t \in Subs : RowEffect(t)

LEMMA DeliverRows ==
    ASSUME TypeOK, NEW s \in Subs, NEW success \in BOOLEAN, Deliver(s, success)
    PROVE  RowsEffect
<1>1. CASE ~Exists(s) BY <1>1 DEF Deliver, RowsEffect, RowEffect, TypeOK
<1>2. CASE Exists(s) /\ success
  <2>1. subs' = [subs EXCEPT ![s].failures = 0] BY <1>2 DEF Deliver
  <2>2. subs'[s] = [subs[s] EXCEPT !.failures = 0] BY <2>1 DEF TypeOK
  <2>3. subs' = [t \in Subs |-> subs'[t]] /\ \A t \in Subs \ {s} : subs'[t] = subs[t]
    BY <2>1 DEF TypeOK
  <2> QED BY <1>2, <2>2, <2>3 DEF RowsEffect, RowEffect
<1>3. CASE Exists(s) /\ ~success
  <2>1. subs' = [subs EXCEPT ![s].failures = IF @ < FailureCap THEN @ + 1 ELSE @,
                             ![s].active = StillActive(subs[s], subs[s].failures + 1)]
    BY <1>3 DEF Deliver
  <2>2. subs'[s] = Failed(s) BY <2>1 DEF TypeOK, Failed
  <2>3. subs' = [t \in Subs |-> subs'[t]] /\ \A t \in Subs \ {s} : subs'[t] = subs[t]
    BY <2>1 DEF TypeOK
  <2> QED BY <1>3, <2>2, <2>3 DEF RowsEffect, RowEffect
<1> QED BY <1>1, <1>2, <1>3

LEMMA StepRows ==
    ASSUME TypeOK, [Next]_vars
    PROVE  RowsEffect
<1>1. CASE UNCHANGED subs BY <1>1 DEF RowsEffect, RowEffect, TypeOK
<1>2. ASSUME NEW s \in Subs, Delete(s) PROVE RowsEffect
  BY <1>2 DEF Delete, RowsEffect, RowEffect, TypeOK
<1>3. ASSUME NEW s \in Subs, NEW o \in Owners, NEW given \in Refs, Create(s, o, given)
      PROVE  RowsEffect
  BY <1>3 DEF Create, RowsEffect, RowEffect, TypeOK
<1>4. ASSUME NEW s \in Subs, NEW success \in BOOLEAN, Deliver(s, success) PROVE RowsEffect
  BY <1>4, DeliverRows
<1>5. ASSUME NEW s \in Subs, LoseRecord(s) PROVE RowsEffect
  BY <1>1, <1>5 DEF LoseRecord
<1>6. CASE \/ Publish \/ FanOut \/ FanOutFails \/ Restart
           \/ \E o \in Owners : CheckLimit(o) \/ CreateFails(o)
  BY <1>1, <1>6 DEF Publish, FanOut, FanOutFails, Restart, CheckLimit, CreateFails
<1>7. CASE UNCHANGED vars BY <1>1, <1>7 DEF vars
<1> QED BY <1>2, <1>3, <1>4, <1>5, <1>6, <1>7, Zenon DEF Next

LEMMA RowTyped ==
    ASSUME TypeOK, NEW s \in Subs, RowEffect(s)
    PROVE  subs'[s] \in Sub \union {Never, Gone}
<1>1. CASE subs'[s] = subs[s] BY <1>1 DEF TypeOK
<1>2. CASE subs'[s] = Gone BY <1>2
<1>3. ASSUME NEW o \in Owners, NEW given \in Refs, subs'[s] = NewSub(o, given)
      PROVE  subs'[s] \in Sub
  BY <1>3, WebhookAssumption DEF NewSub, Sub, FailureCap
<1>4. CASE Exists(s) /\ subs'[s] = [subs[s] EXCEPT !.failures = 0]
  BY <1>4, ExistsTyped, WebhookAssumption DEF Sub, FailureCap
<1>5. CASE Exists(s) /\ subs'[s] = Failed(s) BY <1>5, FailedFacts
<1> QED BY <1>1, <1>2, <1>3, <1>4, <1>5 DEF RowEffect

LEMMA InitTyped == Init => TypeOK
BY WebhookAssumption DEF Init, TypeOK

OthersTyped ==
    /\ backend' \in {"postgres", "file"}
    /\ creating' \in [Owners -> 0 .. MaxCreating]
    /\ events' \in 0 .. MaxEvents
    /\ flights' \in [Subs -> 0 .. MaxFlights]
    /\ restarts' \in 0 .. MaxRestarts

LEMMA StepOthers ==
    ASSUME TypeOK, [Next]_vars
    PROVE  OthersTyped
<1> USE WebhookAssumption DEF TypeOK, OthersTyped
<1>1. CASE Publish \/ FanOutFails BY <1>1 DEF Publish, FanOutFails
<1>2. CASE FanOut
  <2>1. flights' \in [Subs -> 0 .. MaxFlights] BY <1>2 DEF FanOut
  <2> QED BY <1>2, <2>1 DEF FanOut
<1>3. CASE Restart BY <1>3 DEF Restart
<1>4. ASSUME NEW o \in Owners, CheckLimit(o) \/ CreateFails(o) PROVE OthersTyped
  BY <1>4 DEF CheckLimit, CreateFails
<1>5. ASSUME NEW s \in Subs, Delete(s) PROVE OthersTyped BY <1>5 DEF Delete
<1>6. ASSUME NEW s \in Subs, LoseRecord(s) PROVE OthersTyped BY <1>6 DEF LoseRecord
<1>7. ASSUME NEW s \in Subs, NEW success \in BOOLEAN, Deliver(s, success)
      PROVE  OthersTyped
  <2>1. /\ flights[s] > 0
        /\ flights' = [flights EXCEPT ![s] = @ - 1]
        /\ UNCHANGED <<backend, creating, events, restarts>>
    BY <1>7 DEF Deliver
  <2> QED BY <2>1
<1>8. ASSUME NEW s \in Subs, NEW o \in Owners, NEW given \in Refs, Create(s, o, given)
      PROVE  OthersTyped
  BY <1>8 DEF Create
<1>9. CASE UNCHANGED vars BY <1>9 DEF vars
<1> HIDE DEF TypeOK, OthersTyped
<1> QED BY <1>1, <1>2, <1>3, <1>4, <1>5, <1>6, <1>7, <1>8, <1>9, Zenon DEF Next

LEMMA StepTyped == TypeOK /\ [Next]_vars => TypeOK'
<1> SUFFICES ASSUME TypeOK, [Next]_vars PROVE TypeOK' OBVIOUS
<1>1. RowsEffect BY StepRows
<1>2. subs' \in [Subs -> Sub \union {Never, Gone}]
  BY <1>1, RowTyped DEF RowsEffect
<1> QED BY <1>2, StepOthers DEF TypeOK, OthersTyped

(* Every variable keeps its type.                                          *)
THEOREM TypeCorrect == Spec => []TypeOK
BY InitTyped, StepTyped, PTL DEF Spec

-----------------------------------------------------------------------------
LEMMA RowBelowLimit ==
    ASSUME TypeOK, ActiveBelowLimit, NEW s \in Subs, RowEffect(s)
    PROVE  Active(s)' => subs'[s].failures < MaxFailures
<1> SUFFICES ASSUME Active(s)' PROVE subs'[s].failures < MaxFailures OBVIOUS
<1>1. subs'[s] # Gone /\ subs'[s] # Never /\ subs'[s].active BY DEF Active, Exists
<1>2. CASE subs'[s] = subs[s]
  <2>1. Active(s) BY <1>1, <1>2 DEF Active, Exists
  <2> QED BY <1>2, <2>1 DEF ActiveBelowLimit
<1>3. ASSUME NEW o \in Owners, NEW given \in Refs, subs'[s] = NewSub(o, given)
      PROVE  subs'[s].failures < MaxFailures
  BY <1>3, WebhookAssumption DEF NewSub
<1>4. CASE Exists(s) /\ subs'[s] = [subs[s] EXCEPT !.failures = 0]
  BY <1>4, ExistsTyped, WebhookAssumption DEF Sub
<1>5. CASE Exists(s) /\ subs'[s] = Failed(s) BY <1>1, <1>5, FailedFacts
<1> QED BY <1>1, <1>2, <1>3, <1>4, <1>5 DEF RowEffect

(* Whatever deliveries were under way when it reached the limit, an active *)
(* subscription is below it (RecordDelivery of both repositories).         *)
THEOREM ActiveIsBelowLimit == Spec => []ActiveBelowLimit
<1>1. Init => ActiveBelowLimit BY DEF Init, ActiveBelowLimit, Active, Exists
<1>2. TypeOK /\ ActiveBelowLimit /\ [Next]_vars => ActiveBelowLimit'
  BY StepRows, RowBelowLimit DEF RowsEffect, ActiveBelowLimit
<1> QED BY <1>1, <1>2, TypeCorrect, PTL DEF Spec

LEMMA RowStaysDisabled ==
    ASSUME TypeOK, NEW s \in Subs, RowEffect(s), backend = "file",
           Exists(s), ~subs[s].active
    PROVE  ~Active(s)'
<1>1. CASE subs'[s] = subs[s] BY <1>1 DEF Active
<1>2. CASE subs'[s] = Gone BY <1>2 DEF Active, Exists
<1>3. CASE subs'[s] = [subs[s] EXCEPT !.failures = 0]
  BY <1>3, ExistsTyped DEF Active, Sub
<1>4. CASE subs'[s] = Failed(s) BY <1>4, FailedFacts DEF Active
<1> QED BY <1>1, <1>2, <1>3, <1>4 DEF RowEffect, Exists

(* The file backend never enables a disabled subscription again            *)
(* (fileWebhookRepository.RecordDelivery).                                 *)
THEOREM FileNeverReenables == Spec => FileKeepsDisabled
<1>1. TypeOK /\ [Next]_vars =>
         [backend = "file" =>
             \A s \in Subs : (Exists(s) /\ ~subs[s].active) => ~Active(s)']_vars
  BY StepRows, RowStaysDisabled DEF RowsEffect
<1> QED BY <1>1, TypeCorrect, PTL DEF Spec, FileKeepsDisabled

-----------------------------------------------------------------------------
(* A subscription that is not under the reference events carry.            *)
AliasIdle ==
    \A s \in Subs : Exists(s) /\ subs[s].ref # Canonical => flights[s] = 0

NeverIdle == \A s \in Subs : subs[s] = Never => flights[s] = 0

LEMMA AliasInductive ==
    ASSUME TypeOK, AliasIdle, NeverIdle, [Next]_vars
    PROVE  AliasIdle' /\ NeverIdle'
<1>1. RowsEffect /\ OthersTyped BY StepRows, StepOthers
<1>2. ASSUME NEW s \in Subs PROVE flights'[s] <= flights[s] \/ Listening(s)
  <2>1. flights[s] \in Nat BY DEF TypeOK
  <2>2. CASE FanOut BY <2>1, <2>2 DEF FanOut
  <2>3. ASSUME NEW t \in Subs, flights' = [flights EXCEPT ![t] = @ - 1]
        PROVE  flights'[s] <= flights[s]
    BY <2>1, <2>3 DEF TypeOK
  <2>4. CASE Restart BY <2>1, <2>4 DEF Restart
  <2>5. CASE UNCHANGED flights BY <2>1, <2>5
  <2>6. ASSUME NEW o \in Owners, CheckLimit(o) \/ CreateFails(o)
        PROVE  UNCHANGED flights
    BY <2>6 DEF CheckLimit, CreateFails
  <2>7. ASSUME NEW t \in Subs, LoseRecord(t) \/ \E success \in BOOLEAN : Deliver(t, success)
        PROVE  flights' = [flights EXCEPT ![t] = @ - 1]
    BY <2>7 DEF LoseRecord, Deliver
  <2>8. ASSUME NEW t \in Subs,
               Delete(t) \/ \E o \in Owners, given \in Refs : Create(t, o, given)
        PROVE  UNCHANGED flights
    BY <2>8 DEF Delete, Create
  <2>9. Publish \/ FanOutFails \/ UNCHANGED vars => UNCHANGED flights
    BY DEF Publish, FanOutFails, vars
  <2> QED BY <2>2, <2>3, <2>4, <2>5, <2>6, <2>7, <2>8, <2>9 DEF Next
<1> SUFFICES ASSUME NEW s \in Subs
             PROVE  /\ (Exists(s) /\ subs[s].ref # Canonical => flights[s] = 0)'
                    /\ (subs[s] = Never => flights[s] = 0)'
  BY DEF AliasIdle, NeverIdle
<1>3. flights[s] \in Nat /\ flights'[s] \in Nat BY <1>1 DEF TypeOK, OthersTyped
<1>4. ASSUME Exists(s), Exists(s)' PROVE subs'[s].ref = subs[s].ref
  <2>1. subs[s] \in Sub BY <1>4, ExistsTyped
  <2>2. Failed(s).ref = subs[s].ref BY <2>1 DEF Failed, Sub
  <2>3. [subs[s] EXCEPT !.failures = 0].ref = subs[s].ref BY <2>1 DEF Sub
  <2> QED BY <1>1, <1>4, <2>2, <2>3 DEF RowsEffect, RowEffect, Exists
<1>5. ASSUME Exists(s)', subs'[s].ref # Canonical PROVE flights'[s] = 0
  <2>1. CASE Exists(s)
    <3>1. subs[s].ref # Canonical BY <1>4, <1>5, <2>1
    <3>2. flights[s] = 0 /\ ~Listening(s) BY <2>1, <3>1 DEF AliasIdle, Listening
    <3> QED BY <1>2, <1>3, <3>2
  <2>2. CASE ~Exists(s)
    <3>1. subs[s] = Never
      BY <1>1, <1>5, <2>2 DEF RowsEffect, RowEffect, Exists
    <3>2. flights[s] = 0 /\ ~Listening(s)
      BY <3>1 DEF NeverIdle, Listening, Active, Exists
    <3> QED BY <1>2, <1>3, <3>2
  <2> QED BY <2>1, <2>2
<1>6. ASSUME subs'[s] = Never PROVE flights'[s] = 0
  <2>1. subs[s] = Never
    <3>1. \A o \in Owners, given \in Refs : NewSub(o, given) # Never
      <4>1. MaxFailures \in Nat /\ MaxFlights \in Nat BY WebhookAssumption
      <4>2. 0 \in 0 .. FailureCap BY <4>1 DEF FailureCap
      <4>3. \A o \in Owners, given \in Refs : NewSub(o, given) \in Sub
        BY <4>2 DEF NewSub, Sub
      <4> QED BY <4>3, RowAssumption
    <3>2. Exists(s) => Failed(s) \in Sub BY FailedFacts
    <3>3. Exists(s) => [subs[s] EXCEPT !.failures = 0] \in Sub
      BY ExistsTyped, WebhookAssumption DEF Sub, FailureCap
    <3> QED BY <1>1, <1>6, <3>1, <3>2, <3>3, RowAssumption DEF RowsEffect, RowEffect
  <2>2. flights[s] = 0 /\ ~Listening(s)
    BY <2>1 DEF NeverIdle, Listening, Active, Exists
  <2> QED BY <1>2, <1>3, <2>2
<1> QED BY <1>5, <1>6

(* A subscription registered under any other reference than the plugin's   *)
(* canonical one, which CreateSubscription accepts, is never sent          *)
(* anything: the reference is stored as it was typed and compared as it is *)
(* (ListActiveForEvent).                                                   *)
THEOREM AliasHearsNothing == Spec => []AliasIdle
<1>1. Init => AliasIdle /\ NeverIdle BY DEF Init, AliasIdle, NeverIdle, Exists
<1>2. TypeOK /\ AliasIdle /\ NeverIdle /\ [Next]_vars => AliasIdle' /\ NeverIdle'
  BY AliasInductive
<1> QED BY <1>1, <1>2, TypeCorrect, PTL DEF Spec

-----------------------------------------------------------------------------
(* The limit per account.  A request that is past the check was counted    *)
(* when there was room; each row it adds it takes from those under way.    *)
Counted(o) ==
    /\ IsFiniteSet(OwnedBy(o))
    /\ Cardinality(OwnedBy(o)) + creating[o] < PerOwner + MaxCreating

LimitInv == \A o \in Owners : Counted(o)

(* No row is new, and none changes hands.                                  *)
RowsKept == \A t \in Subs : Exists(t)' => Exists(t) /\ subs'[t].owner = subs[t].owner

LEMMA FewerCounted ==
    ASSUME TypeOK, OthersTyped, NEW o \in Owners, Counted(o), RowsKept,
           creating'[o] <= creating[o]
    PROVE  Counted(o)'
<1>1. OwnedBy(o)' \subseteq OwnedBy(o) BY DEF OwnedBy, RowsKept
<1>2. /\ IsFiniteSet(OwnedBy(o)')
      /\ Cardinality(OwnedBy(o)') <= Cardinality(OwnedBy(o))
      /\ Cardinality(OwnedBy(o)') \in Nat /\ Cardinality(OwnedBy(o)) \in Nat
  BY <1>1, FS_Subset, FS_CardinalityType DEF Counted
<1>3. creating[o] \in Nat /\ creating'[o] \in Nat BY DEF TypeOK, OthersTyped
<1>4. Cardinality(OwnedBy(o)') + creating'[o] < PerOwner + MaxCreating
  BY <1>2, <1>3, WebhookAssumption DEF Counted
<1> QED BY <1>2, <1>4 DEF Counted

LEMMA DeliverKeeps ==
    ASSUME TypeOK, NEW s \in Subs, NEW success \in BOOLEAN, Deliver(s, success)
    PROVE  RowsKept
<1> SUFFICES ASSUME NEW t \in Subs, Exists(t)'
             PROVE  Exists(t) /\ subs'[t].owner = subs[t].owner
  BY DEF RowsKept
<1>1. RowEffect(t) BY DeliverRows DEF RowsEffect
<1>2. subs[t] = Never => subs'[t] = Never BY DEF Deliver, Exists, TypeOK
<1>3. Exists(t) BY <1>1, <1>2 DEF RowEffect, Exists
<1>4. subs[t] \in Sub BY <1>3, ExistsTyped
<1>5. Failed(t).owner = subs[t].owner BY <1>4 DEF Failed, Sub
<1>6. [subs[t] EXCEPT !.failures = 0].owner = subs[t].owner BY <1>4 DEF Sub
<1> QED BY <1>1, <1>3, <1>5, <1>6 DEF RowEffect, Exists

LEMMA CreateCounted ==
    ASSUME TypeOK, LimitInv, NEW s \in Subs, NEW o \in Owners, NEW given \in Refs,
           Create(s, o, given), NEW x \in Owners
    PROVE  Counted(x)'
<1>1. /\ creating[o] \in Nat /\ creating[o] > 0 /\ creating[x] \in Nat
      /\ creating'[x] = IF x = o THEN creating[x] - 1 ELSE creating[x]
  BY DEF Create, TypeOK
<1>2. /\ s \notin OwnedBy(x)
      /\ \A t \in Subs : subs'[t] = IF t = s THEN NewSub(o, given) ELSE subs[t]
  BY DEF Create, TypeOK, OwnedBy, Exists
<1>3. NewSub(o, given) \in Sub BY WebhookAssumption DEF NewSub, Sub, FailureCap
<1>4. NewSub(o, given) \notin {Never, Gone} /\ NewSub(o, given).owner = o
  BY <1>3, RowAssumption DEF NewSub
<1>5. OwnedBy(x)' = IF x = o THEN OwnedBy(x) \cup {s} ELSE OwnedBy(x)
  BY <1>2, <1>4 DEF OwnedBy, Exists
<1>6. IsFiniteSet(OwnedBy(x)) /\ Cardinality(OwnedBy(x)) \in Nat
  BY FS_CardinalityType DEF LimitInv, Counted
<1>7. /\ IsFiniteSet(OwnedBy(x)')
      /\ Cardinality(OwnedBy(x)') = IF x = o THEN Cardinality(OwnedBy(x)) + 1
                                            ELSE Cardinality(OwnedBy(x))
  BY <1>2, <1>5, <1>6, FS_AddElement
<1>8. Cardinality(OwnedBy(x)) + creating[x] < PerOwner + MaxCreating
  BY DEF LimitInv, Counted
<1>9. Cardinality(OwnedBy(x)') + creating'[x] < PerOwner + MaxCreating
  BY <1>1, <1>6, <1>7, <1>8
<1> QED BY <1>7, <1>9 DEF Counted

LEMMA CheckCounted ==
    ASSUME TypeOK, LimitInv, NEW o \in Owners, CheckLimit(o), NEW x \in Owners
    PROVE  Counted(x)'
<1>1. OwnedBy(x)' = OwnedBy(x) BY DEF CheckLimit, OwnedBy, Exists
<1>2. IsFiniteSet(OwnedBy(x)) /\ Cardinality(OwnedBy(x)) \in Nat
  BY FS_CardinalityType DEF LimitInv, Counted
<1>3. CASE x = o
  <2>1. Cardinality(OwnedBy(x)) < PerOwner BY <1>3 DEF CheckLimit, BelowLimit
  <2>2. creating'[x] \in Nat /\ creating'[x] <= MaxCreating
    BY <1>3, WebhookAssumption DEF CheckLimit, TypeOK
  <2>3. Cardinality(OwnedBy(x)) + creating'[x] < PerOwner + MaxCreating
    BY <1>2, <2>1, <2>2, WebhookAssumption
  <2> QED BY <1>1, <1>2, <2>3 DEF Counted
<1>4. CASE x # o
  <2>1. creating'[x] = creating[x] BY <1>4 DEF CheckLimit, TypeOK
  <2> QED BY <1>1, <2>1 DEF LimitInv, Counted
<1> QED BY <1>3, <1>4

LEMMA LimitInductive ==
    ASSUME TypeOK, LimitInv, [Next]_vars
    PROVE  LimitInv'
<1> SUFFICES ASSUME NEW x \in Owners PROVE Counted(x)'
  BY DEF LimitInv
<1>1. Counted(x) /\ OthersTyped BY StepOthers DEF LimitInv
<1>2. creating[x] \in Nat BY DEF TypeOK
<1>3. ASSUME UNCHANGED subs, creating'[x] <= creating[x] PROVE Counted(x)'
  <2>1. RowsKept BY <1>3 DEF RowsKept, Exists
  <2> QED BY <1>1, <1>3, <2>1, FewerCounted
<1>4. CASE Publish \/ FanOut \/ FanOutFails \/ UNCHANGED vars
  BY <1>2, <1>3, <1>4 DEF Publish, FanOut, FanOutFails, vars
<1>5. CASE Restart BY <1>2, <1>3, <1>5 DEF Restart
<1>6. ASSUME NEW o \in Owners, CreateFails(o) PROVE Counted(x)'
  <2>1. creating'[x] <= creating[x] BY <1>2, <1>6 DEF CreateFails, TypeOK
  <2> QED BY <1>3, <1>6, <2>1 DEF CreateFails
<1>7. ASSUME NEW s \in Subs, LoseRecord(s) PROVE Counted(x)'
  BY <1>2, <1>3, <1>7 DEF LoseRecord
<1>8. ASSUME NEW s \in Subs, Delete(s) PROVE Counted(x)'
  <2>1. RowsKept BY <1>8 DEF Delete, RowsKept, Exists, TypeOK
  <2>2. creating' = creating BY <1>8 DEF Delete
  <2> QED BY <1>1, <1>2, <2>1, <2>2, FewerCounted
<1>9. ASSUME NEW s \in Subs, NEW success \in BOOLEAN, Deliver(s, success)
      PROVE  Counted(x)'
  <2>1. creating' = creating BY <1>9 DEF Deliver
  <2> QED BY <1>1, <1>2, <1>9, <2>1, DeliverKeeps, FewerCounted
<1>10. ASSUME NEW s \in Subs, NEW o \in Owners, NEW given \in Refs, Create(s, o, given)
       PROVE  Counted(x)'
  BY <1>10, CreateCounted
<1>11. ASSUME NEW o \in Owners, CheckLimit(o) PROVE Counted(x)' BY <1>11, CheckCounted
<1> QED BY <1>4, <1>5, <1>6, <1>7, <1>8, <1>9, <1>10, <1>11, Zenon DEF Next

LEMMA LimitInitially == Init => LimitInv
<1> SUFFICES ASSUME Init, NEW o \in Owners PROVE Counted(o)
  BY DEF LimitInv
<1>1. OwnedBy(o) = {} BY DEF Init, OwnedBy, Exists
<1>2. creating[o] = 0 BY DEF Init
<1>3. IsFiniteSet(OwnedBy(o)) /\ Cardinality(OwnedBy(o)) = 0 BY <1>1, FS_EmptySet
<1> QED BY <1>2, <1>3, WebhookAssumption DEF Counted

(* An account has fewer subscriptions than the limit and the requests that *)
(* may be past CreateSubscription's check at once: counting before the     *)
(* insert costs one row for each request that overtakes it, no more,       *)
(* however often the account creates and deletes.                          *)
THEOREM LimitOvertakenOnce == Spec => []OvershootBounded
<1>1. LimitInv => OvershootBounded BY DEF LimitInv, Counted, OvershootBounded
<1>2. TypeOK /\ LimitInv /\ [Next]_vars => LimitInv' BY LimitInductive
<1> QED BY LimitInitially, <1>1, <1>2, TypeCorrect, PTL DEF Spec

-----------------------------------------------------------------------------
(* Advisories                                                              *)

LEMMA PendingTyped == AdvisoryTypeOK => Pending \subseteq Advisories
  BY DEF Pending, New, AdvisoryTypeOK, RefreshRecord

LEMMA TypeInductive == AdvisoryTypeOK /\ [AdvisoryNext]_advisoryVars => AdvisoryTypeOK'
  <1> SUFFICES ASSUME AdvisoryTypeOK, [AdvisoryNext]_advisoryVars PROVE AdvisoryTypeOK'
    OBVIOUS
  <1>0. Idle \in RefreshRecord
    BY DEF Idle, RefreshRecord
  <1>1. CASE UNCHANGED advisoryVars
    BY <1>1 DEF advisoryVars, AdvisoryTypeOK
  <1>2. ASSUME NEW a \in Advisories, PublishAdvisory(a) PROVE AdvisoryTypeOK'
    BY <1>2 DEF PublishAdvisory, AdvisoryTypeOK
  <1>3. CASE RefreshesEnd
    <2>1. Pending \subseteq Advisories
      BY PendingTyped
    <2> QED
      BY <1>0, <1>3, <2>1 DEF RefreshesEnd, AdvisoryTypeOK
  <1>4. ASSUME NEW r \in Refreshes, Step(r) PROVE AdvisoryTypeOK'
    <2>0. ref[r] \in RefreshRecord
      BY DEF AdvisoryTypeOK
    <2>1. CASE \E rec \in RefreshRecord :
                  /\ ref' = [ref EXCEPT ![r] = rec]
                  /\ UNCHANGED <<published, stored, announced, lost>>
      BY <2>1 DEF AdvisoryTypeOK
    <2>2. CASE StartEndpoint(r)
      <3>1. Seen([Idle EXCEPT !.phase = "fetch", !.kind = "endpoint"]) \in RefreshRecord
        BY DEF Seen, Idle, RefreshRecord, AdvisoryTypeOK
      <3> QED
        BY <2>1, <2>2, <3>1 DEF StartEndpoint
    <2>3. CASE StartBackground(r)
      <3>1. [Idle EXCEPT !.phase = "fetch"] \in RefreshRecord
        BY DEF Idle, RefreshRecord
      <3> QED
        BY <2>1, <2>3, <3>1 DEF StartBackground
    <2>4. CASE Fetch(r) \/ FetchRefused(r)
      <3>1. PICK list \in SUBSET Advisories : Received(r, list)
        BY <2>4 DEF Fetch, FetchRefused, AdvisoryTypeOK
      <3> DEFINE rec == [ref[r] EXCEPT
                    !.phase = IF ref[r].kind = "endpoint" THEN "store" ELSE "read",
                    !.fetched = list]
      <3>2. rec \in RefreshRecord
        BY <2>0 DEF RefreshRecord
      <3>3. ref' = [ref EXCEPT ![r] = rec]
        BY <3>1 DEF Received
      <3> QED
        BY <2>1, <3>1, <3>2, <3>3 DEF Received
    <2>5. CASE GiveUp(r)
      BY <1>0, <2>1, <2>5 DEF GiveUp
    <2>6. CASE Read(r)
      <3>1. [Seen(ref[r]) EXCEPT !.phase = "store"] \in RefreshRecord
        BY <2>0 DEF Seen, RefreshRecord, AdvisoryTypeOK
      <3> QED
        BY <2>1, <2>6, <3>1 DEF Read
    <2>7. CASE ReadFails(r)
      <3>1. [ref[r] EXCEPT !.phase = "store"] \in RefreshRecord
        BY <2>0 DEF RefreshRecord
      <3> QED
        BY <2>1, <2>7, <3>1 DEF ReadFails
    <2>8. CASE Store(r)
      <3>1. [ref[r] EXCEPT !.phase = "announce"] \in RefreshRecord
        BY <2>0 DEF RefreshRecord
      <3>2. ref[r].fetched \subseteq Advisories
        BY <2>0 DEF RefreshRecord
      <3> QED
        BY <2>8, <3>1, <3>2 DEF Store, AdvisoryTypeOK
    <2>9. CASE Announce(r)
      <3>1. New(r) \subseteq Advisories
        BY <2>0 DEF New, RefreshRecord
      <3> QED
        BY <1>0, <2>9, <3>1 DEF Announce, AdvisoryTypeOK
    <2> QED
      BY <1>4, <2>2, <2>3, <2>4, <2>5, <2>6, <2>7, <2>8, <2>9 DEF Step
  <1> QED
    BY <1>1, <1>2, <1>3, <1>4 DEF AdvisoryNext

(* Every behaviour keeps the types of AdvisoryRefresh!AdvisoryTypeOK, with faults  *)
(* and restarts of every kind.                                             *)
THEOREM AdvisoryTypeCorrect == AdvisorySpec => []AdvisoryTypeOK
  <1>1. AdvisoryInit => AdvisoryTypeOK
    BY AdvisoryAssumption DEF AdvisoryInit, AdvisoryTypeOK, Idle, RefreshRecord
  <1> QED
    BY <1>1, TypeInductive, PTL DEF AdvisorySpec

-----------------------------------------------------------------------------
(* About to be announced by r, and accounted for.                          *)
AboutTo(r, a) == ref[r].phase = "announce" /\ a \in New(r)

Accounted(a) == \/ a \in announced \/ a \in lost
                \/ \E r \in Refreshes : AboutTo(r, a)

AccountedInv ==
    /\ AdvisoryTypeOK
    /\ \A a \in stored : Accounted(a)
    /\ \A r \in Refreshes : \A a \in ref[r].before : Accounted(a)

LEMMA PendingMeansAboutTo ==
    ASSUME NEW a
    PROVE  a \in Pending <=> \E r \in Refreshes : AboutTo(r, a)
  BY DEF Pending, AboutTo, At

LEMMA AccountedStays ==
    ASSUME AdvisoryTypeOK, AdvisoryNext, NEW a, Accounted(a)
    PROVE  Accounted(a)'
  <1>1. ASSUME NEW b \in Advisories, PublishAdvisory(b) PROVE Accounted(a)'
    BY <1>1 DEF PublishAdvisory, Accounted, AboutTo, New
  <1>2. ASSUME NEW r \in Refreshes, Step(r), ~Announce(r) PROVE Accounted(a)'
    <2>1. /\ announced' = announced /\ lost' = lost
          /\ ref[r].phase # "announce"
      BY <1>2 DEF Step, StartEndpoint, StartBackground, Fetch, FetchRefused,
                  Received, GiveUp, Read, ReadFails, Store, At
    <2>2. \A s \in Refreshes \ {r} : ref'[s] = ref[s]
      BY <1>2 DEF Step, StartEndpoint, StartBackground, Fetch, FetchRefused,
                  Received, GiveUp, Read, ReadFails, Store, AdvisoryTypeOK
    <2> QED
      BY <2>1, <2>2 DEF Accounted, AboutTo, New
  <1>3. ASSUME NEW r \in Refreshes, Announce(r) PROVE Accounted(a)'
    <2>1. \A s \in Refreshes \ {r} : ref'[s] = ref[s]
      BY <1>3 DEF Announce, AdvisoryTypeOK
    <2>2. AboutTo(r, a) => a \in announced' \/ a \in lost'
      BY <1>3 DEF Announce, AboutTo
    <2>3. announced \subseteq announced' /\ lost \subseteq lost'
      BY <1>3 DEF Announce
    <2> QED
      BY <2>1, <2>2, <2>3 DEF Accounted, AboutTo, New
  <1>4. CASE RefreshesEnd
    BY <1>4, PendingMeansAboutTo DEF RefreshesEnd, Accounted
  <1> QED
    BY <1>1, <1>2, <1>3, <1>4 DEF AdvisoryNext

(* The readings a step leaves in r are of what was stored, or of nothing,  *)
(* or are those that r had.                                                *)
LEMMA Readings ==
    ASSUME AdvisoryTypeOK, NEW r \in Refreshes, Step(r)
    PROVE  /\ \A s \in Refreshes \ {r} : ref'[s] = ref[s]
           /\ ref'[r].before \in {stored, {}, ref[r].before}
  <1>0. ref[r] \in RefreshRecord /\ DOMAIN ref = Refreshes
    BY DEF AdvisoryTypeOK
  <1>1. CASE StartEndpoint(r)
    BY <1>0, <1>1 DEF StartEndpoint, Seen, Idle
  <1>2. CASE StartBackground(r) \/ GiveUp(r) \/ Announce(r)
    BY <1>0, <1>2 DEF StartBackground, GiveUp, Announce, Idle
  <1>3. CASE Fetch(r) \/ FetchRefused(r)
    <2>1. PICK list : Received(r, list)
      BY <1>3 DEF Fetch, FetchRefused
    <2> DEFINE phase == IF ref[r].kind = "endpoint" THEN "store" ELSE "read"
    <2>2. ref' = [ref EXCEPT ![r] =
                      [ref[r] EXCEPT !.phase = phase, !.fetched = list]]
      BY <2>1 DEF Received
    <2>3. ref'[r] = [ref[r] EXCEPT !.phase = phase, !.fetched = list]
      BY <1>0, <2>2
    <2> QED
      BY <1>0, <2>2, <2>3 DEF RefreshRecord
  <1>4. CASE Read(r)
    BY <1>0, <1>4 DEF Read, Seen, RefreshRecord
  <1>5. CASE ReadFails(r) \/ Store(r)
    BY <1>0, <1>5 DEF ReadFails, Store, RefreshRecord
  <1> QED
    BY <1>1, <1>2, <1>3, <1>4, <1>5 DEF Step

(* What a step adds to the stored list is accounted for.                   *)
LEMMA StoredAccounted ==
    ASSUME AccountedInv, AdvisoryNext, NEW a \in stored'
    PROVE  Accounted(a)'
  <1>1. CASE a \in stored
    BY <1>1, AccountedStays DEF AccountedInv
  <1>2. CASE a \notin stored
    <2>1. PICK r \in Refreshes : Store(r)
      BY <1>2 DEF AdvisoryNext, PublishAdvisory, RefreshesEnd, Step, StartEndpoint,
                  StartBackground, Fetch, FetchRefused, Received, GiveUp, Read, ReadFails, Announce
    <2>2. /\ a \in ref[r].fetched /\ ref[r] \in RefreshRecord
          /\ ref'[r] = [ref[r] EXCEPT !.phase = "announce"]
      BY <2>1 DEF Store, AccountedInv, AdvisoryTypeOK
    <2>3. CASE a \in ref[r].before
      BY <2>3, AccountedStays DEF AccountedInv
    <2>4. CASE a \notin ref[r].before
      <3>1. AboutTo(r, a)'
        BY <2>2, <2>4 DEF AboutTo, New, RefreshRecord
      <3> QED
        BY <3>1 DEF Accounted
    <2> QED
      BY <2>3, <2>4
  <1> QED
    BY <1>1, <1>2

LEMMA AccountedInductive == AccountedInv /\ [AdvisoryNext]_advisoryVars => AccountedInv'
  <1> SUFFICES ASSUME AccountedInv, [AdvisoryNext]_advisoryVars PROVE AccountedInv'
    OBVIOUS
  <1>0. AdvisoryTypeOK'
    BY TypeInductive DEF AccountedInv
  <1>1. CASE UNCHANGED advisoryVars
    BY <1>0, <1>1 DEF advisoryVars, AccountedInv, Accounted, AboutTo, New
  <1>2. CASE AdvisoryNext
    <2>1. ASSUME NEW s \in Refreshes, NEW a \in ref'[s].before
          PROVE  Accounted(a)'
      <3>1. CASE \E r \in Refreshes : Step(r)
        <4>1. a \in stored \/ a \in ref[s].before
          BY <2>1, <3>1, Readings DEF AccountedInv
        <4> QED
          BY <1>2, <4>1, AccountedStays DEF AccountedInv
      <3>2. CASE RefreshesEnd
        BY <2>1, <3>2 DEF RefreshesEnd, Idle
      <3>3. ASSUME NEW b \in Advisories, PublishAdvisory(b) PROVE Accounted(a)'
        <4>1. a \in ref[s].before
          BY <2>1, <3>3 DEF PublishAdvisory
        <4> QED
          BY <1>2, <4>1, AccountedStays DEF AccountedInv
      <3> QED
        BY <1>2, <3>1, <3>2, <3>3 DEF AdvisoryNext
    <2> QED
      BY <1>0, <1>2, <2>1, StoredAccounted DEF AccountedInv
  <1> QED
    BY <1>1, <1>2

(* However many refreshes of either kind overlap, and whatever fails, no   *)
(* advisory gets into the stored list past notifyNewAdvisories, but those  *)
(* a plugin is created with                                                *)
(* (AdvisoryRefresh!NoAdvisoryMissed).                                     *)
THEOREM NothingMissed == AdvisorySpec => []NoAdvisoryMissed
  <1>1. AdvisoryInit => AccountedInv
    <2>1. AdvisoryInit => AdvisoryTypeOK
      BY DEF AdvisoryInit, AdvisoryTypeOK, RefreshRecord, Idle
    <2>2. ASSUME AdvisoryInit PROVE \A a \in stored : Accounted(a)
      BY <2>2 DEF AdvisoryInit, Accounted
    <2>3. ASSUME AdvisoryInit PROVE \A r \in Refreshes : ref[r].before = {}
      BY <2>3 DEF AdvisoryInit, Idle
    <2> QED
      BY <2>1, <2>2, <2>3 DEF AccountedInv
  <1>2. AccountedInv => NoAdvisoryMissed
    BY PendingMeansAboutTo DEF AccountedInv, NoAdvisoryMissed, Accounted
  <1> QED
    BY <1>1, <1>2, AccountedInductive, PTL DEF AdvisorySpec

-----------------------------------------------------------------------------
(* A refresh past its reading of the plugin knows where to send.           *)
HasRead(r) == \/ ref[r].phase \in {"store", "announce"}
              \/ ref[r].kind = "endpoint" /\ ref[r].phase # "idle"

AddressedInv == AdvisoryTypeOK /\ \A r \in Refreshes : HasRead(r) => ref[r].addressed

LEMMA AddressedStays ==
    ASSUME "read" \notin Faults, AddressedInv, NEW r \in Refreshes, Step(r), HasRead(r)'
    PROVE  ref'[r].addressed
  <1>0. ref[r] \in RefreshRecord /\ DOMAIN ref = Refreshes
    BY DEF AddressedInv, AdvisoryTypeOK
  <1>1. CASE StartEndpoint(r)
    BY <1>0, <1>1 DEF StartEndpoint, Seen, Idle
  <1>2. CASE StartBackground(r) \/ GiveUp(r) \/ Announce(r)
    BY <1>0, <1>2 DEF StartBackground, GiveUp, Announce, Idle, HasRead
  <1>3. CASE Fetch(r) \/ FetchRefused(r)
    <2>1. PICK list : Received(r, list)
      BY <1>3 DEF Fetch, FetchRefused
    <2> DEFINE phase == IF ref[r].kind = "endpoint" THEN "store" ELSE "read"
    <2>2. ref'[r] = [ref[r] EXCEPT !.phase = phase, !.fetched = list]
      BY <1>0, <2>1 DEF Received
    <2>3. /\ ref'[r].addressed = ref[r].addressed
          /\ ref'[r].kind = ref[r].kind /\ ref'[r].phase = phase
      BY <1>0, <2>2 DEF RefreshRecord
    <2>4. ref[r].phase = "fetch"
      BY <2>1 DEF Received, At
    <2> QED
      BY <2>3, <2>4 DEF HasRead, AddressedInv
  <1>4. CASE Read(r)
    BY <1>0, <1>4 DEF Read, Seen, RefreshRecord
  <1>5. CASE Store(r)
    BY <1>0, <1>5 DEF Store, At, HasRead, AddressedInv, RefreshRecord
  <1>6. ~ReadFails(r)
    BY DEF ReadFails
  <1> QED
    BY <1>1, <1>2, <1>3, <1>4, <1>5, <1>6 DEF Step

(* Only a restart or a failing reading of the plugin loses an              *)
(* announcement (triggerAdvisoryRefresh): with NothingMissed, a registry   *)
(* that has neither announces all it stores besides what the plugin was    *)
(* created with.                                                           *)
THEOREM NothingLost ==
    ASSUME Faults \subseteq {"refused"}
    PROVE  AdvisorySpec => [][UNCHANGED lost]_advisoryVars
  <1>1. AdvisoryInit => AddressedInv
    <2>1. AdvisoryInit => AdvisoryTypeOK
      BY DEF AdvisoryInit, AdvisoryTypeOK, RefreshRecord, Idle
    <2> QED
      BY <2>1 DEF AdvisoryInit, AddressedInv, Idle, HasRead
  <1>2. AddressedInv /\ [AdvisoryNext]_advisoryVars
            => AddressedInv' /\ [UNCHANGED lost]_advisoryVars
    <2> SUFFICES ASSUME AddressedInv, [AdvisoryNext]_advisoryVars
                 PROVE  AddressedInv' /\ lost' = lost
      OBVIOUS
    <2>0. AdvisoryTypeOK'
      BY TypeInductive DEF AddressedInv
    <2>1. CASE UNCHANGED advisoryVars
      BY <2>0, <2>1 DEF advisoryVars, AddressedInv, HasRead
    <2>2. ASSUME NEW b \in Advisories, PublishAdvisory(b) PROVE AddressedInv' /\ lost' = lost
      BY <2>0, <2>2 DEF PublishAdvisory, AddressedInv, HasRead
    <2>3. ASSUME NEW r \in Refreshes, Step(r) PROVE AddressedInv' /\ lost' = lost
      <3>1. \A s \in Refreshes \ {r} : ref'[s] = ref[s]
        BY <2>3, Readings DEF AddressedInv
      <3>2. HasRead(r)' => ref'[r].addressed
        BY <2>3, AddressedStays
      <3>3. AddressedInv'
        BY <2>0, <3>1, <3>2 DEF AddressedInv, HasRead
      <3>4. lost' = lost
        BY <2>3 DEF Step, StartEndpoint, StartBackground, Fetch, FetchRefused,
                    Received, GiveUp, Read, ReadFails, Store, Announce, At,
                    HasRead, AddressedInv
      <3> QED
        BY <3>3, <3>4
    <2>4. ~RefreshesEnd
      BY DEF RefreshesEnd
    <2> QED
      BY <2>1, <2>2, <2>3, <2>4 DEF AdvisoryNext
  <1> QED
    BY <1>1, <1>2, PTL DEF AdvisorySpec

-----------------------------------------------------------------------------
(* Versions and ranges                                                     *)

(* The reference order on sequences of keys, entry by entry.               *)
Pairs == Nat \X Nat

Agree(k, l, n) == \A i \in 1 .. n : k[i] = l[i]

Before(k, l) ==
    \E n \in 0 .. Len(k) :
        /\ n < Len(l) /\ Agree(k, l, n)
        /\ n < Len(k) => KeyLess(k[n + 1], l[n + 1])

(* A nonempty set of numbers has a least one, which Min chooses.           *)
LEMMA LeastNumber ==
    ASSUME NEW S, S \subseteq Nat, S # {}
    PROVE  Min(S) \in S /\ \A y \in S : Min(S) <= y
<1> DEFINE R == OpToRel(<, Nat)
<1>1. \E x \in S : \A y \in S : <<y, x>> \notin R
  <2> HIDE DEF R
  <2> QED BY NatLessThanWellFounded, WFMin DEF R
<1>2. \E x \in S : \A y \in S : x <= y
  <2>1. PICK x \in S : \A y \in S : <<y, x>> \notin R BY <1>1
  <2>2. ASSUME NEW y \in S PROVE x <= y
    <3>1. ~(y < x) BY <2>1 DEF OpToRel
    <3> QED BY <3>1
  <2> QED BY <2>2
<1> QED BY <1>2 DEF Min

LEMMA AgreeBothWays ==
    ASSUME NEW k, NEW l, NEW n, Agree(k, l, n)
    PROVE  Agree(l, k, n)
BY DEF Agree

LEMMA PrefixAgree ==
    ASSUME NEW S, NEW k \in Seq(S), NEW l \in Seq(S), NEW n \in Nat,
           n <= Len(k), n <= Len(l)
    PROVE  SubSeq(k, 1, n) = SubSeq(l, 1, n) <=> Agree(k, l, n)
<1>0. /\ \A i \in 1 .. n : k[i] \in S
      /\ \A i \in 1 .. n : l[i] \in S
  BY ElementOfSeq
<1>1. /\ SubSeq(k, 1, n) \in Seq(S) /\ Len(SubSeq(k, 1, n)) = n
      /\ \A i \in 1 .. n : SubSeq(k, 1, n)[i] = k[i]
  BY <1>0, SubSeqProperties
<1>2. /\ SubSeq(l, 1, n) \in Seq(S) /\ Len(SubSeq(l, 1, n)) = n
      /\ \A i \in 1 .. n : SubSeq(l, 1, n)[i] = l[i]
  BY <1>0, SubSeqProperties
<1>3. ASSUME Agree(k, l, n) PROVE SubSeq(k, 1, n) = SubSeq(l, 1, n)
  BY <1>1, <1>2, <1>3, SeqEqual DEF Agree
<1>4. ASSUME SubSeq(k, 1, n) = SubSeq(l, 1, n) PROVE Agree(k, l, n)
  BY <1>1, <1>2, <1>4 DEF Agree
<1> QED BY <1>3, <1>4

(* The keys of a version: the three numbers, and one for each identifier   *)
(* or the one of a release.                                                *)
LEMMA KeyPairs ==
    ASSUME NEW x \in Identifiers
    PROVE  Key(x) \in Pairs
BY SemverAssumption DEF Key, Pairs, NotNumber

LEMMA Appended ==
    ASSUME NEW s \in Seq(Pairs), Len(s) = 3, NEW e \in Seq(Pairs)
    PROVE  /\ s \o e \in Seq(Pairs) /\ Len(s \o e) = 3 + Len(e)
           /\ (s \o e)[1] = s[1] /\ (s \o e)[2] = s[2] /\ (s \o e)[3] = s[3]
           /\ \A i \in 1 .. Len(e) : (s \o e)[3 + i] = e[i]
<1>1. /\ s \o e \in Seq(Pairs) /\ Len(s \o e) = Len(s) + Len(e)
      /\ \A i \in 1 .. Len(s) + Len(e) :
            (s \o e)[i] = IF i <= Len(s) THEN s[i] ELSE e[i - Len(s)]
  BY ConcatProperties
<1>2. Len(e) \in Nat BY LenProperties
<1>3. ASSUME NEW i \in 1 .. Len(e) PROVE (s \o e)[3 + i] = e[i]
  <2>1. 3 + i \in 1 .. Len(s) + Len(e) /\ ~(3 + i <= Len(s)) /\ (3 + i) - Len(s) = i
    BY <1>2
  <2> QED BY <1>1, <2>1
<1> QED BY <1>1, <1>2, <1>3

LEMMA KeysOf ==
    ASSUME NEW v \in Semvers
    PROVE  /\ Keys(v) \in Seq(Pairs)
           /\ Keys(v)[1] = <<0, v.major>>
           /\ Keys(v)[2] = <<0, v.minor>>
           /\ Keys(v)[3] = <<0, v.patch>>
           /\ v.pre = <<>> => Len(Keys(v)) = 4 /\ Keys(v)[4] = <<3, 0>>
           /\ v.pre # <<>> => /\ Len(Keys(v)) = 3 + Len(v.pre)
                              /\ \A i \in 1 .. Len(v.pre) : Keys(v)[3 + i] = Key(v.pre[i])
           /\ v.pre \in Seq(Identifiers)
           /\ v.pre # <<>> => Len(v.pre) > 0
           /\ v.major \in Nat /\ v.minor \in Nat /\ v.patch \in Nat
<1> DEFINE s == << <<0, v.major>>, <<0, v.minor>>, <<0, v.patch>> >>
           e == IF v.pre = <<>> THEN << <<3, 0>> >>
                ELSE [i \in DOMAIN v.pre |-> Key(v.pre[i])]
<1>1. v.pre \in Seq(Identifiers) /\ v.major \in Nat /\ v.minor \in Nat /\ v.patch \in Nat
  BY SemverAssumption DEF Semvers
<1>2. s \in Seq(Pairs) /\ Len(s) = 3
      /\ s[1] = <<0, v.major>> /\ s[2] = <<0, v.minor>> /\ s[3] = <<0, v.patch>>
  BY <1>1 DEF Pairs
<1>3. Keys(v) = s \o e BY DEF Keys
<1>4. CASE v.pre = <<>>
  <2>1. << <<3, 0>> >> \in Seq(Pairs)
    BY DEF Pairs
  <2>2. Len(<< <<3, 0>> >>) = 1 /\ << <<3, 0>> >>[1] = <<3, 0>>
    OBVIOUS
  <2>3. e \in Seq(Pairs) /\ Len(e) = 1 /\ e[1] = <<3, 0>> BY <1>4, <2>1, <2>2
  <2> HIDE DEF s, e
  <2>4. /\ Keys(v) \in Seq(Pairs) /\ Len(Keys(v)) = 3 + Len(e)
        /\ Keys(v)[1] = s[1] /\ Keys(v)[2] = s[2] /\ Keys(v)[3] = s[3]
        /\ \A i \in 1 .. Len(e) : Keys(v)[3 + i] = e[i]
    <3>1. s \in Seq(Pairs) /\ Len(s) = 3 /\ e \in Seq(Pairs) BY <1>2, <2>3
    <3> QED BY <1>3, <3>1, Appended
  <2>5. Len(e) = 1 /\ 1 \in 1 .. Len(e) BY <2>3
  <2>6. Keys(v)[4] = e[1] BY <2>4, <2>5
  <2> QED BY <1>1, <1>2, <1>4, <2>3, <2>4, <2>6
<1>5. CASE v.pre # <<>>
  <2>0. Len(v.pre) \in Nat /\ Len(v.pre) > 0 /\ DOMAIN v.pre = 1 .. Len(v.pre)
    BY <1>1, <1>5, EmptySeq, LenProperties
  <2>1. e = [i \in 1 .. Len(v.pre) |-> Key(v.pre[i])] BY <1>5, <2>0
  <2>2. \A i \in 1 .. Len(v.pre) : Key(v.pre[i]) \in Pairs
    BY <1>1, ElementOfSeq, KeyPairs
  <2>3. e \in Seq(Pairs) /\ Len(e) = Len(v.pre)
        /\ \A i \in 1 .. Len(v.pre) : e[i] = Key(v.pre[i])
    BY <2>0, <2>1, <2>2
  <2> HIDE DEF s, e
  <2>4. /\ Keys(v) \in Seq(Pairs) /\ Len(Keys(v)) = 3 + Len(e)
        /\ Keys(v)[1] = s[1] /\ Keys(v)[2] = s[2] /\ Keys(v)[3] = s[3]
        /\ \A i \in 1 .. Len(e) : Keys(v)[3 + i] = e[i]
    BY <1>2, <1>3, <2>3, Appended
  <2> QED BY <1>1, <1>2, <1>5, <2>0, <2>3, <2>4
<1> QED BY <1>4, <1>5

LEMMA KeysLonger ==
    ASSUME NEW v \in Semvers
    PROVE  Len(Keys(v)) \in Nat /\ Len(Keys(v)) > 3
<1>1. CASE v.pre = <<>>
  <2>1. Len(Keys(v)) = 4 BY <1>1, KeysOf
  <2> QED BY <2>1
<1>2. CASE v.pre # <<>>
  <2>1. Len(Keys(v)) = 3 + Len(v.pre) /\ Len(v.pre) > 0 /\ v.pre \in Seq(Identifiers)
    BY <1>2, KeysOf
  <2>2. Len(v.pre) \in Nat BY <2>1, LenProperties
  <2> QED BY <2>1, <2>2
<1> QED BY <1>1, <1>2

LEMMA PrecedesByEntry ==
    ASSUME NEW a \in Semvers, NEW b \in Semvers
    PROVE  Precedes(a, b) <=> Before(Keys(a), Keys(b))
<1> DEFINE k == Keys(a)
           l == Keys(b)
<1>1. k \in Seq(Pairs) /\ l \in Seq(Pairs) BY KeysOf
<1>2. \A n \in 0 .. Len(k) : n < Len(l) =>
         (SubSeq(k, 1, n) = SubSeq(l, 1, n) <=> Agree(k, l, n))
  <2> HIDE DEF k, l
  <2>1. Len(k) \in Nat /\ Len(l) \in Nat BY <1>1, LenProperties
  <2> QED BY <1>1, <2>1, PrefixAgree
<1>3. Precedes(a, b) <=> \E n \in 0 .. Len(k) :
          /\ n < Len(l) /\ SubSeq(k, 1, n) = SubSeq(l, 1, n)
          /\ n < Len(k) => KeyLess(k[n + 1], l[n + 1])
  BY DEF Precedes
<1> HIDE DEF k, l
<1>4. Before(k, l) <=> \E n \in 0 .. Len(k) :
          /\ n < Len(l) /\ Agree(k, l, n)
          /\ n < Len(k) => KeyLess(k[n + 1], l[n + 1])
  BY DEF Before
<1> QED BY <1>2, <1>3, <1>4 DEF k, l

LEMMA KeysOrdered ==
    ASSUME NEW x \in Pairs, NEW y \in Pairs, KeyLess(x, y)
    PROVE  ~KeyLess(y, x) /\ x # y
<1>1. x[1] \in Nat /\ x[2] \in Nat /\ y[1] \in Nat /\ y[2] \in Nat BY DEF Pairs
<1>2. x[1] < y[1] \/ (x[1] = y[1] /\ x[2] < y[2]) BY DEF KeyLess
<1>3. ~KeyLess(y, x) BY <1>1, <1>2 DEF KeyLess
<1>4. x # y
  <2>1. x[1] # y[1] \/ x[2] # y[2] BY <1>1, <1>2
  <2> QED BY <2>1
<1> QED BY <1>3, <1>4

(* The first entries that differ decide.                                   *)
LEMMA Decided ==
    ASSUME NEW k \in Seq(Pairs), NEW l \in Seq(Pairs), NEW n \in Nat,
           n < Len(k), n < Len(l), Agree(k, l, n), KeyLess(k[n + 1], l[n + 1])
    PROVE  Before(k, l) /\ ~Before(l, k)
<1>0. Len(k) \in Nat /\ Len(l) \in Nat BY LenProperties
<1>1. Before(k, l) BY <1>0 DEF Before
<1>2. k[n + 1] \in Pairs /\ l[n + 1] \in Pairs BY <1>0, ElementOfSeq
<1>3. ASSUME Before(l, k) PROVE FALSE
  <2>1. PICK m \in 0 .. Len(l) :
            /\ m < Len(k) /\ Agree(l, k, m)
            /\ m < Len(l) => KeyLess(l[m + 1], k[m + 1])
    BY <1>3 DEF Before
  <2>2. CASE m < n
    <3>1. m + 1 \in 1 .. n BY <2>2, <1>0
    <3>2. k[m + 1] = l[m + 1] BY <3>1 DEF Agree
    <3>3. KeyLess(l[m + 1], k[m + 1]) BY <2>1, <2>2, <1>0
    <3>4. k[m + 1] \in Pairs BY <1>0, <2>1, ElementOfSeq
    <3> QED BY <3>2, <3>3, <3>4, KeysOrdered
  <2>3. CASE m = n
    BY <2>1, <2>3, <1>2, KeysOrdered
  <2>4. CASE m > n
    <3>1. n + 1 \in 1 .. m BY <2>4, <1>0
    <3>2. l[n + 1] = k[n + 1] BY <3>1, <2>1 DEF Agree
    <3> QED BY <3>2, <1>2, KeysOrdered
  <2> QED BY <2>2, <2>3, <2>4, <1>0
<1> QED BY <1>1, <1>3

(* Of two sequences that agree, the shorter comes first.                   *)
LEMMA Prefixed ==
    ASSUME NEW k \in Seq(Pairs), NEW l \in Seq(Pairs),
           Len(k) <= Len(l), Agree(k, l, Len(k))
    PROVE  (Before(k, l) <=> Len(k) < Len(l)) /\ ~Before(l, k)
<1>0. Len(k) \in Nat /\ Len(l) \in Nat BY LenProperties
<1>1. \A i \in 1 .. Len(k) : k[i] = l[i] /\ k[i] \in Pairs
  BY ElementOfSeq DEF Agree
<1>2. \A i \in 1 .. Len(k) : ~KeyLess(k[i], l[i]) /\ ~KeyLess(l[i], k[i])
  BY <1>1, KeysOrdered
<1>3. ASSUME Len(k) < Len(l) PROVE Before(k, l) BY <1>0, <1>3 DEF Before
<1>4. ASSUME Before(k, l) PROVE Len(k) < Len(l)
  <2>1. PICK m \in 0 .. Len(k) : m < Len(l) /\ (m < Len(k) => KeyLess(k[m + 1], l[m + 1]))
    BY <1>4 DEF Before
  <2> QED BY <1>0, <1>2, <2>1
<1>5. ASSUME Before(l, k) PROVE FALSE
  <2>1. PICK m \in 0 .. Len(l) : m < Len(k) /\ (m < Len(l) => KeyLess(l[m + 1], k[m + 1]))
    BY <1>5 DEF Before
  <2> QED BY <1>0, <1>2, <2>1
<1> QED BY <1>3, <1>4, <1>5

(* The prereleases of two versions with the same numbers.                  *)
LEMMA IdentifiersCompared ==
    ASSUME NEW x \in Identifiers, NEW y \in Identifiers, x # y
    PROVE  \/ CompareIdentifiers(x, y) = -1 /\ KeyLess(Key(x), Key(y))
           \/ CompareIdentifiers(x, y) = 1 /\ KeyLess(Key(y), Key(x))
<1>1. /\ x \in [num : Nat \cup {NotNumber}, text : Nat]
      /\ y \in [num : Nat \cup {NotNumber}, text : Nat]
      /\ x.num = y.num /\ x.num # NotNumber => x = y
  BY SemverAssumption
<1>2. x.num = y.num /\ x.text = y.text => x = y BY <1>1
<1>3. CASE x.num # NotNumber /\ y.num # NotNumber
  BY <1>1, <1>3 DEF CompareIdentifiers, KeyLess, Key, NotNumber
<1>4. CASE x.num # NotNumber /\ y.num = NotNumber
  BY <1>1, <1>4 DEF CompareIdentifiers, KeyLess, Key, NotNumber
<1>5. CASE x.num = NotNumber /\ y.num # NotNumber
  BY <1>1, <1>5 DEF CompareIdentifiers, KeyLess, Key, NotNumber
<1>6. CASE x.num = NotNumber /\ y.num = NotNumber
  BY <1>1, <1>2, <1>6 DEF CompareIdentifiers, KeyLess, Key, NotNumber
<1> QED BY <1>3, <1>4, <1>5, <1>6

(* A prerelease comes before the release of the same numbers.              *)
LEMMA ReleaseLast ==
    ASSUME NEW a \in Semvers, NEW b \in Semvers, a.pre # <<>>, b.pre = <<>>
    PROVE  KeyLess(Keys(a)[4], Keys(b)[4])
<1>1. Keys(b)[4] = <<3, 0>> BY KeysOf
<1>2. /\ \A i \in 1 .. Len(a.pre) : Keys(a)[3 + i] = Key(a.pre[i])
      /\ a.pre \in Seq(Identifiers) /\ Len(a.pre) > 0
  BY KeysOf
<1>3. Len(a.pre) \in Nat BY <1>2, LenProperties
<1>4. 1 \in 1 .. Len(a.pre) /\ 3 + 1 = 4 BY <1>2, <1>3
<1>5. Keys(a)[4] = Key(a.pre[1]) BY <1>2, <1>4
<1>6. a.pre[1] \in Identifiers BY <1>2, <1>4, ElementOfSeq
<1>7. a.pre[1].num \in Int /\ a.pre[1].text \in Nat
  BY <1>6, SemverAssumption DEF NotNumber
<1> QED BY <1>1, <1>5, <1>7 DEF KeyLess, Key

(* What CompareVersions should return.                                     *)
Verdict(a, b) ==
    IF Before(Keys(a), Keys(b)) THEN -1 ELSE IF Before(Keys(b), Keys(a)) THEN 1 ELSE 0

LEMMA PrereleasesCompared ==
    ASSUME NEW a \in Semvers, NEW b \in Semvers, a.pre # <<>>, b.pre # <<>>,
           Agree(Keys(a), Keys(b), 3)
    PROVE  ComparePrerelease(a.pre, b.pre) = Verdict(a, b)
<1> DEFINE k == Keys(a)
           l == Keys(b)
           p == a.pre
           q == b.pre
           differ == {i \in DOMAIN p \cap DOMAIN q : p[i] # q[i]}
<1>1. /\ k \in Seq(Pairs) /\ l \in Seq(Pairs)
      /\ Len(k) = 3 + Len(p) /\ Len(l) = 3 + Len(q)
      /\ \A i \in 1 .. Len(p) : k[3 + i] = Key(p[i])
      /\ \A i \in 1 .. Len(q) : l[3 + i] = Key(q[i])
      /\ p \in Seq(Identifiers) /\ q \in Seq(Identifiers)
  BY KeysOf
<1>2. /\ Len(p) \in Nat /\ Len(q) \in Nat
      /\ DOMAIN p = 1 .. Len(p) /\ DOMAIN q = 1 .. Len(q)
  BY <1>1, LenProperties
<1>3. \A i \in 1 .. 3 : k[i] = l[i] BY DEF Agree
<1>4. ComparePrerelease(p, q) = IF differ = {} THEN Sign(Len(p) - Len(q))
                                ELSE CompareIdentifiers(p[Min(differ)], q[Min(differ)])
  BY DEF ComparePrerelease
<1>5. Verdict(a, b) = IF Before(k, l) THEN -1 ELSE IF Before(l, k) THEN 1 ELSE 0
  BY DEF Verdict
<1> SUFFICES ComparePrerelease(p, q) = Verdict(a, b)
  OBVIOUS
<1> HIDE DEF k, l, p, q
<1>6. CASE differ = {}
  <2>1. \A i \in 1 .. Len(p) : i <= Len(q) => p[i] = q[i] BY <1>2, <1>6
  <2>2. ASSUME NEW j \in Nat, j <= 3 + Len(p), j <= 3 + Len(q) PROVE Agree(k, l, j)
    <3>1. ASSUME NEW i \in 1 .. j, i > 3 PROVE k[i] = l[i]
      <4>1. i - 3 \in 1 .. Len(p) /\ i - 3 \in 1 .. Len(q) /\ 3 + (i - 3) = i
        BY <1>2, <2>2, <3>1
      <4>2. k[i] = Key(p[i - 3]) /\ l[i] = Key(q[i - 3]) BY <1>1, <4>1
      <4>3. p[i - 3] = q[i - 3] BY <2>1, <4>1, <1>2
      <4> QED BY <4>2, <4>3
    <3>2. ASSUME NEW i \in 1 .. j, ~(i > 3) PROVE k[i] = l[i]
      <4>1. i \in 1 .. 3 BY <3>2
      <4> QED BY <4>1, <1>3
    <3> QED BY <3>1, <3>2 DEF Agree
  <2>3. CASE Len(p) <= Len(q)
    <3>1. Agree(k, l, Len(k)) /\ Len(k) <= Len(l) BY <1>1, <1>2, <2>2, <2>3
    <3>2. (Before(k, l) <=> Len(k) < Len(l)) /\ ~Before(l, k)
      BY <3>1, <1>1, Prefixed
    <3> QED BY <3>2, <1>1, <1>2, <1>4, <1>5, <1>6, <2>3 DEF Sign
  <2>4. CASE Len(q) < Len(p)
    <3>0. Agree(k, l, Len(l)) /\ Len(l) <= Len(k) BY <1>1, <1>2, <2>2, <2>4
    <3>1. Agree(l, k, Len(l)) /\ Len(l) <= Len(k) BY <3>0, AgreeBothWays
    <3>2. (Before(l, k) <=> Len(l) < Len(k)) /\ ~Before(k, l)
      BY <3>1, <1>1, Prefixed
    <3> QED BY <3>2, <1>1, <1>2, <1>4, <1>5, <1>6, <2>4 DEF Sign
  <2> QED BY <2>3, <2>4, <1>2
<1>7. CASE differ # {}
  <2> DEFINE i == Min(differ)
  <2>1. differ \subseteq Nat BY <1>2
  <2>2. i \in differ /\ \A j \in differ : i <= j
    <3> HIDE DEF differ
    <3> QED BY <1>7, <2>1, LeastNumber
  <2>3. /\ i \in 1 .. Len(p) /\ i \in 1 .. Len(q) /\ p[i] # q[i]
    BY <2>2, <1>2
  <2>4. \A j \in 1 .. Len(p) : j < i => p[j] = q[j]
    <3> SUFFICES ASSUME NEW j \in 1 .. Len(p), j < i PROVE p[j] = q[j]
      OBVIOUS
    <3>1. j \notin differ
      <4> SUFFICES ASSUME j \in differ PROVE FALSE
        OBVIOUS
      <4>1. i <= j BY <2>2
      <4>2. i \in Nat /\ j \in Nat BY <2>1, <2>2
      <4> HIDE DEF differ, i
      <4> QED BY <4>1, <4>2
    <3>2. j \in DOMAIN p \cap DOMAIN q BY <2>3, <1>2
    <3> QED BY <3>1, <3>2
  <2> HIDE DEF i
  <2>5. ASSUME NEW j \in 1 .. i + 2 PROVE k[j] = l[j]
    <3>1. CASE j <= 3 BY <3>1, <1>3
    <3>2. CASE j > 3
      <4>1. /\ j - 3 \in 1 .. Len(p) /\ j - 3 \in 1 .. Len(q) /\ j - 3 < i
            /\ 3 + (j - 3) = j
        BY <1>2, <2>3, <3>2
      <4>2. k[j] = Key(p[j - 3]) /\ l[j] = Key(q[j - 3]) BY <1>1, <4>1
      <4>3. p[j - 3] = q[j - 3] BY <2>4, <4>1
      <4> QED BY <4>2, <4>3
    <3> QED BY <3>1, <3>2, <2>3
  <2>6. Agree(k, l, i + 2) /\ Agree(l, k, i + 2) BY <2>5 DEF Agree
  <2>7. /\ i + 2 \in Nat /\ i + 2 < Len(k) /\ i + 2 < Len(l) /\ (i + 2) + 1 = 3 + i
    BY <1>1, <1>2, <2>3
  <2>8. k[(i + 2) + 1] = Key(p[i]) /\ l[(i + 2) + 1] = Key(q[i])
    BY <1>1, <2>3, <2>7
  <2>9. p[i] \in Identifiers /\ q[i] \in Identifiers BY <1>1, <2>3, ElementOfSeq
  <2>10. ComparePrerelease(p, q) = CompareIdentifiers(p[i], q[i]) BY <1>4, <1>7 DEF i
  <2>11. CASE CompareIdentifiers(p[i], q[i]) = -1 /\ KeyLess(Key(p[i]), Key(q[i]))
    <3>1. Before(k, l) BY <2>6, <2>7, <2>8, <2>11, <1>1, Decided
    <3> QED BY <3>1, <2>10, <2>11, <1>5
  <2>12. CASE CompareIdentifiers(p[i], q[i]) = 1 /\ KeyLess(Key(q[i]), Key(p[i]))
    <3>0. KeyLess(l[(i + 2) + 1], k[(i + 2) + 1]) BY <2>8, <2>12
    <3>1. Before(l, k) /\ ~Before(k, l) BY <2>6, <2>7, <3>0, <1>1, Decided
    <3> QED BY <3>1, <2>10, <2>12, <1>5
  <2> QED BY <2>3, <2>9, <2>11, <2>12, IdentifiersCompared
<1> QED BY <1>6, <1>7

(* Numbers that differ decide, at entry n + 1.                             *)
LEMMA NumberDecides ==
    ASSUME NEW a \in Semvers, NEW b \in Semvers, NEW n \in 0 .. 2,
           Agree(Keys(a), Keys(b), n), NEW x \in Nat, NEW y \in Nat, x # y,
           Keys(a)[n + 1] = <<0, x>>, Keys(b)[n + 1] = <<0, y>>
    PROVE  Sign(x - y) = Verdict(a, b)
<1> DEFINE k == Keys(a)
           l == Keys(b)
<1>1. /\ k \in Seq(Pairs) /\ l \in Seq(Pairs)
      /\ Len(k) \in Nat /\ Len(l) \in Nat /\ Len(k) > 3 /\ Len(l) > 3
  BY KeysOf, KeysLonger
<1>2. Agree(k, l, n) /\ Agree(l, k, n) BY DEF Agree
<1>3. n \in Nat /\ n < Len(k) /\ n < Len(l) BY <1>1
<1>4. Verdict(a, b) = IF Before(k, l) THEN -1 ELSE IF Before(l, k) THEN 1 ELSE 0
  BY DEF Verdict
<1> HIDE DEF k, l
<1>5. k[n + 1] = <<0, x>> /\ l[n + 1] = <<0, y>> BY DEF k, l
<1>6. CASE x < y
  <2>1. KeyLess(k[n + 1], l[n + 1]) BY <1>5, <1>6 DEF KeyLess
  <2>2. Before(k, l) BY <1>1, <1>2, <1>3, <2>1, Decided
  <2> QED BY <1>4, <1>6, <2>2 DEF Sign
<1>7. CASE y < x
  <2>1. KeyLess(l[n + 1], k[n + 1]) BY <1>5, <1>7 DEF KeyLess
  <2>2. Before(l, k) /\ ~Before(k, l) BY <1>1, <1>2, <1>3, <2>1, Decided
  <2> QED BY <1>4, <1>7, <2>2 DEF Sign
<1> QED BY <1>6, <1>7

LEMMA VersionsCompared ==
    ASSUME NEW a \in Semvers, NEW b \in Semvers
    PROVE  CompareVersions(a, b) = Verdict(a, b)
<1> DEFINE k == Keys(a)
           l == Keys(b)
<1>1. /\ k \in Seq(Pairs) /\ l \in Seq(Pairs)
      /\ k[1] = <<0, a.major>> /\ k[2] = <<0, a.minor>> /\ k[3] = <<0, a.patch>>
      /\ l[1] = <<0, b.major>> /\ l[2] = <<0, b.minor>> /\ l[3] = <<0, b.patch>>
      /\ a.major \in Nat /\ a.minor \in Nat /\ a.patch \in Nat
      /\ b.major \in Nat /\ b.minor \in Nat /\ b.patch \in Nat
  BY KeysOf
<1>2. CASE a.major # b.major
  <2>1. Agree(k, l, 0) BY DEF Agree
  <2>2. Sign(a.major - b.major) = Verdict(a, b) BY <1>1, <1>2, <2>1, NumberDecides
  <2> QED BY <1>2, <2>2 DEF CompareVersions
<1>3. CASE a.major = b.major /\ a.minor # b.minor
  <2>1. Agree(k, l, 1)
    <3>1. \A i \in 1 .. 1 : i = 1 OBVIOUS
    <3> QED BY <1>1, <1>3, <3>1 DEF Agree
  <2>2. Sign(a.minor - b.minor) = Verdict(a, b) BY <1>1, <1>3, <2>1, NumberDecides
  <2> QED BY <1>3, <2>2 DEF CompareVersions
<1>4. CASE a.major = b.major /\ a.minor = b.minor /\ a.patch # b.patch
  <2>1. Agree(k, l, 2)
    <3>1. \A i \in 1 .. 2 : i = 1 \/ i = 2 OBVIOUS
    <3> QED BY <1>1, <1>4, <3>1 DEF Agree
  <2>2. Sign(a.patch - b.patch) = Verdict(a, b) BY <1>1, <1>4, <2>1, NumberDecides
  <2> QED BY <1>4, <2>2 DEF CompareVersions
<1>5. CASE a.major = b.major /\ a.minor = b.minor /\ a.patch = b.patch
  <2>1. Agree(k, l, 3)
    <3>1. \A i \in 1 .. 3 : i = 1 \/ i = 2 \/ i = 3 OBVIOUS
    <3> QED BY <1>1, <1>5, <3>1 DEF Agree
  <2>2. CompareVersions(a, b) = CompareRelease(a.pre, b.pre)
    BY <1>5 DEF CompareVersions
  <2>3. CASE a.pre # <<>> /\ b.pre # <<>>
    BY <2>1, <2>2, <2>3, PrereleasesCompared DEF CompareRelease
  <2>4. CASE a.pre = <<>> /\ b.pre = <<>>
    <3>1. Len(k) = 4 /\ Len(l) = 4 /\ k[4] = <<3, 0>> /\ l[4] = <<3, 0>>
      BY <2>4, KeysOf
    <3>2. Agree(k, l, 4)
      <4>1. \A i \in 1 .. 4 : i \in 1 .. 3 \/ i = 4 OBVIOUS
      <4> QED BY <2>1, <3>1, <4>1 DEF Agree
    <3>3. ~Before(k, l) /\ ~Before(l, k)
      <4>1. Len(k) <= Len(l) /\ ~(Len(k) < Len(l)) /\ Agree(k, l, Len(k))
        BY <3>1, <3>2
      <4> HIDE DEF k, l
      <4> QED BY <1>1, <4>1, Prefixed
    <3> QED BY <2>2, <2>4, <3>3 DEF CompareRelease, Verdict
  <2>5. CASE a.pre = <<>> /\ b.pre # <<>>
    <3>1. KeyLess(l[4], k[4]) BY <2>5, ReleaseLast
    <3>2. Before(l, k) /\ ~Before(k, l)
      <4>1. 3 \in Nat /\ 3 + 1 = 4 /\ Agree(l, k, 3) BY <2>1, AgreeBothWays
      <4>2. Len(k) > 3 /\ Len(l) > 3 BY KeysLonger
      <4> HIDE DEF k, l
      <4> QED BY <1>1, <3>1, <4>1, <4>2, Decided
    <3> QED BY <2>2, <2>5, <3>2 DEF CompareRelease, Verdict
  <2>6. CASE a.pre # <<>> /\ b.pre = <<>>
    <3>1. KeyLess(k[4], l[4]) BY <2>6, ReleaseLast
    <3>2. Before(k, l)
      <4>1. 3 \in Nat /\ 3 + 1 = 4 OBVIOUS
      <4>2. Len(k) > 3 /\ Len(l) > 3 BY KeysLonger
      <4> HIDE DEF k, l
      <4> QED BY <1>1, <2>1, <3>1, <4>1, <4>2, Decided
    <3> QED BY <2>2, <2>6, <3>2 DEF CompareRelease, Verdict
  <2> QED BY <2>3, <2>4, <2>5, <2>6
<1> QED BY <1>2, <1>3, <1>4, <1>5

LEMMA AllCompared == SemverPrecedence
<1> SUFFICES ASSUME NEW a \in Semvers, NEW b \in Semvers
             PROVE  CompareVersions(a, b) =
                        IF Precedes(a, b) THEN -1
                        ELSE IF Precedes(b, a) THEN 1 ELSE 0
  BY DEF SemverPrecedence
<1>1. Precedes(a, b) <=> Before(Keys(a), Keys(b)) BY PrecedesByEntry
<1>2. Precedes(b, a) <=> Before(Keys(b), Keys(a)) BY PrecedesByEntry
<1> QED BY <1>1, <1>2, VersionsCompared DEF Verdict

(* CompareVersions orders any two versions as semver does: whatever        *)
(* numbers and identifiers, the first that differ decide, an identifier    *)
(* that is a number comes before a word, and a release comes last.         *)
THEOREM ComparesAsSemver == SemverPrecedence /\ (OrderSpec => []PrecedenceFollowsSemver)
<1>1. PrecedenceFollowsSemver BY AllCompared DEF PrecedenceFollowsSemver
<1> QED BY <1>1, AllCompared, PTL

(* A release is below the upper bound of a shorthand when it is of an      *)
(* earlier minor or major version.                                         *)
LEMMA BelowCeiling ==
    ASSUME NEW x \in Semvers, x.pre = <<>>, NEW m \in Nat, NEW n \in Nat
    PROVE  Allows("<", Release(m, n), x) <=>
               x.major < m \/ (x.major = m /\ x.minor < n)
<1>1. x.major \in Nat /\ x.minor \in Nat /\ x.patch \in Nat
  BY SemverAssumption DEF Semvers
<1> DEFINE c == Release(m, n)
<1>2. c.major = m /\ c.minor = n /\ c.patch = 0 /\ c.pre = <<>> BY DEF Release
<1> SUFFICES Allows("<", c, x) <=> x.major < m \/ (x.major = m /\ x.minor < n)
  OBVIOUS
<1> HIDE DEF c
<1>3. Allows("<", c, x) <=> CompareVersions(x, c) < 0 BY DEF Allows
<1>4. CASE x.major # m
  BY <1>1, <1>2, <1>3, <1>4 DEF CompareVersions, Sign
<1>5. CASE x.major = m /\ x.minor # n
  BY <1>1, <1>2, <1>3, <1>5 DEF CompareVersions, Sign
<1>6. CASE x.major = m /\ x.minor = n
  <2>1. CompareVersions(x, c) = IF x.patch # 0 THEN Sign(x.patch - 0) ELSE 0
    BY <1>1, <1>2, <1>6 DEF CompareVersions, CompareRelease
  <2> QED BY <1>1, <1>3, <1>6, <2>1 DEF Sign
<1> QED BY <1>1, <1>4, <1>5, <1>6

(* At or above a version means not before it, and of no earlier major or   *)
(* minor version.                                                          *)
LEMMA FromVersion ==
    ASSUME NEW x \in Semvers, NEW v \in Semvers
    PROVE  /\ Allows(">=", v, x) <=> ~Precedes(x, v)
           /\ Allows(">=", v, x) =>
                  x.major > v.major \/ (x.major = v.major /\ x.minor >= v.minor)
<1>1. /\ x.major \in Nat /\ x.minor \in Nat /\ x.patch \in Nat
      /\ v.major \in Nat /\ v.minor \in Nat /\ v.patch \in Nat
  BY SemverAssumption DEF Semvers
<1>2. Allows(">=", v, x) <=> CompareVersions(x, v) >= 0 BY DEF Allows
<1>3. CompareVersions(x, v) =
          IF Precedes(x, v) THEN -1 ELSE IF Precedes(v, x) THEN 1 ELSE 0
  BY AllCompared DEF SemverPrecedence
<1>4. Allows(">=", v, x) <=> ~Precedes(x, v) BY <1>2, <1>3
<1>5. CASE x.major # v.major
  BY <1>1, <1>2, <1>4, <1>5 DEF CompareVersions, Sign
<1>6. CASE x.major = v.major /\ x.minor # v.minor
  BY <1>1, <1>2, <1>4, <1>6 DEF CompareVersions, Sign
<1>7. CASE x.major = v.major /\ x.minor = v.minor
  BY <1>1, <1>4, <1>7
<1> QED BY <1>5, <1>6, <1>7

(* The shorthands `~` and `^` mean the later patches, and the compatible   *)
(* releases; a version or a range that does not parse is never a reason    *)
(* to list a plugin or to dismiss an advisory.                             *)
THEOREM RangesMeanWhatTheySay ==
    ShorthandsMean /\ ErrorsConservative /\ (OrderSpec => []RangesMean)
<1>1. ShorthandsMean
  <2> SUFFICES ASSUME NEW v \in Semvers, NEW x \in Semvers, x.pre = <<>>
               PROVE  /\ TermAllows([op |-> "~", version |-> v], x) <=>
                             ~Precedes(x, v) /\ x.major = v.major /\ x.minor = v.minor
                      /\ TermAllows([op |-> "^", version |-> v], x) <=>
                             ~Precedes(x, v) /\ x.major = v.major
                               /\ (v.major = 0 => x.minor = v.minor)
    BY DEF ShorthandsMean
  <2>1. /\ x.major \in Nat /\ x.minor \in Nat
        /\ v.major \in Nat /\ v.minor \in Nat
    BY SemverAssumption DEF Semvers
  <2>2. TermAllows([op |-> "~", version |-> v], x) <=>
            Allows(">=", v, x) /\ Allows("<", Release(v.major, v.minor + 1), x)
    BY DEF TermAllows, Ceiling
  <2>3. TermAllows([op |-> "^", version |-> v], x) <=>
            /\ Allows(">=", v, x)
            /\ Allows("<", IF v.major = 0 THEN Release(v.major, v.minor + 1)
                           ELSE Release(v.major + 1, 0), x)
    BY DEF TermAllows, Ceiling
  <2>4. /\ Allows("<", Release(v.major, v.minor + 1), x) <=>
              x.major < v.major \/ (x.major = v.major /\ x.minor < v.minor + 1)
        /\ Allows("<", Release(v.major + 1, 0), x) <=>
              x.major < v.major + 1 \/ (x.major = v.major + 1 /\ x.minor < 0)
    BY <2>1, BelowCeiling
  <2>5. /\ Allows(">=", v, x) <=> ~Precedes(x, v)
        /\ Allows(">=", v, x) =>
               x.major > v.major \/ (x.major = v.major /\ x.minor >= v.minor)
    BY FromVersion
  <2>6. TermAllows([op |-> "~", version |-> v], x) <=>
            ~Precedes(x, v) /\ x.major = v.major /\ x.minor = v.minor
    BY <2>1, <2>2, <2>4, <2>5
  <2>7. CASE v.major = 0
    BY <2>1, <2>3, <2>4, <2>5, <2>6, <2>7
  <2>8. CASE v.major # 0
    BY <2>1, <2>3, <2>4, <2>5, <2>6, <2>8
  <2> QED BY <2>7, <2>8
<1>2. ErrorsConservative
  <2> SUFFICES ASSUME NEW x \in Cores, NEW r \in Ranges
               PROVE  /\ Compatible(x, r) => x # Malformed /\ r # Malformed
                      /\ AdvisoryAffects(r, x) \/ (x # Malformed /\ r # Malformed)
    BY DEF ErrorsConservative
  <2>1. CASE x # Malformed /\ r # Malformed BY <2>1
  <2>2. CASE x = Malformed \/ r = Malformed
    <3>1. SatisfiesRange(x, r) = IF r = <<>> THEN TRUE ELSE Malformed
      BY <2>2 DEF SatisfiesRange
    <3> QED BY <2>2, <3>1, SemverAssumption DEF Compatible, AdvisoryAffects
  <2> QED BY <2>1, <2>2
<1>3. RangesMean BY <1>1, <1>2 DEF RangesMean
<1> QED BY <1>1, <1>2, <1>3, PTL

-----------------------------------------------------------------------------
(* The comparison as an order.  On sequences of keys it is the             *)
(* lexicographic one, and a version has its keys to itself.                *)
LEMMA KeyOrder ==
    ASSUME NEW x \in Pairs, NEW y \in Pairs
    PROVE  /\ x # y => KeyLess(x, y) \/ KeyLess(y, x)
           /\ \A z \in Pairs : KeyLess(x, y) /\ KeyLess(y, z) => KeyLess(x, z)
<1>1. \A w \in Pairs : w = <<w[1], w[2]>> /\ w[1] \in Nat /\ w[2] \in Nat
  BY DEF Pairs
<1>2. ASSUME x # y PROVE KeyLess(x, y) \/ KeyLess(y, x)
  <2>1. x[1] # y[1] \/ x[2] # y[2] BY <1>1, <1>2
  <2> QED BY <1>1, <2>1 DEF KeyLess
<1>3. ASSUME NEW z \in Pairs, KeyLess(x, y), KeyLess(y, z) PROVE KeyLess(x, z)
  BY <1>1, <1>3 DEF KeyLess
<1> QED BY <1>2, <1>3

LEMMA OneComesFirst ==
    ASSUME NEW k \in Seq(Pairs), NEW l \in Seq(Pairs)
    PROVE  /\ Before(k, l) => ~Before(l, k)
           /\ k # l => Before(k, l) \/ Before(l, k)
<1> DEFINE differ == {i \in 1 .. Len(k) : i <= Len(l) /\ k[i] # l[i]}
<1>0. Len(k) \in Nat /\ Len(l) \in Nat BY LenProperties
<1>1. CASE differ = {}
  <2>1. \A i \in 1 .. Len(k) : i <= Len(l) => k[i] = l[i] BY <1>1
  <2> HIDE DEF differ
  <2>2. CASE Len(k) < Len(l)
    <3>1. Agree(k, l, Len(k)) BY <1>0, <2>1, <2>2 DEF Agree
    <3> QED BY <1>0, <2>2, <3>1, Prefixed
  <2>3. CASE Len(l) < Len(k)
    <3>1. Agree(l, k, Len(l)) BY <1>0, <2>1, <2>3 DEF Agree
    <3> QED BY <1>0, <2>3, <3>1, Prefixed
  <2>4. CASE Len(k) = Len(l)
    <3>1. k = l BY <1>0, <2>1, <2>4, SeqEqual
    <3>2. Agree(k, l, Len(k)) BY <1>0, <2>1, <2>4 DEF Agree
    <3> QED BY <1>0, <2>4, <3>1, <3>2, Prefixed
  <2> QED BY <1>0, <2>2, <2>3, <2>4
<1>2. CASE differ # {}
  <2>1. differ \subseteq Nat BY <1>0
  <2> DEFINE i == Min(differ)
  <2>2. i \in differ /\ \A j \in differ : i <= j
    <3> HIDE DEF differ
    <3> QED BY <1>2, <2>1, LeastNumber
  <2> HIDE DEF i
  <2>3. i \in 1 .. Len(k) /\ i <= Len(l) /\ k[i] # l[i] BY <2>2
  <2>4. Agree(k, l, i - 1)
    <3> SUFFICES ASSUME NEW j \in 1 .. i - 1 PROVE k[j] = l[j]
      BY DEF Agree
    <3>1. j \in 1 .. Len(k) /\ j <= Len(l) /\ ~(i <= j) BY <1>0, <2>3
    <3> QED BY <2>2, <3>1
  <2>5. k[i] \in Pairs /\ l[i] \in Pairs BY <1>0, <2>3, ElementOfSeq
  <2> DEFINE n == i - 1
  <2>6. n \in Nat /\ n + 1 = i /\ n < Len(k) /\ n < Len(l) BY <1>0, <2>3
  <2> HIDE DEF n, differ
  <2>7. Agree(k, l, n) /\ Agree(l, k, n) BY <2>4, AgreeBothWays DEF n
  <2>8. CASE KeyLess(k[i], l[i])
    <3>1. Before(k, l) /\ ~Before(l, k) BY <2>6, <2>7, <2>8, Decided
    <3> QED BY <3>1
  <2>9. CASE KeyLess(l[i], k[i])
    <3>1. Before(l, k) /\ ~Before(k, l) BY <2>6, <2>7, <2>9, Decided
    <3> QED BY <3>1
  <2> QED BY <2>3, <2>5, <2>8, <2>9, KeyOrder
<1> QED BY <1>1, <1>2

LEMMA BeforeTransitive ==
    ASSUME NEW k \in Seq(Pairs), NEW l \in Seq(Pairs), NEW m \in Seq(Pairs),
           Before(k, l), Before(l, m)
    PROVE  Before(k, m)
<1>0. Len(k) \in Nat /\ Len(l) \in Nat /\ Len(m) \in Nat BY LenProperties
<1>1. PICK n \in 0 .. Len(k) : /\ n < Len(l) /\ Agree(k, l, n)
                               /\ n < Len(k) => KeyLess(k[n + 1], l[n + 1])
  BY DEF Before
<1>2. PICK p \in 0 .. Len(l) : /\ p < Len(m) /\ Agree(l, m, p)
                               /\ p < Len(l) => KeyLess(l[p + 1], m[p + 1])
  BY DEF Before
<1>3. CASE n < p
  <2>1. Agree(k, m, n) BY <1>0, <1>1, <1>2, <1>3 DEF Agree
  <2>2. l[n + 1] = m[n + 1]
    <3>1. n + 1 \in 1 .. p BY <1>0, <1>3
    <3> QED BY <1>2, <3>1 DEF Agree
  <2>3. n < Len(m) BY <1>0, <1>2, <1>3
  <2> QED BY <1>1, <2>1, <2>2, <2>3 DEF Before
<1>4. CASE p < n
  <2>1. Agree(k, m, p) BY <1>0, <1>1, <1>2, <1>4 DEF Agree
  <2>2. k[p + 1] = l[p + 1]
    <3>1. p + 1 \in 1 .. n BY <1>0, <1>4
    <3> QED BY <1>1, <3>1 DEF Agree
  <2>3. p \in 0 .. Len(k) /\ p < Len(l) BY <1>0, <1>1, <1>4
  <2> QED BY <1>2, <2>1, <2>2, <2>3 DEF Before
<1>5. CASE n = p
  <2>1. Agree(k, m, n) BY <1>1, <1>2, <1>5 DEF Agree
  <2>2. ASSUME n < Len(k) PROVE KeyLess(k[n + 1], m[n + 1])
    <3>1. k[n + 1] \in Pairs /\ l[n + 1] \in Pairs /\ m[n + 1] \in Pairs
      <4>1. n + 1 \in 1 .. Len(k) /\ n + 1 \in 1 .. Len(l) /\ n + 1 \in 1 .. Len(m)
        BY <1>0, <1>1, <1>2, <1>5, <2>2
      <4> QED BY <4>1, ElementOfSeq
    <3> QED BY <1>1, <1>2, <1>5, <2>2, <3>1, KeyOrder
  <2> QED BY <1>1, <1>2, <1>5, <2>1, <2>2 DEF Before
<1> QED BY <1>0, <1>3, <1>4, <1>5

LEMMA KeyInjective ==
    ASSUME NEW x \in Identifiers, NEW y \in Identifiers, Key(x) = Key(y)
    PROVE  x = y
<1>1. \/ CompareIdentifiers(x, y) = -1 /\ KeyLess(Key(x), Key(y))
      \/ CompareIdentifiers(x, y) = 1 /\ KeyLess(Key(y), Key(x))
      \/ x = y
  BY IdentifiersCompared
<1>2. Key(x) \in Pairs /\ Key(y) \in Pairs BY KeyPairs
<1> QED BY <1>1, <1>2, KeysOrdered

LEMMA KeysInjective ==
    ASSUME NEW a \in Semvers, NEW b \in Semvers, Keys(a) = Keys(b)
    PROVE  a = b
<1>1. a.major = b.major /\ a.minor = b.minor /\ a.patch = b.patch
  <2>1. <<0, a.major>> = <<0, b.major>> BY KeysOf
  <2>2. <<0, a.minor>> = <<0, b.minor>> BY KeysOf
  <2>3. <<0, a.patch>> = <<0, b.patch>> BY KeysOf
  <2> QED BY <2>1, <2>2, <2>3
<1>2. ASSUME NEW v \in Semvers, v.pre # <<>> PROVE Keys(v)[4] # <<3, 0>>
  <2>1. /\ v.pre \in Seq(Identifiers) /\ Len(v.pre) > 0
        /\ \A i \in 1 .. Len(v.pre) : Keys(v)[3 + i] = Key(v.pre[i])
    BY <1>2, KeysOf
  <2>2. 1 \in 1 .. Len(v.pre) BY <2>1, LenProperties
  <2>3. Keys(v)[4] = Key(v.pre[1])
    <3>1. 3 + 1 = 4 OBVIOUS
    <3> QED BY <2>1, <2>2, <3>1
  <2>4. Key(v.pre[1])[1] # 3 BY DEF Key
  <2> QED BY <2>3, <2>4
<1>3. a.pre = b.pre
  <2>1. CASE a.pre = <<>> /\ b.pre = <<>> BY <2>1
  <2>2. CASE a.pre = <<>> /\ b.pre # <<>>
    BY <2>2, <1>2, KeysOf
  <2>3. CASE a.pre # <<>> /\ b.pre = <<>>
    BY <2>3, <1>2, KeysOf
  <2>4. CASE a.pre # <<>> /\ b.pre # <<>>
    <3>1. /\ a.pre \in Seq(Identifiers) /\ b.pre \in Seq(Identifiers)
          /\ 3 + Len(a.pre) = 3 + Len(b.pre)
          /\ \A i \in 1 .. Len(a.pre) : Keys(a)[3 + i] = Key(a.pre[i])
          /\ \A i \in 1 .. Len(b.pre) : Keys(b)[3 + i] = Key(b.pre[i])
      BY <2>4, KeysOf
    <3>2. Len(a.pre) = Len(b.pre) BY <3>1, LenProperties
    <3>3. ASSUME NEW i \in 1 .. Len(a.pre) PROVE a.pre[i] = b.pre[i]
      <4>1. a.pre[i] \in Identifiers /\ b.pre[i] \in Identifiers
        BY <3>1, <3>2, ElementOfSeq
      <4>2. Key(a.pre[i]) = Key(b.pre[i]) BY <3>1, <3>2
      <4> QED BY <4>1, <4>2, KeyInjective
    <3> QED BY <3>1, <3>2, <3>3, SeqEqual
  <2> QED BY <2>1, <2>2, <2>3, <2>4
<1> QED BY <1>1, <1>3 DEF Semvers

LEMMA VersionOrdered ==
    ASSUME NEW a \in Semvers, NEW b \in Semvers
    PROVE  /\ CompareVersions(a, b) = -1 <=> Before(Keys(a), Keys(b))
           /\ CompareVersions(a, b) = 1 <=> Before(Keys(b), Keys(a))
           /\ CompareVersions(a, b) = 0 <=> a = b
           /\ CompareVersions(a, b) \in {-1, 0, 1}
<1>1. /\ CompareVersions(a, b) =
            IF Precedes(a, b) THEN -1 ELSE IF Precedes(b, a) THEN 1 ELSE 0
      /\ Precedes(a, b) <=> Before(Keys(a), Keys(b))
      /\ Precedes(b, a) <=> Before(Keys(b), Keys(a))
  BY AllCompared, PrecedesByEntry DEF SemverPrecedence
<1>2. Keys(a) \in Seq(Pairs) /\ Keys(b) \in Seq(Pairs) BY KeysOf
<1>3. /\ Before(Keys(a), Keys(b)) => ~Before(Keys(b), Keys(a))
      /\ Keys(a) # Keys(b) => Before(Keys(a), Keys(b)) \/ Before(Keys(b), Keys(a))
  BY <1>2, OneComesFirst
<1>4. a = b => ~Before(Keys(a), Keys(b)) BY <1>3
<1>5. a # b => Keys(a) # Keys(b) BY KeysInjective
<1> QED BY <1>1, <1>3, <1>4, <1>5

(* Versions that compare as equal are the same, one argument before the    *)
(* other gives the opposite, and the order is transitive: what the two *)
(* sides of a bound (constraint.allows) take for granted.                  *)
THEOREM ComparesAsAnOrder == ComparisonIsOrder
<1> SUFFICES ASSUME NEW a \in Semvers, NEW b \in Semvers, NEW c \in Semvers
             PROVE  /\ CompareVersions(a, b) = 0 <=> a = b
                    /\ CompareVersions(a, b) = -CompareVersions(b, a)
                    /\ CompareVersions(a, b) <= 0 /\ CompareVersions(b, c) <= 0 =>
                          CompareVersions(a, c) <= 0
  BY DEF ComparisonIsOrder
<1>1. CompareVersions(a, b) = 0 <=> a = b BY VersionOrdered
<1>2. CompareVersions(a, b) = -CompareVersions(b, a) BY VersionOrdered
<1>3. ASSUME CompareVersions(a, b) <= 0, CompareVersions(b, c) <= 0
      PROVE  CompareVersions(a, c) <= 0
  <2>1. /\ a = b \/ Before(Keys(a), Keys(b))
        /\ b = c \/ Before(Keys(b), Keys(c))
    BY <1>3, VersionOrdered
  <2>2. a = c \/ Before(Keys(a), Keys(c)) BY <2>1, KeysOf, BeforeTransitive
  <2>3. CompareVersions(a, c) \in {0, -1} BY <2>2, VersionOrdered
  <2> QED BY <2>3
<1> QED BY <1>1, <1>2, <1>3

LEMMA BoundHasNoGap ==
    ASSUME NEW v \in Semvers, NEW a \in Semvers, NEW x \in Semvers, NEW b \in Semvers,
           CompareVersions(a, x) <= 0, CompareVersions(x, b) <= 0,
           NEW operator \in {"=", ">", ">=", "<", "<="},
           Allows(operator, v, a), Allows(operator, v, b)
    PROVE  Allows(operator, v, x)
<1>1. \A y, z \in Semvers : /\ CompareVersions(y, z) \in {-1, 0, 1}
                            /\ CompareVersions(y, z) = -CompareVersions(z, y)
                            /\ CompareVersions(y, z) = 0 <=> y = z
  BY VersionOrdered, ComparesAsAnOrder DEF ComparisonIsOrder
<1>2. /\ CompareVersions(v, a) <= 0 => CompareVersions(v, x) <= 0
      /\ CompareVersions(b, v) <= 0 => CompareVersions(x, v) <= 0
      /\ CompareVersions(x, v) <= 0 => CompareVersions(a, v) <= 0
      /\ CompareVersions(v, x) <= 0 => CompareVersions(v, b) <= 0
  BY ComparesAsAnOrder DEF ComparisonIsOrder
<1>3. CASE operator = "=" BY <1>1, <1>2, <1>3 DEF Allows
<1>4. CASE operator = ">" BY <1>1, <1>2, <1>4 DEF Allows
<1>5. CASE operator = ">=" BY <1>1, <1>2, <1>5 DEF Allows
<1>6. CASE operator = "<" BY <1>1, <1>2, <1>6 DEF Allows
<1>7. CASE operator = "<=" BY <1>1, <1>2, <1>7 DEF Allows
<1> QED BY <1>3, <1>4, <1>5, <1>6, <1>7

(* A range has no gap: what lies between two versions that SatisfiesRange  *)
(* accepts it accepts, prereleases included.  So no version between two    *)
(* that an advisory affects is free of it, and none between two compatible *)
(* cores is incompatible.                                                  *)
THEOREM RangesHaveNoGap ==
    ASSUME Numbers = Nat, <<>> \in Prereleases,
           NEW range \in Seq([op : {"=", ">", ">=", "<", "<=", "~", "^"},
                              version : Semvers]),
           NEW a \in Semvers, NEW x \in Semvers \ {Malformed}, NEW b \in Semvers,
           CompareVersions(a, x) <= 0, CompareVersions(x, b) <= 0,
           SatisfiesRange(a, range) = TRUE, SatisfiesRange(b, range) = TRUE
    PROVE  SatisfiesRange(x, range) = TRUE
<1>1. CASE range = <<>> BY <1>1 DEF SatisfiesRange
<1>2. CASE range # <<>>
  <2>1. /\ range # Malformed
        /\ \A i \in DOMAIN range : TermAllows(range[i], a)
        /\ \A i \in DOMAIN range : TermAllows(range[i], b)
    BY <1>2, SemverAssumption DEF SatisfiesRange
  <2>2. ASSUME NEW i \in DOMAIN range PROVE TermAllows(range[i], x)
    <3> DEFINE term == range[i]
    <3>1. /\ term \in [op : {"=", ">", ">=", "<", "<=", "~", "^"}, version : Semvers]
          /\ term.version \in Semvers
      <4>1. i \in 1 .. Len(range) OBVIOUS
      <4>2. term \in [op : {"=", ">", ">=", "<", "<=", "~", "^"}, version : Semvers]
        BY <4>1, ElementOfSeq
      <4> HIDE DEF term
      <4> QED BY <4>2
    <3>2. TermAllows(term, a) /\ TermAllows(term, b) BY <2>1
    <3> SUFFICES TermAllows(term, x)
      OBVIOUS
    <3> HIDE DEF term
    <3>3. CASE term.op \in {"~", "^"}
      <4>1. Ceiling(term) \in Semvers
        <5>1. term.version.major \in Nat /\ term.version.minor \in Nat
          BY <3>1 DEF Semvers
        <5>2. \A m, n \in Nat : Release(m, n) \in Semvers BY DEF Release, Semvers
        <5>3. term.version.minor + 1 \in Nat /\ term.version.major + 1 \in Nat /\ 0 \in Nat
          BY <5>1
        <5>4. Release(term.version.major, term.version.minor + 1) \in Semvers
          BY <5>1, <5>2, <5>3, Zenon
        <5>5. Release(term.version.major + 1, 0) \in Semvers
          BY <5>2, <5>3, Zenon
        <5> QED BY <5>4, <5>5 DEF Ceiling
      <4>2. \A v \in Semvers : TermAllows(term, v) <=>
               Allows(">=", term.version, v) /\ Allows("<", Ceiling(term), v)
        BY <3>3 DEF TermAllows
      <4>3. Allows(">=", term.version, x) BY <3>1, <3>2, <4>2, BoundHasNoGap
      <4>4. Allows("<", Ceiling(term), x) BY <3>2, <4>1, <4>2, BoundHasNoGap
      <4> QED BY <4>2, <4>3, <4>4
    <3>4. CASE term.op \notin {"~", "^"}
      <4>1. Allows(term.op, term.version, a) /\ Allows(term.op, term.version, b)
        BY <3>2, <3>4 DEF TermAllows
      <4>2. term.op \in {"=", ">", ">=", "<", "<="} BY <3>1, <3>4
      <4>3. Allows(term.op, term.version, x) BY <3>1, <4>1, <4>2, BoundHasNoGap
      <4> QED BY <3>4, <4>3 DEF TermAllows
    <3> QED BY <3>3, <3>4
  <2> QED BY <1>2, <2>1, <2>2 DEF SatisfiesRange
<1> QED BY <1>1, <1>2

-----------------------------------------------------------------------------
(* The latest version                                                      *)

(* A reading of the file has its versions, each once, newest first.        *)
LEMMA ReadingFacts ==
    ASSUME SameVersions, NEW t \in Loaded
    PROVE  /\ t \in Seq(Version) /\ Len(t) = Published /\ Range(t) = rows
           /\ \A i, j \in 1 .. Len(t) : t[i] = t[j] => i = j
           /\ \A i, j \in 1 .. Len(t) : i < j => t[i].date >= t[j].date
<1>1. /\ kept \in Seq(Version) /\ Range(kept) = rows /\ Published \in Nat
      /\ DOMAIN kept = 1 .. Published
  BY DEF SameVersions, Published
<1>2. /\ t \in [1 .. Published -> rows]
      /\ \A v \in rows : \E i \in 1 .. Published : t[i] = v
      /\ \A i, j \in 1 .. Published : t[i] = t[j] => i = j
      /\ \A i, j \in 1 .. Published : i < j => LessOnLoad(t[i], t[j])
  BY <1>1 DEF Loaded, SortPluginVersions, SortedFrom, Bijection, Injection, Surjection,
              IsInjective
<1>3. rows \subseteq Version BY <1>1 DEF Range
<1>4. /\ t \in Seq(Version) /\ Len(t) = Published
  BY <1>1, <1>2, <1>3
<1>5. Range(t) = rows BY <1>2 DEF Range
<1>6. ASSUME NEW i \in 1 .. Len(t), NEW j \in 1 .. Len(t), i < j
      PROVE  t[i].date >= t[j].date
  <2>1. t[i] \in Version /\ t[j] \in Version BY <1>2, <1>3, <1>4
  <2>2. t[i].date \in Int /\ t[j].date \in Int BY <2>1, DatesAssumption DEF Version
  <2>3. LessOnLoad(t[i], t[j]) BY <1>2, <1>4, <1>6
  <2> QED BY <2>2, <2>3 DEF LessOnLoad
<1> QED BY <1>2, <1>4, <1>5, <1>6

(* The first version that qualifies is as new as any that does.            *)
LEMMA FirstIsNewest ==
    ASSUME SameVersions, NEW t \in Loaded
    PROVE  \/ LatestStable(t) = {} /\ \A v \in rows : ~Eligible(v)
           \/ \E x \in rows : /\ LatestStable(t) = {x} /\ Eligible(x)
                              /\ \A v \in rows : Eligible(v) => v.date <= x.date
<1> DEFINE I == {i \in 1 .. Len(t) : Eligible(t[i])}
           at == SelectInSeq(t, Eligible)
<1>1. /\ t \in Seq(Version) /\ Len(t) \in Nat /\ Range(t) = rows
      /\ \A i, j \in 1 .. Len(t) : i < j => t[i].date >= t[j].date
  BY ReadingFacts
<1>2. \A v \in rows : \E i \in 1 .. Len(t) : v = t[i] BY <1>1 DEF Range
<1>3. /\ I = {} => at = 0
      /\ I # {} => at = Min(I)
  BY DEF SelectInSeq
<1>4. LatestStable(t) = IF at = 0 THEN {} ELSE {t[at]} BY DEF LatestStable
<1>5. CASE I = {}
  <2>1. LatestStable(t) = {} BY <1>3, <1>4, <1>5
  <2>2. \A v \in rows : ~Eligible(v) BY <1>2, <1>5
  <2> QED BY <2>1, <2>2
<1>6. CASE I # {}
  <2>1. I \subseteq Nat BY <1>1
  <2> HIDE DEF I, at
  <2>2. at \in I /\ \A j \in I : at <= j BY <1>3, <1>6, <2>1, LeastNumber
  <2>3. at \in 1 .. Len(t) /\ Eligible(t[at]) BY <2>2 DEF I
  <2>4. LatestStable(t) = {t[at]} BY <1>1, <1>4, <2>3
  <2>5. t[at] \in rows BY <1>1, <2>3 DEF Range
  <2>6. ASSUME NEW v \in rows, Eligible(v) PROVE v.date <= t[at].date
    <3>1. PICK j \in 1 .. Len(t) : v = t[j] BY <1>2
    <3>2. at <= j BY <2>2, <2>6, <3>1 DEF I
    <3>3. t[at] \in Version /\ t[j] \in Version BY <1>1, <2>3, ElementOfSeq
    <3>4. t[at].date \in Int /\ t[j].date \in Int
      BY <3>3, DatesAssumption DEF Version
    <3>5. CASE at = j BY <3>1, <3>4, <3>5
    <3>6. CASE at < j BY <1>1, <2>3, <3>1, <3>4, <3>6
    <3> QED BY <1>1, <2>3, <3>2, <3>5, <3>6
  <2> QED BY <2>3, <2>4, <2>5, <2>6
<1> QED BY <1>5, <1>6

(* Among the versions of one date that qualify there is a newest row.      *)
LEMMA NewestRow ==
    ASSUME SameVersions, NEW x \in rows, Eligible(x),
           \A v \in rows : Eligible(v) => v.date <= x.date
    PROVE  /\ LatestRow # {}
           /\ \A v \in LatestRow : v \in rows /\ Eligible(v) /\ v.date = x.date
<1>1. /\ Published \in Nat /\ rows \subseteq Version
      /\ \A v \in rows : v.created <= Published
  BY DEF SameVersions, Published, Range
<1>2. \A v \in rows : v.date \in Int /\ v.created \in Nat
  BY <1>1, DatesAssumption DEF Version
<1> DEFINE Same == {v \in rows : Eligible(v) /\ v.date = x.date}
           ages == {Published - v.created : v \in Same}
<1>3. ages \subseteq Nat BY <1>1, <1>2
<1>4. ages # {} OBVIOUS
<1>5. PICK y \in Same : \A v \in Same : Published - y.created <= Published - v.created
  <2> HIDE DEF ages
  <2>1. Min(ages) \in ages /\ \A a \in ages : Min(ages) <= a BY <1>3, <1>4, LeastNumber
  <2> QED BY <2>1 DEF ages
<1>6. y \in LatestRow
  <2>1. ASSUME NEW w \in rows, Eligible(w), LessOnAdd(w, y) PROVE FALSE
    <3>1. w.date <= y.date /\ w.date \in Int /\ y.date \in Int BY <1>2, <2>1
    <3>2. w.date = y.date /\ w.created > y.created BY <2>1, <3>1 DEF LessOnAdd
    <3>3. w \in Same BY <2>1, <3>2
    <3> QED BY <1>1, <1>2, <1>5, <3>2, <3>3
  <2> QED BY <2>1 DEF LatestRow
<1>7. ASSUME NEW v \in LatestRow PROVE v \in rows /\ Eligible(v) /\ v.date = x.date
  <2>1. v \in rows /\ Eligible(v) /\ ~LessOnAdd(x, v) BY DEF LatestRow
  <2>2. v.date <= x.date /\ v.date \in Int /\ x.date \in Int BY <1>2, <2>1
  <2> QED BY <2>1, <2>2 DEF LessOnAdd
<1> QED BY <1>6, <1>7

LEMMA LatestFollows == SameVersions => LatestAgrees
<1> SUFFICES ASSUME SameVersions, NEW t \in Loaded
             PROVE  /\ {v.date : v \in LatestStable(t)} = {v.date : v \in LatestRow}
                    /\ (\A v, w \in rows :
                            Eligible(v) /\ Eligible(w) /\ v.date = w.date => v = w)
                         => LatestStable(t) = LatestRow
  BY DEF LatestAgrees
<1>1. CASE LatestStable(t) = {} /\ \A v \in rows : ~Eligible(v)
  <2>1. LatestRow = {} BY <1>1 DEF LatestRow
  <2> QED BY <1>1, <2>1
<1>2. ASSUME NEW x \in rows, LatestStable(t) = {x}, Eligible(x),
             \A v \in rows : Eligible(v) => v.date <= x.date
      PROVE  /\ {v.date : v \in LatestStable(t)} = {v.date : v \in LatestRow}
             /\ (\A v, w \in rows :
                     Eligible(v) /\ Eligible(w) /\ v.date = w.date => v = w)
                  => LatestStable(t) = LatestRow
  <2>1. /\ LatestRow # {}
        /\ \A v \in LatestRow : v \in rows /\ Eligible(v) /\ v.date = x.date
    BY <1>2, NewestRow
  <2> QED BY <1>2, <2>1
<1> QED BY <1>1, <1>2, FirstIsNewest

(* A file without repetitions that is newest first may be read as it is.   *)
LEMMA ReadAsItIs ==
    ASSUME NEW s \in Seq(Version),
           \A i, j \in 1 .. Len(s) : s[i] = s[j] => i = j,
           \A i, j \in 1 .. Len(s) : i < j => s[i].date >= s[j].date
    PROVE  s \in SortPluginVersions(s)
<1>1. DOMAIN s = 1 .. Len(s) OBVIOUS
<1>2. s \in Bijection(DOMAIN s, Range(s))
  BY <1>1 DEF Bijection, Injection, Surjection, IsInjective, Range
<1>3. ASSUME NEW i \in DOMAIN s, NEW j \in DOMAIN s, i < j PROVE LessOnLoad(s[i], s[j])
  <2>1. s[i] \in Version /\ s[j] \in Version BY ElementOfSeq, <1>1
  <2>2. s[i].date \in Int /\ s[j].date \in Int BY <2>1, DatesAssumption DEF Version
  <2>3. s[i].date >= s[j].date BY <1>1, <1>3
  <2> QED BY <2>2, <2>3 DEF LessOnLoad
<1> QED BY <1>2, <1>3 DEF SortPluginVersions, SortedFrom

LEMMA OrderInitially == OrderInit => OrderInv
<1> SUFFICES ASSUME OrderInit PROVE OrderInv
  OBVIOUS
<1>1. kept = <<>> /\ rows = {} BY DEF OrderInit
<1>2. kept \in Seq(Version) /\ Len(kept) = 0 BY <1>1
<1>3. Range(kept) = rows BY <1>1 DEF Range
<1>4. kept \in Loaded
  <2>1. 1 .. Len(kept) = {} BY <1>2
  <2> QED BY <1>2, <2>1, ReadAsItIs DEF Loaded
<1> QED BY <1>1, <1>2, <1>3, <1>4 DEF OrderInv, SameVersions

LEMMA AdditionInOrder ==
    ASSUME OrderInv, NEW date \in Dates, NEW prerelease \in BOOLEAN,
           AddVersion(date, prerelease)
    PROVE  OrderInv'
<1> DEFINE v == [created |-> Published + 1, date |-> date,
                 prerelease |-> prerelease, yanked |-> FALSE, deleted |-> FALSE]
<1>1. PICK t \in Loaded : kept' \in SortOnAdd(Append(t, v)) BY DEF AddVersion
<1>2. rows' = rows \cup {v} BY DEF AddVersion
<1>3. /\ t \in Seq(Version) /\ Len(t) = Published /\ Range(t) = rows
  BY <1>1, ReadingFacts DEF OrderInv
<1>4. /\ Published \in Nat /\ rows \subseteq Version
      /\ \A x \in rows : x.created <= Published
      /\ \A x, y \in rows : x.created = y.created => x = y
  BY DEF OrderInv, SameVersions, Published, Range
<1>5. v \in Version /\ v.created = Published + 1 BY <1>4 DEF Version
<1> DEFINE s == Append(t, v)
<1> HIDE DEF v
<1>6. /\ s \in Seq(Version) /\ Len(s) = Published + 1
      /\ DOMAIN s = 1 .. Published + 1
  BY <1>3, <1>4, <1>5
<1>7. Range(s) = rows'
  <2>1. DOMAIN t = 1 .. Published BY <1>3
  <2>2. \A i \in 1 .. Published : s[i] = t[i] BY <1>3, <1>4, <1>5
  <2>3. s[Published + 1] = v BY <1>3, <1>4, <1>5
  <2>4. 1 .. Published + 1 = (1 .. Published) \cup {Published + 1} BY <1>4
  <2> HIDE DEF s
  <2> QED BY <1>2, <1>3, <1>6, <2>1, <2>2, <2>3, <2>4 DEF Range
<1>8. rows' \subseteq Version BY <1>2, <1>4, <1>5
<1> HIDE DEF s
<1>9. /\ kept' \in [1 .. Published + 1 -> rows']
      /\ \A x \in rows' : \E i \in 1 .. Published + 1 : kept'[i] = x
      /\ \A i, j \in 1 .. Published + 1 : kept'[i] = kept'[j] => i = j
      /\ \A i, j \in 1 .. Published + 1 : i < j => LessOnAdd(kept'[i], kept'[j])
  BY <1>1, <1>6, <1>7
     DEF SortOnAdd, SortedFrom, Bijection, Injection, Surjection, IsInjective, s
<1>10. kept' \in Seq(Version) /\ Len(kept') = Published + 1
  BY <1>4, <1>8, <1>9
<1>11. Range(kept') = rows' BY <1>9 DEF Range
<1>12. \A x \in rows' : x.created <= Published + 1
  <2>1. \A x \in rows : x.created \in Nat BY <1>4 DEF Version
  <2> QED BY <1>2, <1>4, <1>5, <2>1
<1>13. \A x, y \in rows' : x.created = y.created => x = y
  <2>1. \A x \in rows : x.created \in Nat BY <1>4 DEF Version
  <2>2. \A x \in rows : x.created # v.created BY <1>4, <1>5, <2>1
  <2> QED BY <1>2, <1>4, <2>2
<1>14. ASSUME NEW i \in 1 .. Len(kept'), NEW j \in 1 .. Len(kept'), i < j
       PROVE  kept'[i].date >= kept'[j].date
  <2>1. kept'[i] \in Version /\ kept'[j] \in Version BY <1>8, <1>9, <1>10
  <2>2. kept'[i].date \in Int /\ kept'[j].date \in Int
    BY <2>1, DatesAssumption DEF Version
  <2>3. LessOnAdd(kept'[i], kept'[j]) BY <1>9, <1>10, <1>14
  <2> QED BY <2>2, <2>3 DEF LessOnAdd
<1>15. kept' \in SortPluginVersions(kept') BY <1>9, <1>10, <1>14, ReadAsItIs
<1>16. SameVersions' BY <1>10, <1>11, <1>12, <1>13 DEF SameVersions, Published
<1> QED BY <1>15, <1>16 DEF OrderInv, Loaded

LEMMA ChangeInOrder ==
    ASSUME OrderInv, NEW v \in rows, NEW w \in Version, Change(v, w),
           w.created = v.created, w.date = v.date
    PROVE  OrderInv'
<1>1. PICK t \in Loaded : kept' = ReplaceAll(t, v, w) BY DEF Change
<1>2. rows' = (rows \ {v}) \cup {w} BY DEF Change
<1>3. /\ t \in Seq(Version) /\ Len(t) = Published /\ Range(t) = rows
      /\ \A i, j \in 1 .. Len(t) : t[i] = t[j] => i = j
      /\ \A i, j \in 1 .. Len(t) : i < j => t[i].date >= t[j].date
  BY <1>1, ReadingFacts DEF OrderInv
<1>4. /\ Published \in Nat /\ rows \subseteq Version
      /\ \A x \in rows : x.created <= Published
      /\ \A x, y \in rows : x.created = y.created => x = y
  BY DEF OrderInv, SameVersions, Published, Range
<1>5. /\ \A i \in 1 .. Published : t[i] \in rows
      /\ \A x \in rows : \E i \in 1 .. Published : t[i] = x
  BY <1>3 DEF Range
<1>6. kept' = [i \in 1 .. Published |-> IF t[i] = v THEN w ELSE t[i]]
  BY <1>1, <1>3 DEF ReplaceAll
<1>7. kept' \in Seq(Version) /\ Len(kept') = Published
  <2>1. \A i \in 1 .. Published : (IF t[i] = v THEN w ELSE t[i]) \in Version
    BY <1>4, <1>5
  <2> QED BY <1>4, <1>6, <2>1
<1>8. Range(kept') = rows' BY <1>2, <1>5, <1>6 DEF Range
<1>9. \A x \in rows' : x.created <= Published BY <1>2, <1>4
<1>10. \A x, y \in rows' : x.created = y.created => x = y BY <1>2, <1>4
<1>11. \A i \in 1 .. Published : kept'[i].created = t[i].created /\ kept'[i].date = t[i].date
  BY <1>6
<1>12. ASSUME NEW i \in 1 .. Len(kept'), NEW j \in 1 .. Len(kept'), kept'[i] = kept'[j]
       PROVE  i = j
  <2>1. t[i].created = t[j].created BY <1>7, <1>11, <1>12
  <2>2. t[i] = t[j] BY <1>4, <1>5, <1>7, <2>1
  <2> QED BY <1>3, <1>7, <2>2
<1>13. \A i, j \in 1 .. Len(kept') : i < j => kept'[i].date >= kept'[j].date
  BY <1>3, <1>7, <1>11
<1>14. kept' \in SortPluginVersions(kept') BY <1>7, <1>12, <1>13, ReadAsItIs
<1>15. SameVersions' BY <1>7, <1>8, <1>9, <1>10 DEF SameVersions, Published
<1> QED BY <1>14, <1>15 DEF OrderInv, Loaded

LEMMA OrderInductive == OrderInv /\ [OrderNext]_orderVars => OrderInv'
<1> SUFFICES ASSUME OrderInv, [OrderNext]_orderVars PROVE OrderInv'
  OBVIOUS
<1>1. CASE UNCHANGED orderVars
  BY <1>1 DEF orderVars, OrderInv, SameVersions, Published, Loaded
<1>2. ASSUME NEW date \in Dates, NEW prerelease \in BOOLEAN, AddVersion(date, prerelease)
      PROVE  OrderInv'
  BY <1>2, AdditionInOrder
<1>3. ASSUME NEW v \in rows, SetYanked(v) \/ DeleteVersion(v) PROVE OrderInv'
  <2>1. v \in Version BY DEF OrderInv, SameVersions, Range
  <2>2. CASE SetYanked(v)
    BY <2>1, <2>2, ChangeInOrder DEF SetYanked, Version
  <2>3. CASE DeleteVersion(v)
    BY <2>1, <2>3, ChangeInOrder DEF DeleteVersion, Version
  <2> QED BY <1>3, <2>2, <2>3
<1> QED BY <1>1, <1>2, <1>3 DEF OrderNext

(* Whatever the dates and however many versions, in every history and      *)
(* every order in which sortPluginVersions may put versions of one date,   *)
(* latestStable and the subquery of GetAll name a version of the same      *)
(* date, and the same one if dates differ; and the file is always in an    *)
(* order that refreshLatest may leave, so there is such an order.          *)
THEOREM BackendsNameOneLatest == OrderSpec => [](LatestAgrees /\ kept \in Loaded)
<1>1. OrderInv => LatestAgrees /\ kept \in Loaded BY LatestFollows DEF OrderInv
<1> QED BY OrderInitially, OrderInductive, <1>1, PTL DEF OrderSpec

(* Two sequences with the same elements, both in strictly falling order of *)
(* dates, are the same: where they first differ, each has an element that  *)
(* the other has further down.                                             *)
FallsStrictly(s) ==
    \A i, j \in 1 .. Len(s) : i < j => s[i].date > s[j].date

LEMMA FirstDifference ==
    ASSUME NEW s \in Seq(Version), NEW t \in Seq(Version), Len(s) = Len(t),
           Range(s) = Range(t), FallsStrictly(s), FallsStrictly(t),
           NEW i \in 1 .. Len(s), \A j \in 1 .. Len(s) : j < i => s[j] = t[j]
    PROVE  t[i].date <= s[i].date
<1>0. Len(s) \in Nat /\ t[i] \in Range(t)
  <2>1. i \in DOMAIN t /\ Len(s) \in Nat OBVIOUS
  <2> QED BY <2>1 DEF Range
<1>1. PICK j \in 1 .. Len(s) : s[j] = t[i]
  <2>1. t[i] \in Range(s) BY <1>0
  <2>2. \E j \in DOMAIN s : s[j] = t[i] BY <2>1 DEF Range
  <2> QED BY <2>2
<1>2. \A m \in 1 .. Len(s) : s[m].date \in Int /\ t[m].date \in Int
  <2>1. \A m \in 1 .. Len(s) : s[m] \in Version /\ t[m] \in Version BY ElementOfSeq
  <2> QED BY <2>1, DatesAssumption DEF Version
<1>3. CASE j < i
  <2>1. t[j] = t[i] BY <1>1, <1>3
  <2>2. t[j].date > t[i].date BY <1>3 DEF FallsStrictly
  <2> QED BY <1>2, <2>1, <2>2
<1>4. CASE j = i BY <1>1, <1>2, <1>4
<1>5. CASE i < j
  <2>1. s[i].date > s[j].date BY <1>5 DEF FallsStrictly
  <2>2. s[j].date = t[i].date BY <1>1
  <2> QED BY <1>0, <1>2, <2>1, <2>2
<1> QED BY <1>0, <1>3, <1>4, <1>5

LEMMA OneFallingOrder ==
    ASSUME NEW s \in Seq(Version), NEW t \in Seq(Version), Len(s) = Len(t),
           Range(s) = Range(t), FallsStrictly(s), FallsStrictly(t),
           \A v, w \in Range(s) : v.date = w.date => v = w
    PROVE  s = t
<1> DEFINE differ == {i \in 1 .. Len(s) : s[i] # t[i]}
<1>0. Len(s) \in Nat OBVIOUS
<1>1. CASE differ = {}
  <2>1. \A i \in 1 .. Len(s) : s[i] = t[i] BY <1>1
  <2> QED BY <2>1, SeqEqual
<1>2. CASE differ # {}
  <2>1. differ \subseteq Nat BY <1>0
  <2> DEFINE i == Min(differ)
  <2>2. i \in differ /\ \A j \in differ : i <= j
    <3> HIDE DEF differ
    <3> QED BY <1>2, <2>1, LeastNumber
  <2> HIDE DEF i
  <2>3. i \in 1 .. Len(s) /\ s[i] # t[i] BY <2>2
  <2>4. ASSUME NEW j \in 1 .. Len(s), j < i PROVE s[j] = t[j]
    <3>1. ~(i <= j) BY <1>0, <2>3, <2>4
    <3> QED BY <2>2, <3>1
  <2>5. t[i].date <= s[i].date BY <2>3, <2>4, FirstDifference
  <2>6. s[i].date <= t[i].date BY <2>3, <2>4, FirstDifference
  <2>7. s[i].date \in Int /\ t[i].date \in Int
    <3>1. s[i] \in Version /\ t[i] \in Version BY <2>3, ElementOfSeq
    <3> QED BY <3>1, DatesAssumption DEF Version
  <2>8. s[i].date = t[i].date BY <2>5, <2>6, <2>7
  <2>9. s[i] \in Range(s) /\ t[i] \in Range(s)
    <3>1. i \in DOMAIN s /\ i \in DOMAIN t BY <2>3
    <3> QED BY <3>1 DEF Range
  <2> QED BY <2>3, <2>8, <2>9
<1> QED BY <1>1, <1>2

LEMMA ReadingFalls ==
    ASSUME SameVersions, NEW t \in Loaded,
           \A v, w \in rows : v.date = w.date => v = w
    PROVE  FallsStrictly(t)
<1>1. /\ t \in Seq(Version) /\ Range(t) = rows
      /\ \A i, j \in 1 .. Len(t) : t[i] = t[j] => i = j
      /\ \A i, j \in 1 .. Len(t) : i < j => t[i].date >= t[j].date
  BY ReadingFacts
<1> SUFFICES ASSUME NEW i \in 1 .. Len(t), NEW j \in 1 .. Len(t), i < j
             PROVE  t[i].date > t[j].date
  BY DEF FallsStrictly
<1>2. t[i] \in Version /\ t[j] \in Version BY <1>1, ElementOfSeq
<1>3. t[i].date \in Int /\ t[j].date \in Int BY <1>2, DatesAssumption DEF Version
<1>4. t[i] \in rows /\ t[j] \in rows BY <1>1 DEF Range
<1>5. t[i] # t[j]
  <2>1. Len(t) \in Nat BY <1>1
  <2>2. i # j BY <2>1
  <2> QED BY <1>1, <2>2
<1>6. t[i].date # t[j].date BY <1>4, <1>5
<1> QED BY <1>1, <1>3, <1>6

LEMMA ReadsFollow == OrderInv => ReadsAgree
<1> SUFFICES ASSUME OrderInv, \A v, w \in rows : v.date = w.date => v = w
             PROVE  Loaded = {kept} /\ SortOnAdd(kept) = {kept}
  BY DEF ReadsAgree
<1>1. SameVersions /\ kept \in Loaded BY DEF OrderInv
<1>2. /\ kept \in Seq(Version) /\ Range(kept) = rows /\ Len(kept) = Published
      /\ FallsStrictly(kept)
  BY <1>1, ReadingFalls DEF SameVersions, Published
<1>3. ASSUME NEW t \in Loaded PROVE t = kept
  <2>1. t \in Seq(Version) /\ Len(t) = Published /\ Range(t) = rows
    BY <1>1, ReadingFacts
  <2>2. FallsStrictly(t) BY <1>1, ReadingFalls
  <2> QED BY <1>2, <2>1, <2>2, OneFallingOrder
<1>4. Published \in Nat /\ DOMAIN kept = 1 .. Published BY <1>2
<1>5. SortOnAdd(kept) \subseteq Loaded
  <2>1. ASSUME NEW x, NEW y, LessOnAdd(x, y) PROVE LessOnLoad(x, y)
    BY <2>1 DEF LessOnAdd, LessOnLoad
  <2> SUFFICES ASSUME NEW t \in SortOnAdd(kept) PROVE t \in Loaded
    OBVIOUS
  <2>2. /\ t \in Bijection(DOMAIN kept, Range(kept))
        /\ \A i, j \in DOMAIN kept : i < j => LessOnAdd(t[i], t[j])
    BY DEF SortOnAdd, SortedFrom
  <2>3. \A i, j \in DOMAIN kept : i < j => LessOnLoad(t[i], t[j])
    BY <2>1, <2>2
  <2> QED BY <2>2, <2>3 DEF Loaded, SortPluginVersions, SortedFrom
<1>6. kept \in SortOnAdd(kept)
  <2>1. kept \in Bijection(DOMAIN kept, Range(kept))
    BY <1>1 DEF Loaded, SortPluginVersions, SortedFrom
  <2>2. ASSUME NEW i \in DOMAIN kept, NEW j \in DOMAIN kept, i < j
        PROVE  LessOnAdd(kept[i], kept[j])
    <3>1. kept[i] \in Version /\ kept[j] \in Version BY <1>2, <1>4, ElementOfSeq
    <3>2. kept[i].date \in Int /\ kept[j].date \in Int
      BY <3>1, DatesAssumption DEF Version
    <3>3. kept[i].date > kept[j].date BY <1>2, <1>4, <2>2 DEF FallsStrictly
    <3> QED BY <3>2, <3>3 DEF LessOnAdd
  <2> QED BY <2>1, <2>2 DEF SortOnAdd, SortedFrom
<1> QED BY <1>1, <1>3, <1>5, <1>6

(* While the release dates of a plugin differ, reading its file puts       *)
(* nothing in another place (sortPluginVersions), and the order is the one *)
(* AddVersion and the database keep: a page of versions is the same page   *)
(* on the next request, whatever was yanked or deleted in between.         *)
THEOREM ReadingIsStable == OrderSpec => []ReadsAgree
BY OrderInitially, OrderInductive, ReadsFollow, PTL DEF OrderSpec
=============================================================================
