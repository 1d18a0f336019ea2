--------------------------- MODULE AdvisoryRefresh ---------------------------
(***************************************************************************)
(* Security advisories of one plugin, imported from its GitHub repository  *)
(* (api/handlers/advisories.go), by refreshes that overlap: the background *)
(* one of triggerAdvisoryRefresh and the synchronous endpoint.  A refresh  *)
(* reads what is stored, fetches what is published, replaces the stored    *)
(* list, and announces what its own reading did not contain.  The two      *)
(* kinds read and fetch in opposite orders.  `announced` and `lost` are    *)
(* history: the registry keeps no record of what it sent.                  *)
(***************************************************************************)
CONSTANTS Advisories,    \* GHSA ids the repository may publish
          Refreshes,     \* refreshes in flight at once
          Faults         \* what may go wrong outside the handlers

ASSUME AdvisoryAssumption ==
    Faults \subseteq {"refused", "read", "restart"}

VARIABLES published,   \* what GitHub lists (external)
          stored,      \* plugins.security_advisories
          announced,   \* those an advisory.published event was sent about
          lost,        \* those whose event went to no plugin, or was never
                       \* sent: the creation brought them, or a process ended
          ref          \* the refreshes

advisoryVars == <<published, stored, announced, lost, ref>>

Idle == [phase |-> "idle", kind |-> "background", before |-> {},
         fetched |-> {}, addressed |-> FALSE]

RefreshRecord ==
    [phase     : {"idle", "fetch", "read", "store", "announce"},
     kind      : {"background", "endpoint"},
     before    : SUBSET Advisories,
     fetched   : SUBSET Advisories,
     addressed : BOOLEAN]

AdvisoryTypeOK ==
    /\ published \subseteq Advisories
    /\ stored \subseteq Advisories
    /\ announced \subseteq Advisories
    /\ lost \subseteq Advisories
    /\ ref \in [Refreshes -> RefreshRecord]

(* A plugin as it was just created.  The file backend stores the list the  *)
(* body of the creation had, and nothing is announced of it; PostgreSQL's  *)
(* INSERT leaves the column empty.                                         *)
AdvisoryInit ==
    /\ published = {}
    /\ stored \in SUBSET Advisories
    /\ announced = {}
    /\ lost = stored
    /\ ref = [r \in Refreshes |-> Idle]

At(r, phase) == ref[r].phase = phase

(* What a reading of the plugin gives the refresh: the advisories stored   *)
(* now, and a name to address events to.                                   *)
Seen(rec) == [rec EXCEPT !.before = stored, !.addressed = TRUE]

(* Mutated form of New: what is new against the list as it is after the    *)
(* write.                                                                  *)
NewInStored(r) == ref[r].fetched \ stored

(* What a refresh announces.                                               *)
New(r) == ref[r].fetched \ ref[r].before

(* The advisories stored by a refresh that has not announced them yet.     *)
Pending == UNION {New(r) : r \in {q \in Refreshes : At(q, "announce")}}

-----------------------------------------------------------------------------
(* The endpoint loads the plugin, checks the owner, and only then fetches. *)
StartEndpoint(r) ==
    /\ At(r, "idle")
    /\ ref' = [ref EXCEPT ![r] = Seen([Idle EXCEPT !.phase = "fetch",
                                                   !.kind = "endpoint"])]
    /\ UNCHANGED <<published, stored, announced, lost>>

(* A creation, a submission or a sync fires a refresh and goes on.         *)
StartBackground(r) ==
    /\ At(r, "idle")
    /\ ref' = [ref EXCEPT ![r] = [Idle EXCEPT !.phase = "fetch"]]
    /\ UNCHANGED <<published, stored, announced, lost>>

(* FetchSecurityAdvisories returned a list.                                *)
Received(r, list) ==
    /\ At(r, "fetch")
    /\ ref' = [ref EXCEPT
           ![r].phase = IF ref[r].kind = "endpoint" THEN "store" ELSE "read",
           ![r].fetched = list]
    /\ UNCHANGED <<published, stored, announced, lost>>

Fetch(r) == Received(r, published)

(* GitHub answers 403, as it does over the rate limit: the empty list.     *)
FetchRefused(r) == "refused" \in Faults /\ Received(r, {})

(* An error of the fetch, or of the write: the refresh ends.               *)
GiveUp(r) ==
    /\ At(r, "fetch") \/ At(r, "store")
    /\ ref' = [ref EXCEPT ![r] = Idle]
    /\ UNCHANGED <<published, stored, announced, lost>>

(* The background refresh reads the plugin after the fetch...              *)
Read(r) ==
    /\ At(r, "read")
    /\ ref' = [ref EXCEPT ![r] = [Seen(ref[r]) EXCEPT !.phase = "store"]]
    /\ UNCHANGED <<published, stored, announced, lost>>

(* ... and drops the error of that reading: the plugin it goes on with is  *)
(* the zero value, with no advisory and no name.                           *)
ReadFails(r) ==
    /\ "read" \in Faults
    /\ At(r, "read")
    /\ ref' = [ref EXCEPT ![r].phase = "store"]
    /\ UNCHANGED <<published, stored, announced, lost>>

Store(r) ==
    /\ At(r, "store")
    /\ stored' = ref[r].fetched
    /\ ref' = [ref EXCEPT ![r].phase = "announce"]
    /\ UNCHANGED <<published, announced, lost>>

(* With the zero value's reference the events match no subscription.       *)
Announce(r) ==
    /\ At(r, "announce")
    /\ IF ref[r].addressed
       THEN announced' = announced \cup New(r) /\ UNCHANGED lost
       ELSE lost' = lost \cup New(r) /\ UNCHANGED announced
    /\ ref' = [ref EXCEPT ![r] = Idle]
    /\ UNCHANGED <<published, stored>>

(* The maintainers publish an advisory.  A withdrawn one stays listed.     *)
PublishAdvisory(a) ==
    /\ published' = published \cup {a}
    /\ UNCHANGED <<stored, announced, lost, ref>>

(* The process ends: nothing of a refresh is persistent but the list.      *)
RefreshesEnd ==
    /\ "restart" \in Faults
    /\ ref' = [r \in Refreshes |-> Idle]
    /\ lost' = lost \cup Pending
    /\ UNCHANGED <<published, stored, announced>>

Step(r) ==
    \/ StartEndpoint(r)
    \/ StartBackground(r)
    \/ Fetch(r)
    \/ FetchRefused(r)
    \/ GiveUp(r)
    \/ Read(r)
    \/ ReadFails(r)
    \/ Store(r)
    \/ Announce(r)

AdvisoryNext ==
    \/ \E r \in Refreshes : Step(r)
    \/ \E a \in Advisories : PublishAdvisory(a)
    \/ RefreshesEnd

AdvisorySpec == AdvisoryInit /\ [][AdvisoryNext]_advisoryVars

-----------------------------------------------------------------------------
(* However refreshes overlap, fail and are refused, every advisory that is *)
(* stored has been announced, or the refresh that stored it is about to,   *)
(* unless the process ended just then, the announcement had no address, or *)
(* the plugin was created with it: an advisory a refresh got into the list *)
(* past notifyNewAdvisories is in every later reading, and would stay      *)
(* unannounced.                                                            *)
NoAdvisoryMissed == stored \subseteq announced \cup Pending \cup lost
=============================================================================
