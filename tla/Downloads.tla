----------------------------- MODULE Downloads -----------------------------
(***************************************************************************)
(* Counted requests, from the handler to the counters                      *)
(* (api/handlers/plugins.go): the window that counts a client's download   *)
(* once, and the recorder.  TrackDownload asks the window; the redirect of *)
(* DownloadPluginVersion and the page of a plugin do not.                  *)
(***************************************************************************)
EXTENDS DownloadWindow, Metrics

CONSTANTS Clients,       \* an address and a user agent
          Requests,      \* requests in flight at once
          MaxEvents      \* bound: requests that get as far as the recorder

ASSUME PathAssumption ==
    /\ Keys = Clients \X Versions
    /\ MaxEvents \in Nat

VARIABLES request        \* what a request is doing

vars == <<windowVars, metricsVars, request>>

Waiting == [phase |-> "none"]

TypeOK ==
    /\ WindowTypeOK
    /\ MetricsTypeOK
    /\ request \in [Requests -> {Waiting} \cup
           [phase : {"track", "record"}, client : Clients, item : Items]]

(* Counters are counted from what a plugin and its versions start with.    *)
Init ==
    /\ WindowInit
    /\ MetricsInit
    /\ request = [q \in Requests |-> Waiting]

Now(q, phase) == request[q].phase = phase

Goes(q, rec) == request' = [request EXCEPT ![q] = rec]

-----------------------------------------------------------------------------
(* The requests recorded so far, and those that may still be.              *)
Total(f) == LET sum[S \in SUBSET PluginIds] ==
                    IF S = {} THEN 0
                    ELSE LET p == CHOOSE x \in S : TRUE
                         IN  f[p] + sum[S \ {p}]
            IN  sum[PluginIds]

UnderWay == Cardinality({q \in Requests : ~Now(q, "none")})

(* findVersion, or GetPlugin: what is listed when the handler looks.       *)
Known(i) == i.plugin \notin gone /\ i.version \notin purged

Found(q, c, i, phase) ==
    /\ Now(q, "none")
    /\ Known(i)
    /\ Total(recorded) + UnderWay < MaxEvents
    /\ Goes(q, [phase |-> phase, client |-> c, item |-> i])
    /\ UNCHANGED <<windowVars, metricsVars>>

(* trackDownloadByRef asks the window next...                              *)
TrackDownload(q, c, i) == i.version # NoVersion /\ Found(q, c, i, "track")

(* ... downloadVersionByRef and GetPlugin record at once.                  *)
DownloadOrView(q, c, i) == Found(q, c, i, "record")

Ask(q) ==
    /\ Now(q, "track")
    /\ \E yes \in BOOLEAN :
          /\ ShouldCount(<<request[q].client, request[q].item.version>>, yes)
          /\ Goes(q, IF yes THEN [request[q] EXCEPT !.phase = "record"] ELSE Waiting)
    /\ UNCHANGED metricsVars

RecordIt(q) ==
    /\ Now(q, "record")
    /\ Record(request[q].item)
    /\ Goes(q, Waiting)
    /\ UNCHANGED windowVars

Tick == WindowTick /\ UNCHANGED <<metricsVars, request>>

Handle(q) ==
    \/ \E c \in Clients, i \in Items : TrackDownload(q, c, i) \/ DownloadOrView(q, c, i)
    \/ Ask(q)
    \/ RecordIt(q)

Background ==
    /\ \/ Recorder
       \/ Close
       \/ \E v \in Versions : PurgeVersion(v)
       \/ \E p \in PluginIds : DeletePlugin(p)
    /\ UNCHANGED <<windowVars, request>>

Next ==
    \/ \E q \in Requests : Handle(q)
    \/ Background
    \/ Tick

Spec == Init /\ [][Next]_vars
=============================================================================
