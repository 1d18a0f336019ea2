------------------------------ MODULE Metrics ------------------------------
(***************************************************************************)
(* The recorders of views and downloads (api/service/metrics.go).  Record  *)
(* puts an event into a bounded queue and never waits; one goroutine moves *)
(* events into a buffer and flushes it when it is full, when the ticker    *)
(* fires, and when the recorder is closed.  On PostgreSQL a flush is one   *)
(* transaction; on the file backend it is one write per plugin and         *)
(* version.  `recorded`, `lost` and an event's `late` are history.         *)
(***************************************************************************)
EXTENDS Integers, Sequences, FiniteSets

CONSTANTS PluginIds,
          Versions,      \* version ids
          Items,         \* what events are about: [plugin, version]
          NoVersion,     \* the version of a view
          QueueSize, BatchSize,
          MaxFailures    \* bound: flushes the storage refuses

ASSUME MetricsAssumption ==
    /\ Items \subseteq [plugin : PluginIds, version : Versions \cup {NoVersion}]
    /\ QueueSize \in Nat \ {0}
    /\ BatchSize \in Nat \ {0}
    /\ MaxFailures \in Nat

VARIABLES backend,    \* "postgres" or "file"
          queue, buffer,
          written,    \* file backend: what a flush under way has dealt with
          loop,       \* where the goroutine is, and where it goes after a flush
          stop,       \* stopCh is closed
          dropped,    \* per plugin; the code keeps the sum
          total,      \* plugins.downloads and views
          perVersion, \* plugin_versions.downloads and views
          purged,     \* versions without a row
          gone,       \* deleted plugins
          failures,
          recorded, lost

metricsVars == <<backend, queue, buffer, written, loop, stop, dropped,
                 total, perVersion, purged, gone, failures, recorded, lost>>

Event == [item : Items, late : BOOLEAN]

Loops == {"run", "drain", "done"}

MetricsTypeOK ==
    /\ backend \in {"postgres", "file"}
    /\ queue \in Seq(Event) /\ Len(queue) <= QueueSize
    /\ buffer \in Seq(Event)
    /\ written \subseteq Items
    /\ loop \in [at : Loops \cup {"flush"}, next : Loops]
    /\ stop \in BOOLEAN
    /\ {dropped, total, recorded, lost} \subseteq [PluginIds -> Nat]
    /\ perVersion \in [Versions -> Nat]
    /\ purged \subseteq Versions
    /\ gone \subseteq PluginIds
    /\ failures \in 0 .. MaxFailures

Zero == [p \in PluginIds |-> 0]

MetricsInit ==
    /\ backend \in {"postgres", "file"}
    /\ queue = <<>>
    /\ buffer = <<>>
    /\ written = {}
    /\ loop = [at |-> "run", next |-> "run"]
    /\ stop = FALSE
    /\ dropped = Zero
    /\ total = Zero
    /\ perVersion = [v \in Versions |-> 0]
    /\ purged = {}
    /\ gone = {}
    /\ failures = 0
    /\ recorded = Zero
    /\ lost = Zero

(* How many events of a sequence are about a plugin, or a version.         *)
OfPlugin(s, p) == Cardinality({n \in 1 .. Len(s) : s[n].item.plugin = p})
OfVersion(s, v) == Cardinality({n \in 1 .. Len(s) : s[n].item.version = v})

Added(counters, s) == [p \in PluginIds |-> counters[p] + OfPlugin(s, p)]
AddedVersions(s) == [v \in Versions |-> perVersion[v] + OfVersion(s, v)]

batch == <<buffer, written>>

registryState == <<backend, purged, gone>>

-----------------------------------------------------------------------------
Record(item) ==
    /\ recorded' = [recorded EXCEPT ![item.plugin] = @ + 1]
    /\ IF Len(queue) < QueueSize
       THEN /\ queue' = Append(queue, [item |-> item, late |-> stop])
            /\ UNCHANGED dropped
       ELSE /\ dropped' = [dropped EXCEPT ![item.plugin] = @ + 1]
            /\ UNCHANGED queue
    /\ UNCHANGED <<registryState, batch, loop, stop, total, perVersion,
                   failures, lost>>

(* Close, which main calls when the server has shut down or given up       *)
(* waiting for its handlers.                                               *)
Close ==
    /\ ~stop
    /\ stop' = TRUE
    /\ UNCHANGED <<registryState, queue, batch, loop, dropped, total,
                   perVersion, failures, recorded, lost>>

(* Where the loop goes with a buffer: a flush first, if one is due.        *)
Flushing(due, next) ==
    loop' = IF due THEN [at |-> "flush", next |-> next]
            ELSE [at |-> next, next |-> next]

(* An event is moved into the buffer; the file recorder does not look at   *)
(* the size of the batch while it drains.                                  *)
Take ==
    /\ loop.at \in {"run", "drain"}
    /\ queue # <<>>
    /\ queue' = Tail(queue)
    /\ buffer' = Append(buffer, Head(queue))
    /\ UNCHANGED written
    /\ Flushing(Len(buffer) + 1 >= BatchSize
                    /\ (loop.at = "run" \/ backend = "postgres"), loop.at)
    /\ UNCHANGED <<registryState, stop, dropped, total, perVersion, failures,
                   recorded, lost>>

(* The ticker fires.                                                       *)
FlushTick ==
    /\ loop.at = "run"
    /\ buffer # <<>>
    /\ Flushing(TRUE, "run")
    /\ UNCHANGED <<registryState, queue, batch, stop, dropped, total,
                   perVersion, failures, recorded, lost>>

SeeStop ==
    /\ loop.at = "run"
    /\ stop
    /\ Flushing(FALSE, "drain")
    /\ UNCHANGED <<registryState, queue, batch, stop, dropped, total,
                   perVersion, failures, recorded, lost>>

(* Mutated form of Drained: the last batch is forgotten.                   *)
DrainedUnflushed ==
    /\ loop.at = "drain"
    /\ queue = <<>>
    /\ Flushing(FALSE, "done")
    /\ UNCHANGED <<registryState, queue, batch, stop, dropped, total,
                   perVersion, failures, recorded, lost>>

(* The queue is empty: the rest is flushed, and doneCh is closed.          *)
Drained ==
    /\ loop.at = "drain"
    /\ queue = <<>>
    /\ Flushing(buffer # <<>>, "done")
    /\ UNCHANGED <<registryState, queue, batch, stop, dropped, total,
                   perVersion, failures, recorded, lost>>

-----------------------------------------------------------------------------
(* flushBatch on PostgreSQL.  A purged version fails the foreign key of    *)
(* metric_events; a soft-deleted plugin still has its row.                 *)
Refused == \E n \in 1 .. Len(buffer) : buffer[n].item.version \in purged

(* The buffer is emptied whatever became of it.                            *)
Emptied ==
    /\ buffer' = <<>>
    /\ written' = {}
    /\ Flushing(FALSE, loop.next)

(* Mutated form of Commit: the buffer is kept, as for a retry.             *)
CommitKept ==
    /\ backend = "postgres"
    /\ loop.at = "flush"
    /\ ~Refused
    /\ total' = Added(total, buffer)
    /\ perVersion' = AddedVersions(buffer)
    /\ Flushing(FALSE, loop.next)
    /\ UNCHANGED <<registryState, queue, batch, stop, dropped, failures,
                   recorded, lost>>

Commit ==
    /\ backend = "postgres"
    /\ loop.at = "flush"
    /\ ~Refused
    /\ total' = Added(total, buffer)
    /\ perVersion' = AddedVersions(buffer)
    /\ Emptied
    /\ UNCHANGED <<registryState, queue, stop, dropped, failures, recorded, lost>>

(* The whole batch is rolled back, and not tried again.                    *)
Rollback ==
    /\ backend = "postgres"
    /\ loop.at = "flush"
    /\ \/ Refused /\ UNCHANGED failures
       \/ failures < MaxFailures /\ failures' = failures + 1
    /\ lost' = Added(lost, buffer)
    /\ Emptied
    /\ UNCHANGED <<registryState, queue, stop, dropped, total, perVersion,
                   recorded>>

(* flushBatch on the file backend: IncrCounters for one plugin and         *)
(* version, which a deleted plugin or a failing write refuses; the others  *)
(* follow.                                                                 *)
Events(i) == Cardinality({n \in 1 .. Len(buffer) : buffer[n].item = i})

Incr(i) ==
    /\ backend = "file"
    /\ loop.at = "flush"
    /\ i \notin written /\ Events(i) > 0
    /\ \/ /\ i.plugin \notin gone
          /\ total' = [total EXCEPT ![i.plugin] = @ + Events(i)]
          /\ perVersion' = [v \in Versions |->
                 perVersion[v] + IF v = i.version THEN Events(i) ELSE 0]
          /\ UNCHANGED <<lost, failures>>
       \/ /\ \/ i.plugin \in gone /\ UNCHANGED failures
             \/ failures < MaxFailures /\ failures' = failures + 1
          /\ lost' = [lost EXCEPT ![i.plugin] = @ + Events(i)]
          /\ UNCHANGED <<total, perVersion>>
    /\ IF \A n \in 1 .. Len(buffer) : buffer[n].item \in written \cup {i}
       THEN Emptied
       ELSE written' = written \cup {i} /\ UNCHANGED <<buffer, loop>>
    /\ UNCHANGED <<registryState, queue, stop, dropped, recorded>>

-----------------------------------------------------------------------------
(* A version is purged (PostgreSQL), with its counters; a plugin is        *)
(* deleted.                                                                *)
PurgeVersion(v) ==
    /\ backend = "postgres"
    /\ v \notin purged
    /\ purged' = purged \cup {v}
    /\ perVersion' = [perVersion EXCEPT ![v] = 0]
    /\ UNCHANGED <<backend, gone, queue, batch, loop, stop, dropped, total,
                   failures, recorded, lost>>

DeletePlugin(p) ==
    /\ p \notin gone
    /\ gone' = gone \cup {p}
    /\ UNCHANGED <<backend, purged, queue, batch, loop, stop, dropped, total,
                   perVersion, failures, recorded, lost>>

Recorder ==
    \/ Take
    \/ FlushTick
    \/ SeeStop
    \/ Drained
    \/ Commit
    \/ Rollback
    \/ \E i \in Items : Incr(i)

-----------------------------------------------------------------------------
(* The events of a plugin that wait in the buffer.                         *)
Unwritten(p) == Cardinality({n \in 1 .. Len(buffer) :
                                /\ buffer[n].item.plugin = p
                                /\ buffer[n].item \notin written})

(* Every event recorded is counted once, or waits, or was dropped by a     *)
(* full queue, or was lost with a refused flush: no flush counts an event  *)
(* twice and none disappears in between.                                   *)
EventsBalance ==
    \A p \in PluginIds :
        recorded[p] = total[p] + OfPlugin(queue, p) + Unwritten(p)
                        + dropped[p] + lost[p]

(* When Close lets the process end, the buffer is empty and the queue      *)
(* holds only events recorded after Close was called.                      *)
NothingLeftBehind ==
    loop.at = "done" =>
        /\ buffer = <<>>
        /\ \A n \in 1 .. Len(queue) : queue[n].late
=============================================================================
