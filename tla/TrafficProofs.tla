--------------------------- MODULE TrafficProofs ---------------------------
(***************************************************************************)
(* Proofs about the parts every request passes: the download window and    *)
(* the recorders (Downloads), and the rate limiter.                        *)
(***************************************************************************)
EXTENDS Downloads, RateLimiter, FiniteSetTheorems, SequenceTheorems, TLAPS

-----------------------------------------------------------------------------
(* Counting the events of a sequence                                       *)

Places(s, p) == {n \in 1 .. Len(s) : s[n].item.plugin = p}

LEMMA CountIsCardinality ==
    ASSUME NEW s, NEW p
    PROVE  OfPlugin(s, p) = Cardinality(Places(s, p))
BY DEF OfPlugin, Places

LEMMA PlacesFinite ==
    ASSUME NEW s \in Seq(Event), NEW p
    PROVE  IsFiniteSet(Places(s, p)) /\ OfPlugin(s, p) \in Nat
<1>1. IsFiniteSet(1 .. Len(s)) BY LenProperties, FS_Interval
<1>2. Places(s, p) \subseteq 1 .. Len(s) BY DEF Places
<1>3. IsFiniteSet(Places(s, p)) BY <1>1, <1>2, FS_Subset
<1> QED BY <1>3, FS_CardinalityType, CountIsCardinality

LEMMA CountEmpty ==
    ASSUME NEW p
    PROVE  OfPlugin(<<>>, p) = 0
<1>1. Places(<<>>, p) = {} BY DEF Places
<1> QED BY <1>1, FS_EmptySet, CountIsCardinality

LEMMA CountAppend ==
    ASSUME NEW s \in Seq(Event), NEW e \in Event, NEW p
    PROVE  OfPlugin(Append(s, e), p)
               = OfPlugin(s, p) + IF e.item.plugin = p THEN 1 ELSE 0
<1> DEFINE t == Append(s, e)
           k == Len(s) + 1
<1>1. /\ Len(s) \in Nat /\ Len(t) = k /\ t[k] = e
      /\ \A n \in 1 .. Len(s) : t[n] = s[n]
  BY LenProperties, AppendProperties
<1> HIDE DEF t
<1>2. Places(t, p) = IF e.item.plugin = p THEN Places(s, p) \cup {k} ELSE Places(s, p)
  BY <1>1 DEF Places
<1>3. k \notin Places(s, p) BY <1>1 DEF Places
<1> HIDE DEF k
<1>4. Cardinality(Places(s, p)) \in Nat BY PlacesFinite, CountIsCardinality
<1>5. Cardinality(Places(s, p) \cup {k}) = Cardinality(Places(s, p)) + 1
  BY <1>3, PlacesFinite, FS_AddElement
<1>6. /\ OfPlugin(t, p) = Cardinality(Places(t, p))
      /\ OfPlugin(s, p) = Cardinality(Places(s, p))
  BY CountIsCardinality
<1>7. OfPlugin(t, p) = OfPlugin(s, p) + IF e.item.plugin = p THEN 1 ELSE 0
  <2>1. CASE e.item.plugin = p BY <1>2, <1>5, <1>6, <2>1
  <2>2. CASE e.item.plugin # p BY <1>2, <1>4, <1>6, <2>2
  <2> QED BY <2>1, <2>2
<1> QED BY <1>7 DEF t

LEMMA CountTail ==
    ASSUME NEW s \in Seq(Event), s # <<>>, NEW p
    PROVE  OfPlugin(s, p)
               = OfPlugin(Tail(s), p) + IF Head(s).item.plugin = p THEN 1 ELSE 0
<1> DEFINE t == Tail(s)
           later == Places(s, p) \ {1}
<1>1. /\ Len(s) \in Nat \ {0} /\ t \in Seq(Event) /\ Len(t) = Len(s) - 1
      /\ \A n \in 1 .. Len(t) : t[n] = s[n + 1]
  BY LenProperties, EmptySeq, HeadTailProperties
<1>2. Head(s) = s[1] OBVIOUS
<1> HIDE DEF t
<1>3. \A n \in 1 .. Len(t) : n + 1 \in 2 .. Len(s) BY <1>1
<1>4. \A m \in 2 .. Len(s) : m - 1 \in 1 .. Len(t) /\ s[m] = t[m - 1]
  BY <1>1
<1>5. Cardinality(later) = Cardinality(Places(t, p))
  <2> DEFINE f == [n \in Places(t, p) |-> n + 1]
  <2>1. f \in [Places(t, p) -> later] BY <1>1, <1>3 DEF Places
  <2>2. \A m, n \in Places(t, p) : f[m] = f[n] => m = n BY <1>1 DEF Places
  <2>3. \A m \in later : m - 1 \in Places(t, p) /\ f[m - 1] = m
    BY <1>1, <1>4 DEF Places
  <2> HIDE DEF f, later
  <2>4. f \in Bijection(Places(t, p), later)
    BY <2>1, <2>2, <2>3 DEF Bijection, Injection, Surjection, IsInjective
  <2>5. ExistsBijection(Places(t, p), later) BY <2>4 DEF ExistsBijection
  <2> QED BY <1>1, <2>5, FS_Bijection, PlacesFinite
<1>6. 1 \in Places(s, p) <=> Head(s).item.plugin = p BY <1>1, <1>2 DEF Places
<1>7. Cardinality(Places(s, p)) \in Nat BY PlacesFinite, CountIsCardinality
<1>8. Cardinality(later) = IF 1 \in Places(s, p) THEN Cardinality(Places(s, p)) - 1
                           ELSE Cardinality(Places(s, p))
  BY PlacesFinite, FS_RemoveElement
<1> QED BY <1>5, <1>6, <1>7, <1>8, CountIsCardinality DEF t

(* The events of the buffer that are not written yet, and one key's.       *)
Open(p) == {n \in 1 .. Len(buffer) :
                buffer[n].item.plugin = p /\ buffer[n].item \notin written}

Mine(i) == {n \in 1 .. Len(buffer) : buffer[n].item = i}

LEMMA BufferFinite ==
    ASSUME buffer \in Seq(Event)
    PROVE  /\ \A p : IsFiniteSet(Open(p)) /\ Unwritten(p) = Cardinality(Open(p))
                    /\ Unwritten(p) \in Nat
           /\ \A i : IsFiniteSet(Mine(i)) /\ Events(i) = Cardinality(Mine(i))
                    /\ Events(i) \in Nat
<1>1. IsFiniteSet(1 .. Len(buffer)) BY LenProperties, FS_Interval
<1>2. ASSUME NEW p
      PROVE  IsFiniteSet(Open(p)) /\ Unwritten(p) = Cardinality(Open(p))
  <2>1. Open(p) \subseteq 1 .. Len(buffer) BY DEF Open
  <2> QED BY <1>1, <2>1, FS_Subset DEF Open, Unwritten
<1>3. ASSUME NEW i
      PROVE  IsFiniteSet(Mine(i)) /\ Events(i) = Cardinality(Mine(i))
  <2>1. Mine(i) \subseteq 1 .. Len(buffer) BY DEF Mine
  <2> QED BY <1>1, <2>1, FS_Subset DEF Mine, Events
<1> QED BY <1>2, <1>3, FS_CardinalityType

(* Until a flush writes a key, the whole buffer waits.                     *)
LEMMA UnwrittenAll ==
    ASSUME written = {}, NEW p
    PROVE  Unwritten(p) = OfPlugin(buffer, p)
BY DEF Unwritten, OfPlugin

LEMMA UnwrittenAllNext ==
    ASSUME written' = {}, NEW p
    PROVE  Unwritten(p)' = OfPlugin(buffer', p)
BY DEF Unwritten, OfPlugin

(* Writing a key takes its events, and no other, from those that wait.     *)
LEMMA UnwrittenLess ==
    ASSUME buffer \in Seq(Event), NEW i, i \notin written, NEW p,
           buffer' = buffer, written' = written \cup {i}
    PROVE  Unwritten(p) = Unwritten(p)' + IF p = i.plugin THEN Events(i) ELSE 0
<1>1. Open(p)' = {n \in 1 .. Len(buffer) :
                    buffer[n].item.plugin = p /\ buffer[n].item \notin written \cup {i}}
  BY DEF Open
<1>2. Unwritten(p)' = Cardinality(Open(p)') BY DEF Unwritten, Open
<1>3. CASE p # i.plugin
  <2>1. Open(p)' = Open(p) BY <1>1, <1>3 DEF Open
  <2> QED BY <1>2, <1>3, <2>1, BufferFinite
<1>4. CASE p = i.plugin
  <2>1. Open(p)' = Open(p) \ Mine(i) BY <1>1 DEF Open, Mine
  <2>2. Open(p) \cap Mine(i) = Mine(i) BY <1>4 DEF Open, Mine
  <2>3. Cardinality(Open(p) \ Mine(i)) = Cardinality(Open(p)) - Cardinality(Mine(i))
    <3>1. IsFiniteSet(Open(p)) BY BufferFinite
    <3>2. Cardinality(Open(p) \ Mine(i))
            = Cardinality(Open(p)) - Cardinality(Open(p) \cap Mine(i))
      BY <3>1, FS_Difference
    <3> QED BY <2>2, <3>2
  <2>4. Unwritten(p) \in Nat /\ Events(i) \in Nat BY BufferFinite
  <2> QED BY <1>2, <1>4, <2>1, <2>3, <2>4, BufferFinite
<1> QED BY <1>3, <1>4

(* The last key takes all that is left.                                    *)
LEMMA UnwrittenLast ==
    ASSUME buffer \in Seq(Event), NEW i, i \notin written, NEW p,
           \A n \in 1 .. Len(buffer) : buffer[n].item \in written \cup {i}
    PROVE  Unwritten(p) = IF p = i.plugin THEN Events(i) ELSE 0
<1>1. CASE p # i.plugin
  <2>1. Open(p) = {} BY <1>1 DEF Open
  <2> QED BY <1>1, <2>1, BufferFinite, FS_EmptySet
<1>2. CASE p = i.plugin
  <2>1. Open(p) = Mine(i) BY <1>2 DEF Open, Mine
  <2> QED BY <1>2, <2>1, BufferFinite
<1> QED BY <1>1, <1>2

-----------------------------------------------------------------------------
(* The recorder                                                            *)

(* Where the goroutine is decides what may be left: a flush of the file    *)
(* backend is the only one that is half done, it drains only after Close,  *)
(* and once it is on its way out only late events reach the queue.         *)
RecorderInv ==
    /\ written # {} => loop.at = "flush" /\ backend = "file"
    /\ loop.at # "flush" => loop.next = loop.at
    /\ loop.next \in {"drain", "done"} => stop
    /\ loop.next = "done" => \A n \in 1 .. Len(queue) : queue[n].late
    /\ loop.at = "done" => buffer = <<>>

LEMMA CountersTyped ==
    ASSUME MetricsTypeOK
    PROVE  /\ dropped \in [PluginIds -> Nat] /\ total \in [PluginIds -> Nat]
           /\ recorded \in [PluginIds -> Nat] /\ lost \in [PluginIds -> Nat]
BY DEF MetricsTypeOK

LEMMA ItemTyped ==
    ASSUME NEW i \in Items
    PROVE  i.plugin \in PluginIds /\ i.version \in Versions \cup {NoVersion}
BY MetricsAssumption

(* A step keeps the recorder in order.                                     *)
InOrder == MetricsTypeOK' /\ RecorderInv' /\ EventsBalance'

LEMMA RecordKeeps ==
    ASSUME MetricsTypeOK, RecorderInv, EventsBalance, NEW i \in Items, Record(i)
    PROVE  InOrder
<1> DEFINE e == [item |-> i, late |-> stop]
<1>1. e \in Event BY DEF Event, MetricsTypeOK
<1>2. i.plugin \in PluginIds BY ItemTyped
<1>3. queue \in Seq(Event) /\ Len(queue) \in Nat BY LenProperties DEF MetricsTypeOK
<1>4. recorded' = [recorded EXCEPT ![i.plugin] = @ + 1] BY DEF Record
<1>5. /\ backend' = backend /\ purged' = purged /\ gone' = gone
      /\ buffer' = buffer /\ written' = written /\ loop' = loop /\ stop' = stop
      /\ total' = total /\ perVersion' = perVersion /\ failures' = failures
      /\ lost' = lost
  BY DEF Record, registryState, batch
<1>6. ASSUME NEW p \in PluginIds
      PROVE  Unwritten(p)' = Unwritten(p) /\ Unwritten(p) \in Nat
  BY <1>5, BufferFinite DEF Unwritten, MetricsTypeOK
<1>7. CASE Len(queue) < QueueSize
  <2>1. queue' = Append(queue, e) /\ dropped' = dropped BY <1>7 DEF Record
  <2> HIDE DEF e
  <2>2. /\ queue' \in Seq(Event) /\ Len(queue') = Len(queue) + 1
        /\ \A n \in 1 .. Len(queue) : queue'[n] = queue[n]
        /\ queue'[Len(queue) + 1] = e
    BY <1>1, <1>3, <2>1, AppendProperties
  <2>3. MetricsTypeOK'
    BY <1>2, <1>3, <1>4, <1>5, <1>7, <2>1, <2>2, MetricsAssumption, CountersTyped
    DEF MetricsTypeOK
  <2>4. loop.next = "done" => \A n \in 1 .. Len(queue') : queue'[n].late
    BY <1>3, <2>2 DEF RecorderInv, e
  <2>5. RecorderInv' BY <1>5, <2>4 DEF RecorderInv
  <2>6. ASSUME NEW p \in PluginIds
        PROVE  recorded'[p] = total'[p] + OfPlugin(queue', p) + Unwritten(p)'
                                + dropped'[p] + lost'[p]
    <3>1. OfPlugin(queue', p) = OfPlugin(queue, p) + IF i.plugin = p THEN 1 ELSE 0
      BY <1>1, <1>3, <2>1, CountAppend DEF e
    <3>2. recorded'[p] = recorded[p] + IF i.plugin = p THEN 1 ELSE 0
      BY <1>4, CountersTyped
    <3>3. OfPlugin(queue, p) \in Nat BY <1>3, PlacesFinite
    <3>4. recorded[p] = total[p] + OfPlugin(queue, p) + Unwritten(p)
                          + dropped[p] + lost[p]
      BY DEF EventsBalance
    <3>5. total[p] \in Nat /\ dropped[p] \in Nat /\ lost[p] \in Nat BY CountersTyped
    <3> QED BY <1>5, <1>6, <2>1, <3>1, <3>2, <3>3, <3>4, <3>5
  <2> QED BY <2>3, <2>5, <2>6 DEF InOrder, EventsBalance
<1>8. CASE ~(Len(queue) < QueueSize)
  <2>1. queue' = queue /\ dropped' = [dropped EXCEPT ![i.plugin] = @ + 1]
    BY <1>8 DEF Record
  <2>2. MetricsTypeOK'
    <3>1. {dropped', total', recorded', lost'} \subseteq [PluginIds -> Nat]
      BY <1>2, <1>4, <1>5, <2>1, CountersTyped
    <3> QED BY <1>5, <2>1, <3>1 DEF MetricsTypeOK
  <2>3. RecorderInv' BY <1>5, <2>1 DEF RecorderInv
  <2>4. ASSUME NEW p \in PluginIds
        PROVE  recorded'[p] = total'[p] + OfPlugin(queue', p) + Unwritten(p)'
                                + dropped'[p] + lost'[p]
    <3>1. recorded'[p] = recorded[p] + IF i.plugin = p THEN 1 ELSE 0
      BY <1>4, CountersTyped
    <3>2. dropped'[p] = dropped[p] + IF i.plugin = p THEN 1 ELSE 0
      BY <2>1, CountersTyped
    <3>3. OfPlugin(queue, p) \in Nat BY <1>3, PlacesFinite
    <3>4. recorded[p] = total[p] + OfPlugin(queue, p) + Unwritten(p)
                          + dropped[p] + lost[p]
      BY DEF EventsBalance
    <3>5. total[p] \in Nat /\ dropped[p] \in Nat /\ lost[p] \in Nat BY CountersTyped
    <3> QED BY <1>5, <1>6, <2>1, <3>1, <3>2, <3>3, <3>4, <3>5
  <2> QED BY <2>2, <2>3, <2>4 DEF InOrder, EventsBalance
<1> QED BY <1>7, <1>8

LEMMA TakeKeeps ==
    ASSUME MetricsTypeOK, RecorderInv, EventsBalance, Take
    PROVE  InOrder
<1>1. queue \in Seq(Event) /\ queue # <<>> /\ buffer \in Seq(Event)
  BY DEF Take, MetricsTypeOK
<1>2. /\ queue' = Tail(queue) /\ buffer' = Append(buffer, Head(queue))
      /\ backend' = backend /\ purged' = purged /\ gone' = gone
      /\ written' = written /\ stop' = stop /\ dropped' = dropped
      /\ total' = total /\ perVersion' = perVersion /\ failures' = failures
      /\ recorded' = recorded /\ lost' = lost
  BY DEF Take, registryState
<1>3. /\ Head(queue) \in Event /\ queue' \in Seq(Event) /\ Len(queue') = Len(queue) - 1
      /\ Len(queue) \in Nat
  BY <1>1, <1>2, HeadTailProperties, LenProperties
<1>4. buffer' \in Seq(Event) BY <1>1, <1>2, <1>3, AppendProperties
<1>5. loop.at \in {"run", "drain"} /\ loop.next = loop.at BY DEF Take, RecorderInv
<1>6. /\ loop' \in [at : Loops \cup {"flush"}, next : Loops]
      /\ loop'.next = loop.next /\ loop'.at \in {"flush", loop.at}
  BY <1>5 DEF Take, Flushing, Loops
<1>7. MetricsTypeOK'
  BY <1>2, <1>3, <1>4, <1>6, MetricsAssumption, CountersTyped DEF MetricsTypeOK
<1>8. written = {} BY <1>5 DEF RecorderInv
<1>9. loop'.at # "flush" => loop'.next = loop'.at BY <1>5, <1>6
<1>10. RecorderInv' BY <1>2, <1>5, <1>6, <1>8, <1>9 DEF RecorderInv
<1>11. ASSUME NEW p \in PluginIds
       PROVE  recorded'[p] = total'[p] + OfPlugin(queue', p) + Unwritten(p)'
                               + dropped'[p] + lost'[p]
  <2> DEFINE one == IF Head(queue).item.plugin = p THEN 1 ELSE 0
  <2>1. OfPlugin(queue, p) = OfPlugin(queue', p) + one BY <1>1, <1>2, CountTail
  <2>2. Unwritten(p) = OfPlugin(buffer, p) BY <1>8, UnwrittenAll
  <2>3. Unwritten(p)' = OfPlugin(buffer', p) BY <1>2, <1>8, UnwrittenAllNext
  <2>4. OfPlugin(buffer', p) = OfPlugin(buffer, p) + one
    BY <1>1, <1>2, <1>3, CountAppend
  <2>5. OfPlugin(queue', p) \in Nat /\ OfPlugin(buffer, p) \in Nat
    BY <1>1, <1>3, PlacesFinite
  <2>6. recorded[p] = total[p] + OfPlugin(queue, p) + Unwritten(p)
                        + dropped[p] + lost[p]
    BY DEF EventsBalance
  <2>7. total[p] \in Nat /\ dropped[p] \in Nat /\ lost[p] \in Nat BY CountersTyped
  <2>8. one \in Nat OBVIOUS
  <2> HIDE DEF one
  <2> QED BY <1>2, <2>1, <2>2, <2>3, <2>4, <2>5, <2>6, <2>7, <2>8
<1> QED BY <1>7, <1>10, <1>11 DEF InOrder, EventsBalance

(* Steps that leave the events where they are.                             *)
LEMMA QuietKeeps ==
    ASSUME MetricsTypeOK, RecorderInv, EventsBalance,
           MetricsTypeOK', RecorderInv',
           UNCHANGED <<queue, batch, total, dropped, recorded, lost>>
    PROVE  InOrder
<1>1. \A p : Unwritten(p)' = Unwritten(p) BY DEF Unwritten, batch
<1> QED BY <1>1 DEF InOrder, EventsBalance, batch, OfPlugin

LEMMA LoopKeeps ==
    ASSUME MetricsTypeOK, RecorderInv, EventsBalance,
           FlushTick \/ SeeStop \/ Drained
    PROVE  InOrder
<1>1. /\ UNCHANGED <<queue, buffer, written, total, dropped, recorded, lost>>
      /\ UNCHANGED <<backend, purged, gone, stop, perVersion, failures>>
  BY DEF FlushTick, SeeStop, Drained, registryState, batch
<1>2. loop.at \in {"run", "drain"} /\ loop.next = loop.at /\ written = {}
  BY DEF FlushTick, SeeStop, Drained, RecorderInv
<1>3. loop' \in [at : Loops \cup {"flush"}, next : Loops]
  BY DEF FlushTick, SeeStop, Drained, Flushing, Loops
<1>4. MetricsTypeOK' BY <1>1, <1>3 DEF MetricsTypeOK
<1>5. /\ loop'.at # "flush" => loop'.next = loop'.at
      /\ loop'.next \in {"drain", "done"} => stop
      /\ loop'.next = "done" => queue = <<>>
      /\ loop'.at = "done" => buffer = <<>>
  <2>1. CASE FlushTick BY <2>1 DEF FlushTick, Flushing
  <2>2. CASE SeeStop BY <2>2 DEF SeeStop, Flushing
  <2>3. CASE Drained BY <1>2, <2>3 DEF Drained, Flushing, RecorderInv
  <2> QED BY <2>1, <2>2, <2>3
<1>6. RecorderInv' BY <1>1, <1>2, <1>5 DEF RecorderInv
<1> QED BY <1>1, <1>4, <1>6, QuietKeeps DEF batch

LEMMA RestKeeps ==
    ASSUME MetricsTypeOK, RecorderInv, EventsBalance,
           \/ Close
           \/ \E v \in Versions : PurgeVersion(v)
           \/ \E p \in PluginIds : DeletePlugin(p)
           \/ UNCHANGED metricsVars
    PROVE  InOrder
<1>1. /\ UNCHANGED <<queue, buffer, written, total, dropped, recorded, lost>>
      /\ UNCHANGED <<backend, loop, failures>>
  BY DEF Close, PurgeVersion, DeletePlugin, metricsVars, registryState, batch
<1>2. /\ stop' \in BOOLEAN /\ (stop => stop')
      /\ purged' \subseteq Versions /\ gone' \subseteq PluginIds
      /\ perVersion' \in [Versions -> Nat]
  <2>1. CASE Close BY <2>1 DEF Close, MetricsTypeOK, registryState
  <2>2. ASSUME NEW v \in Versions, PurgeVersion(v)
        PROVE  /\ stop' = stop /\ gone' = gone /\ purged' \subseteq Versions
               /\ perVersion' \in [Versions -> Nat]
    BY <2>2 DEF PurgeVersion, MetricsTypeOK
  <2>3. ASSUME NEW p \in PluginIds, DeletePlugin(p)
        PROVE  /\ stop' = stop /\ purged' = purged /\ gone' \subseteq PluginIds
               /\ perVersion' = perVersion
    BY <2>3 DEF DeletePlugin, MetricsTypeOK
  <2>4. CASE UNCHANGED metricsVars BY <2>4 DEF metricsVars, MetricsTypeOK
  <2> QED BY <2>1, <2>2, <2>3, <2>4 DEF MetricsTypeOK
<1>3. MetricsTypeOK' BY <1>1, <1>2 DEF MetricsTypeOK
<1>4. RecorderInv' BY <1>1, <1>2 DEF RecorderInv
<1> QED BY <1>1, <1>3, <1>4, QuietKeeps DEF batch

(* A flush ends: the buffer is empty and the loop goes where it would.     *)
LEMMA EmptiedFacts ==
    ASSUME MetricsTypeOK, RecorderInv, Emptied, UNCHANGED <<backend, queue, stop>>
    PROVE  /\ loop' \in [at : Loops \cup {"flush"}, next : Loops]
           /\ RecorderInv'
           /\ \A p : Unwritten(p)' = 0
<1>1. /\ buffer' = <<>> /\ written' = {}
      /\ loop' = [at |-> loop.next, next |-> loop.next]
      /\ loop.next \in Loops
  BY DEF Emptied, Flushing, MetricsTypeOK
<1>2. loop'.at = loop.next /\ loop'.next = loop.next BY <1>1
<1>3. RecorderInv' BY <1>1, <1>2 DEF RecorderInv
<1>4. \A p : Unwritten(p)' = 0 BY <1>1, UnwrittenAllNext, CountEmpty
<1> QED BY <1>1, <1>3, <1>4

LEMMA AddedTyped ==
    ASSUME NEW counters \in [PluginIds -> Nat], NEW s \in Seq(Event)
    PROVE  Added(counters, s) \in [PluginIds -> Nat]
BY PlacesFinite DEF Added

LEMMA AddedVersionsTyped ==
    ASSUME perVersion \in [Versions -> Nat], NEW s \in Seq(Event)
    PROVE  AddedVersions(s) \in [Versions -> Nat]
<1>1. ASSUME NEW v PROVE OfVersion(s, v) \in Nat
  <2> DEFINE S == {n \in 1 .. Len(s) : s[n].item.version = v}
  <2>1. IsFiniteSet(1 .. Len(s)) BY LenProperties, FS_Interval
  <2>2. IsFiniteSet(S) BY <2>1, FS_Subset
  <2> QED BY <2>2, FS_CardinalityType DEF OfVersion
<1> QED BY <1>1 DEF AddedVersions

LEMMA CommitKeeps ==
    ASSUME MetricsTypeOK, RecorderInv, EventsBalance, Commit
    PROVE  InOrder
<1>1. /\ backend = "postgres" /\ Emptied
      /\ total' = Added(total, buffer) /\ perVersion' = AddedVersions(buffer)
      /\ UNCHANGED <<backend, purged, gone, queue, stop, dropped, failures, recorded, lost>>
  BY DEF Commit, registryState
<1>2. /\ loop' \in [at : Loops \cup {"flush"}, next : Loops] /\ RecorderInv'
      /\ \A p : Unwritten(p)' = 0
  BY <1>1, EmptiedFacts
<1>3. buffer' = <<>> /\ written' = {} BY <1>1 DEF Emptied
<1>4. total' \in [PluginIds -> Nat] /\ perVersion' \in [Versions -> Nat]
  BY <1>1, CountersTyped, AddedTyped, AddedVersionsTyped DEF MetricsTypeOK
<1>5. MetricsTypeOK'
  <2>1. {dropped', total', recorded', lost'} \subseteq [PluginIds -> Nat]
    BY <1>1, <1>4, CountersTyped
  <2> QED BY <1>1, <1>2, <1>3, <1>4, <2>1, EmptySeq DEF MetricsTypeOK
<1>6. written = {} BY <1>1 DEF RecorderInv
<1>7. ASSUME NEW p \in PluginIds
      PROVE  recorded'[p] = total'[p] + OfPlugin(queue', p) + Unwritten(p)'
                              + dropped'[p] + lost'[p]
  <2>1. total'[p] = total[p] + OfPlugin(buffer, p) BY <1>1 DEF Added
  <2>2. Unwritten(p) = OfPlugin(buffer, p) BY <1>6, UnwrittenAll
  <2>3. OfPlugin(queue, p) \in Nat /\ OfPlugin(buffer, p) \in Nat
    BY PlacesFinite DEF MetricsTypeOK
  <2>4. recorded[p] = total[p] + OfPlugin(queue, p) + Unwritten(p)
                        + dropped[p] + lost[p]
    BY DEF EventsBalance
  <2>5. total[p] \in Nat /\ dropped[p] \in Nat /\ lost[p] \in Nat BY CountersTyped
  <2> QED BY <1>1, <1>2, <2>1, <2>2, <2>3, <2>4, <2>5
<1> QED BY <1>2, <1>5, <1>7 DEF InOrder, EventsBalance

LEMMA RollbackKeeps ==
    ASSUME MetricsTypeOK, RecorderInv, EventsBalance, Rollback
    PROVE  InOrder
<1>1. /\ backend = "postgres" /\ Emptied
      /\ lost' = Added(lost, buffer)
      /\ UNCHANGED <<backend, purged, gone, queue, stop, dropped, total, perVersion, recorded>>
  BY DEF Rollback, registryState
<1>2. /\ loop' \in [at : Loops \cup {"flush"}, next : Loops] /\ RecorderInv'
      /\ \A p : Unwritten(p)' = 0
  BY <1>1, EmptiedFacts
<1>3. buffer' = <<>> /\ written' = {} BY <1>1 DEF Emptied
<1>4. failures' \in 0 .. MaxFailures
  BY MetricsAssumption DEF Rollback, MetricsTypeOK
<1>5. MetricsTypeOK'
  <2>0. lost' \in [PluginIds -> Nat]
    BY <1>1, CountersTyped, AddedTyped DEF MetricsTypeOK
  <2>1. {dropped', total', recorded', lost'} \subseteq [PluginIds -> Nat]
    BY <1>1, <2>0, CountersTyped
  <2> QED BY <1>1, <1>2, <1>3, <1>4, <2>1, EmptySeq DEF MetricsTypeOK
<1>6. written = {} BY <1>1 DEF RecorderInv
<1>7. ASSUME NEW p \in PluginIds
      PROVE  recorded'[p] = total'[p] + OfPlugin(queue', p) + Unwritten(p)'
                              + dropped'[p] + lost'[p]
  <2>1. lost'[p] = lost[p] + OfPlugin(buffer, p) BY <1>1 DEF Added
  <2>2. Unwritten(p) = OfPlugin(buffer, p) BY <1>6, UnwrittenAll
  <2>3. OfPlugin(queue, p) \in Nat /\ OfPlugin(buffer, p) \in Nat
    BY PlacesFinite DEF MetricsTypeOK
  <2>4. recorded[p] = total[p] + OfPlugin(queue, p) + Unwritten(p)
                        + dropped[p] + lost[p]
    BY DEF EventsBalance
  <2>5. total[p] \in Nat /\ dropped[p] \in Nat /\ lost[p] \in Nat BY CountersTyped
  <2> QED BY <1>1, <1>2, <2>1, <2>2, <2>3, <2>4, <2>5
<1> QED BY <1>2, <1>5, <1>7 DEF InOrder, EventsBalance

LEMMA IncrKeeps ==
    ASSUME MetricsTypeOK, RecorderInv, EventsBalance, NEW i \in Items, Incr(i)
    PROVE  InOrder
<1>1. /\ backend = "file" /\ loop.at = "flush" /\ i \notin written
      /\ UNCHANGED <<backend, purged, gone, queue, stop, dropped, recorded>>
  BY DEF Incr, registryState
<1>2. i.plugin \in PluginIds BY ItemTyped
<1>3. buffer \in Seq(Event) /\ Events(i) \in Nat BY BufferFinite DEF MetricsTypeOK
<1>4. /\ failures' \in 0 .. MaxFailures
      /\ perVersion' \in [Versions -> Nat]
  <2>1. failures' \in 0 .. MaxFailures BY MetricsAssumption DEF Incr, MetricsTypeOK
  <2>2. \/ perVersion' = perVersion
        \/ perVersion' = [v \in Versions |->
               perVersion[v] + IF v = i.version THEN Events(i) ELSE 0]
    BY DEF Incr
  <2>3. perVersion \in [Versions -> Nat] BY DEF MetricsTypeOK
  <2>4. [v \in Versions |-> perVersion[v] + IF v = i.version THEN Events(i) ELSE 0]
          \in [Versions -> Nat]
    BY <1>3, <2>3
  <2> QED BY <2>1, <2>2, <2>3, <2>4
(* Counted, or lost.                                                       *)
<1>5. \/ total' = [total EXCEPT ![i.plugin] = @ + Events(i)] /\ lost' = lost
      \/ lost' = [lost EXCEPT ![i.plugin] = @ + Events(i)] /\ total' = total
  BY DEF Incr
<1>6. {dropped', total', recorded', lost'} \subseteq [PluginIds -> Nat]
  <2>1. total' \in [PluginIds -> Nat] /\ lost' \in [PluginIds -> Nat]
    <3>1. total \in [PluginIds -> Nat] /\ lost \in [PluginIds -> Nat] BY CountersTyped
    <3>2. /\ [total EXCEPT ![i.plugin] = @ + Events(i)] \in [PluginIds -> Nat]
          /\ [lost EXCEPT ![i.plugin] = @ + Events(i)] \in [PluginIds -> Nat]
      BY <1>2, <1>3, <3>1
    <3> QED BY <1>5, <3>1, <3>2
  <2> QED BY <1>1, <2>1, CountersTyped
<1>7. /\ buffer' \in Seq(Event) /\ written' \subseteq Items
      /\ loop' \in [at : Loops \cup {"flush"}, next : Loops]
      /\ RecorderInv'
      /\ \A p : Unwritten(p) = Unwritten(p)' + IF p = i.plugin THEN Events(i) ELSE 0
  <2>1. CASE \A n \in 1 .. Len(buffer) : buffer[n].item \in written \cup {i}
    <3>1. Emptied BY <2>1 DEF Incr
    <3>2. buffer' \in Seq(Event) /\ written' \subseteq Items
      BY <3>1, EmptySeq DEF Emptied
    <3>3. \A p : Unwritten(p)' = 0 /\ Unwritten(p) = IF p = i.plugin THEN Events(i) ELSE 0
      BY <1>1, <1>3, <2>1, <3>1, EmptiedFacts, UnwrittenLast
    <3>4. \A p : Unwritten(p) = Unwritten(p)' + IF p = i.plugin THEN Events(i) ELSE 0
      BY <1>3, <3>3
    <3> QED BY <1>1, <3>1, <3>2, <3>4, EmptiedFacts
  <2>2. CASE ~(\A n \in 1 .. Len(buffer) : buffer[n].item \in written \cup {i})
    <3>1. written' = written \cup {i} /\ buffer' = buffer /\ loop' = loop
      BY <2>2 DEF Incr
    <3>2. RecorderInv' BY <1>1, <3>1 DEF RecorderInv
    <3>3. \A p : Unwritten(p) = Unwritten(p)' + IF p = i.plugin THEN Events(i) ELSE 0
      BY <1>1, <1>3, <3>1, UnwrittenLess
    <3> QED BY <3>1, <3>2, <3>3 DEF MetricsTypeOK
  <2> QED BY <2>1, <2>2
<1>8. MetricsTypeOK' BY <1>1, <1>4, <1>6, <1>7 DEF MetricsTypeOK
<1>9. ASSUME NEW p \in PluginIds
      PROVE  recorded'[p] = total'[p] + OfPlugin(queue', p) + Unwritten(p)'
                              + dropped'[p] + lost'[p]
  <2> DEFINE moved == IF p = i.plugin THEN Events(i) ELSE 0
  <2>0. moved \in Nat BY <1>3
  <2>1. total'[p] + lost'[p] = total[p] + lost[p] + moved
    BY <1>2, <1>3, <1>5, CountersTyped
  <2>2. Unwritten(p) = Unwritten(p)' + moved BY <1>7
  <2>3. OfPlugin(queue, p) \in Nat /\ Unwritten(p) \in Nat
    BY PlacesFinite, BufferFinite DEF MetricsTypeOK
  <2>4. Unwritten(p)' \in Nat
    <3>1. Unwritten(p)' = Cardinality(Open(p)') BY DEF Unwritten, Open
    <3>2. Len(buffer') \in Nat BY <1>7, LenProperties
    <3>3. IsFiniteSet(1 .. Len(buffer')) BY <3>2, FS_Interval
    <3>4. Open(p)' \subseteq 1 .. Len(buffer') BY DEF Open
    <3> QED BY <3>1, <3>3, <3>4, FS_Subset, FS_CardinalityType
  <2>5. recorded[p] = total[p] + OfPlugin(queue, p) + Unwritten(p)
                        + dropped[p] + lost[p]
    BY DEF EventsBalance
  <2>6. /\ total[p] \in Nat /\ dropped[p] \in Nat /\ lost[p] \in Nat
        /\ total'[p] \in Nat /\ lost'[p] \in Nat
    BY <1>6, CountersTyped
  <2> HIDE DEF moved
  <2> QED BY <1>1, <2>0, <2>1, <2>2, <2>3, <2>4, <2>5, <2>6
<1> QED BY <1>7, <1>8, <1>9 DEF InOrder, EventsBalance

-----------------------------------------------------------------------------
(* The window                                                              *)

LEMMA HalfType == Half \in 0 .. Window
BY WindowAssumption DEF Half

Table == [Keys -> 0 .. Window \cup {Absent}]

LEMMA WithoutFacts ==
    ASSUME NEW t \in Table, NEW age
    PROVE  /\ Without(t, age) \in Table
           /\ \A k \in Keys : Without(t, age)[k] = t[k] \/ (t[k] # Absent /\ t[k] >= age)
BY DEF Without, Table

(* The sweep takes only entries whose window is over.                      *)
LEMMA CollectedFacts ==
    ASSUME WindowTypeOK
    PROVE  /\ Collected(seen) \in Table
           /\ \A k \in Keys : seen[k] \in 0 .. Window - 1 => Collected(seen)[k] = seen[k]
<1>1. seen \in Table BY DEF WindowTypeOK, Table
<1>2. \A k \in Keys : seen[k] \in 0 .. Window - 1 => ~(seen[k] >= Window)
  BY WindowAssumption
<1> QED BY <1>1, <1>2, WithoutFacts DEF Collected

LEMMA SheddingFacts ==
    ASSUME NEW t \in Table
    PROVE  Shedding(t) \in Table
<1>1. Without(t, Half + 1) \in Table BY WithoutFacts
<1>2. [k \in Keys |-> Absent] \in Table BY DEF Table
<1> QED BY <1>1, <1>2 DEF Shedding

LEMMA ShouldCountKeeps ==
    ASSUME WindowTypeOK, CountRemembered, NEW k \in Keys, NEW yes \in BOOLEAN,
           ShouldCount(k, yes)
    PROVE  WindowTypeOK' /\ CountRemembered'
<1> DEFINE before == Collected(seen)
           after == Shedding(before)
<1>1. before \in Table /\ after \in Table BY CollectedFacts, SheddingFacts
<1>2. /\ gcAge' = IF gcAge >= Half THEN 0 ELSE gcAge
      /\ seen' = IF yes THEN [after EXCEPT ![k] = 0] ELSE after
      /\ since' = IF yes THEN [since EXCEPT ![k] = 0] ELSE since
      /\ shed' = (shed \cup {l \in Keys : before[l] # after[l]})
                 \ (IF yes THEN {k} ELSE {})
  BY DEF ShouldCount
<1>3. \A l \in Keys : seen[l] \in 0 .. Window - 1 => before[l] = seen[l]
  BY CollectedFacts
<1> HIDE DEF before, after
<1>4. WindowTypeOK'
  BY <1>1, <1>2, WindowAssumption DEF WindowTypeOK, Table
<1>5. ASSUME NEW l \in Keys, since'[l] < Window, l \notin shed'
      PROVE  seen'[l] = since'[l]
  <2>1. CASE yes /\ l = k BY <1>1, <1>2, <2>1 DEF WindowTypeOK, Table
  <2>2. CASE ~(yes /\ l = k)
    <3>1. since'[l] = since[l] /\ seen'[l] = after[l]
      BY <1>1, <1>2, <2>2 DEF WindowTypeOK, Table
    <3>2. l \notin shed /\ before[l] = after[l] BY <1>2, <1>5, <2>2
    <3>3. seen[l] = since[l] BY <1>5, <3>1, <3>2 DEF CountRemembered
    <3>4. seen[l] \in 0 .. Window - 1
      BY <1>5, <3>1, <3>3, WindowAssumption DEF WindowTypeOK
    <3> QED BY <1>3, <3>1, <3>2, <3>3, <3>4
  <2> QED BY <2>1, <2>2
<1> QED BY <1>4, <1>5 DEF CountRemembered

LEMMA WindowTickKeeps ==
    ASSUME WindowTypeOK, CountRemembered, WindowTick
    PROVE  WindowTypeOK' /\ CountRemembered'
<1>1. WindowTypeOK' BY WindowAssumption DEF WindowTick, WindowTypeOK
<1>2. ASSUME NEW k \in Keys, since'[k] < Window, k \notin shed'
      PROVE  seen'[k] = since'[k]
  <2>1. since[k] \in 0 .. Window BY DEF WindowTypeOK
  <2>2. since'[k] = IF since[k] < Window THEN since[k] + 1 ELSE since[k]
    BY DEF WindowTick
  <2>3. since[k] < Window /\ k \notin shed BY <1>2, <2>1, <2>2 DEF WindowTick
  <2>4. seen[k] = since[k] BY <2>3 DEF CountRemembered
  <2> QED BY <2>1, <2>2, <2>3, <2>4, WindowAssumption DEF WindowTick
<1> QED BY <1>1, <1>2 DEF CountRemembered

-----------------------------------------------------------------------------
(* Requests, window and recorder together                                  *)

Request == {Waiting} \cup
               [phase : {"track", "record"}, client : Clients, item : Items]

LEMMA RequestTyped ==
    ASSUME TypeOK, NEW q \in Requests, ~Now(q, "none")
    PROVE  /\ request[q] \in [phase : {"track", "record"}, client : Clients, item : Items]
           /\ request[q].item \in Items /\ request[q].client \in Clients
BY DEF TypeOK, Now, Waiting

LEMMA GoesTyped ==
    ASSUME TypeOK, NEW q \in Requests, NEW rec \in Request, Goes(q, rec)
    PROVE  request' \in [Requests -> Request]
BY DEF TypeOK, Goes, Request

(* The window is only asked about versions.                                *)
AsksForVersion ==
    \A q \in Requests : Now(q, "track") => request[q].item.version \in Versions

IInv ==
    /\ TypeOK
    /\ CountRemembered
    /\ EventsBalance
    /\ RecorderInv
    /\ AsksForVersion

LEMMA InitInv == Init => IInv
<1> SUFFICES ASSUME Init PROVE IInv OBVIOUS
<1>1. WindowTypeOK /\ CountRemembered
  BY WindowAssumption DEF Init, WindowInit, WindowTypeOK, CountRemembered
<1>2. MetricsTypeOK
  <2>1. Zero \in [PluginIds -> Nat] BY DEF Zero
  <2>2. {dropped, total, recorded, lost} \subseteq [PluginIds -> Nat]
    BY <2>1 DEF Init, MetricsInit
  <2>3. Len(queue) <= QueueSize BY MetricsAssumption, EmptySeq DEF Init, MetricsInit
  <2>4. queue \in Seq(Event) /\ buffer \in Seq(Event)
    BY EmptySeq DEF Init, MetricsInit
  <2>5. loop \in [at : Loops \cup {"flush"}, next : Loops]
    BY DEF Init, MetricsInit, Loops
  <2>6. failures \in 0 .. MaxFailures BY MetricsAssumption DEF Init, MetricsInit
  <2>7. /\ perVersion \in [Versions -> Nat] /\ purged \subseteq Versions
        /\ gone \subseteq PluginIds /\ stop \in BOOLEAN /\ written \subseteq Items
        /\ backend \in {"postgres", "file"}
    BY DEF Init, MetricsInit
  <2> QED BY <2>2, <2>3, <2>4, <2>5, <2>6, <2>7 DEF MetricsTypeOK
<1>3. RecorderInv BY DEF Init, MetricsInit, RecorderInv
<1>4. ASSUME NEW p \in PluginIds
      PROVE  recorded[p] = total[p] + OfPlugin(queue, p) + Unwritten(p)
                             + dropped[p] + lost[p]
  <2>1. Unwritten(p) = OfPlugin(buffer, p) BY UnwrittenAll DEF Init, MetricsInit
  <2>2. OfPlugin(buffer, p) = 0 /\ OfPlugin(queue, p) = 0
    BY CountEmpty DEF Init, MetricsInit
  <2> QED BY <2>1, <2>2 DEF Init, MetricsInit, Zero
<1>5. request \in [Requests -> Request] BY DEF Init, Request
<1>6. AsksForVersion BY DEF Init, AsksForVersion, Now, Waiting
<1> QED BY <1>1, <1>2, <1>3, <1>4, <1>5, <1>6
    DEF IInv, TypeOK, EventsBalance, Request

(* A step of one part leaves the invariants of the other two.              *)
LEMMA WindowAlone ==
    ASSUME WindowTypeOK, CountRemembered, UNCHANGED windowVars
    PROVE  WindowTypeOK' /\ CountRemembered'
BY DEF WindowTypeOK, CountRemembered, windowVars

LEMMA MetricsAlone ==
    ASSUME MetricsTypeOK, RecorderInv, EventsBalance, UNCHANGED metricsVars
    PROVE  InOrder
BY RestKeeps

LEMMA AskKeeps ==
    ASSUME IInv, NEW q \in Requests, Ask(q)
    PROVE  IInv'
<1> USE DEF IInv
<1>1. Now(q, "track") /\ UNCHANGED metricsVars BY DEF Ask
<1>2. PICK yes \in BOOLEAN :
        /\ ShouldCount(<<request[q].client, request[q].item.version>>, yes)
        /\ Goes(q, IF yes THEN [request[q] EXCEPT !.phase = "record"] ELSE Waiting)
  BY DEF Ask
<1> DEFINE rec == IF yes THEN [request[q] EXCEPT !.phase = "record"] ELSE Waiting
<1>3. ~Now(q, "none") BY <1>1 DEF Now
<1>4. /\ request[q] \in [phase : {"track", "record"}, client : Clients, item : Items]
      /\ request[q].client \in Clients
  BY <1>3, RequestTyped
<1>5. <<request[q].client, request[q].item.version>> \in Keys
  BY <1>1, <1>4, PathAssumption DEF AsksForVersion
<1>6. WindowTypeOK' /\ CountRemembered'
  BY <1>2, <1>5, ShouldCountKeeps DEF TypeOK
<1>7. InOrder BY <1>1, MetricsAlone DEF TypeOK
<1>8. rec \in Request /\ rec.phase # "track" BY <1>4 DEF Request, Waiting
<1>9. Goes(q, rec) BY <1>2
<1> HIDE DEF rec
<1>10. request' \in [Requests -> Request] BY <1>8, <1>9, GoesTyped
<1>11. AsksForVersion' BY <1>8, <1>9 DEF AsksForVersion, Now, Goes, TypeOK
<1> QED BY <1>6, <1>7, <1>10, <1>11 DEF TypeOK, InOrder, Request

LEMMA FoundKeeps ==
    ASSUME IInv, NEW q \in Requests, NEW c \in Clients, NEW i \in Items,
           TrackDownload(q, c, i) \/ DownloadOrView(q, c, i)
    PROVE  IInv'
<1> USE DEF IInv
<1>1. PICK phase \in {"track", "record"} :
        /\ Found(q, c, i, phase)
        /\ phase = "track" => i.version # NoVersion
  BY DEF TrackDownload, DownloadOrView
<1> DEFINE rec == [phase |-> phase, client |-> c, item |-> i]
<1>2. rec \in Request BY DEF Request
<1>3. rec.phase = "track" => rec.item.version \in Versions BY <1>1, ItemTyped
<1>4. Goes(q, rec) /\ UNCHANGED windowVars /\ UNCHANGED metricsVars
  BY <1>1 DEF Found
<1> HIDE DEF rec
<1>5. request' \in [Requests -> Request] BY <1>2, <1>4, GoesTyped
<1>6. AsksForVersion' BY <1>3, <1>4 DEF AsksForVersion, Now, Goes, TypeOK
<1>7. WindowTypeOK' /\ CountRemembered' BY <1>4, WindowAlone DEF TypeOK
<1>8. InOrder BY <1>4, MetricsAlone DEF TypeOK
<1> QED BY <1>5, <1>6, <1>7, <1>8 DEF TypeOK, InOrder, Request

LEMMA RecordItKeeps ==
    ASSUME IInv, NEW q \in Requests, RecordIt(q)
    PROVE  IInv'
<1> USE DEF IInv
<1>1. /\ Now(q, "record") /\ Record(request[q].item)
      /\ Goes(q, Waiting) /\ UNCHANGED windowVars
  BY DEF RecordIt
<1>2. ~Now(q, "none") BY <1>1 DEF Now
<1>3. request[q].item \in Items BY <1>2, RequestTyped
<1>4. InOrder BY <1>1, <1>3, RecordKeeps DEF TypeOK
<1>5. WindowTypeOK' /\ CountRemembered' BY <1>1, WindowAlone DEF TypeOK
<1>6. Waiting \in Request /\ Waiting.phase # "track" BY DEF Request, Waiting
<1>7. request' \in [Requests -> Request] BY <1>1, <1>6, GoesTyped
<1>8. AsksForVersion' BY <1>1, <1>6 DEF AsksForVersion, Now, Goes, TypeOK
<1> QED BY <1>4, <1>5, <1>7, <1>8 DEF TypeOK, InOrder, Request

LEMMA BackgroundKeeps ==
    ASSUME IInv, Background
    PROVE  IInv'
<1> USE DEF IInv
<1>1. UNCHANGED windowVars /\ request' = request BY DEF Background
<1>2. WindowTypeOK' /\ CountRemembered' BY <1>1, WindowAlone DEF TypeOK
<1>3. MetricsTypeOK BY DEF TypeOK
<1>4. InOrder
  <2>1. CASE Take BY <1>3, <2>1, TakeKeeps
  <2>2. CASE FlushTick \/ SeeStop \/ Drained BY <1>3, <2>2, LoopKeeps
  <2>3. CASE Commit BY <1>3, <2>3, CommitKeeps
  <2>4. CASE Rollback BY <1>3, <2>4, RollbackKeeps
  <2>5. ASSUME NEW i \in Items, Incr(i) PROVE InOrder BY <1>3, <2>5, IncrKeeps
  <2>6. CASE Close \/ (\E v \in Versions : PurgeVersion(v))
                   \/ (\E p \in PluginIds : DeletePlugin(p))
    BY <1>3, <2>6, RestKeeps
  <2> QED BY <2>1, <2>2, <2>3, <2>4, <2>5, <2>6 DEF Background, Recorder
<1>5. AsksForVersion' BY <1>1 DEF AsksForVersion, Now
<1> QED BY <1>1, <1>2, <1>4, <1>5 DEF TypeOK, InOrder

LEMMA StepInv == IInv /\ [Next]_vars => IInv'
<1> SUFFICES ASSUME IInv, [Next]_vars PROVE IInv' OBVIOUS
<1> USE DEF IInv
<1>1. ASSUME NEW q \in Requests, Handle(q) PROVE IInv'
  BY <1>1, FoundKeeps, AskKeeps, RecordItKeeps DEF Handle
<1>2. CASE Background BY <1>2, BackgroundKeeps
<1>3. CASE Tick
  <2>1. WindowTypeOK' /\ CountRemembered'
    BY <1>3, WindowTickKeeps DEF Tick, TypeOK
  <2>2. InOrder /\ request' = request BY <1>3, MetricsAlone DEF Tick, TypeOK
  <2>3. AsksForVersion' BY <2>2 DEF AsksForVersion, Now
  <2> QED BY <2>1, <2>2, <2>3 DEF TypeOK, InOrder
<1>4. CASE UNCHANGED vars
  <2>1. UNCHANGED windowVars /\ UNCHANGED metricsVars /\ request' = request
    BY <1>4 DEF vars
  <2>2. WindowTypeOK' /\ CountRemembered' BY <2>1, WindowAlone DEF TypeOK
  <2>3. InOrder BY <2>1, MetricsAlone DEF TypeOK
  <2>4. AsksForVersion' BY <2>1 DEF AsksForVersion, Now
  <2> QED BY <2>1, <2>2, <2>3, <2>4 DEF TypeOK, InOrder
<1> QED BY <1>1, <1>2, <1>3, <1>4 DEF Next

LEMMA Inductive == Spec => []IInv
BY InitInv, StepInv, PTL DEF Spec

(* The types hold in every reachable state; among them the bound of the    *)
(* queue, which Record keeps by dropping.                                  *)
THEOREM TypeCorrect == Spec => []TypeOK
<1>1. IInv => TypeOK BY DEF IInv
<1> QED BY <1>1, Inductive, PTL

(* A counted download is remembered for its window: neither the sweep nor  *)
(* another client's downloads make ShouldCount say yes a second time.      *)
THEOREM DownloadsCountOnce == Spec => []CountRemembered
<1>1. IInv => CountRemembered BY DEF IInv
<1> QED BY <1>1, Inductive, PTL

(* Every recorded event is counted once, waits, or was dropped or lost,    *)
(* on both backends, whatever is purged or deleted meanwhile.              *)
THEOREM EventsAccountedFor == Spec => []EventsBalance
<1>1. IInv => EventsBalance BY DEF IInv
<1> QED BY <1>1, Inductive, PTL

(* When the goroutine ends, it has flushed all that was recorded before    *)
(* Close.                                                                  *)
THEOREM ClosedEmpty == Spec => []NothingLeftBehind
<1>1. IInv => NothingLeftBehind BY DEF IInv, RecorderInv, NothingLeftBehind
<1> QED BY <1>1, Inductive, PTL
-----------------------------------------------------------------------------
(* The rate limiter                                                         *)

Tables == [Addresses -> Buckets \cup {NoBucket}]

LEMMA LeastOfType ==
    ASSUME NEW a \in Nat, NEW b \in Nat
    PROVE  LeastOf(a, b) \in 0 .. a
BY DEF LeastOf

LEMMA FullType == Full \in Bucket
BY LimiterAssumption DEF Full, Bucket

LEMMA EvictIdleFacts ==
    ASSUME NEW t \in Tables, NEW age
    PROVE  EvictIdle(t, age) \in Tables /\ Entries(EvictIdle(t, age)) \subseteq Entries(t)
BY DEF EvictIdle, Tables, Entries

LEMMA SweptFacts ==
    ASSUME LimiterTypeOK
    PROVE  Swept \in Tables /\ Entries(Swept) \subseteq Entries(table)
<1>1. table \in Tables BY DEF LimiterTypeOK, Tables
<1> QED BY <1>1, EvictIdleFacts DEF Swept

(* A table with room has fewer entries than the limit.                     *)
LEMMA SqueezedFacts ==
    ASSUME NEW t \in Tables
    PROVE  Squeezed(t) \in Tables /\ Cardinality(Entries(Squeezed(t))) < MaxBuckets
<1> DEFINE empty == [c \in Addresses |-> NoBucket]
<1>1. Tight(t) \in Tables BY EvictIdleFacts DEF Tight
<1>2. empty \in Tables BY DEF Tables
<1>3. Entries(empty) = {} BY DEF Entries
<1>4. Cardinality(Entries(empty)) = 0 BY <1>3, FS_EmptySet
<1>5. Cardinality(Entries(Tight(t))) \in Nat
  BY FS_Subset, FS_CardinalityType, LimiterAssumption DEF Entries
<1>6. Squeezed(t) = IF Overrun(t) THEN empty ELSE Tight(t) BY DEF Squeezed
<1> HIDE DEF empty
<1> QED BY <1>1, <1>2, <1>4, <1>5, <1>6, LimiterAssumption DEF Overrun

LEMMA KeptType ==
    ASSUME LimiterTypeOK, NEW t
    PROVE  Kept(t) \in [Buckets -> Bucket]
BY FullType DEF LimiterTypeOK, Kept

LEMMA LimiterInitInv == LimiterInit => LimiterTypeOK /\ TableBounded
<1> SUFFICES ASSUME LimiterInit PROVE LimiterTypeOK /\ TableBounded OBVIOUS
<1>1. LimiterTypeOK BY FullType, LimiterAssumption DEF LimiterInit, LimiterTypeOK
<1>2. Entries(table) = {} BY DEF LimiterInit, Entries
<1>3. TableBounded BY <1>2, FS_EmptySet, LimiterAssumption DEF TableBounded
<1> QED BY <1>1, <1>3

LEMMA GetBucketInv ==
    ASSUME LimiterTypeOK, TableBounded, NEW q \in Callers, NEW c \in Addresses, GetBucket(q, c)
    PROVE  LimiterTypeOK' /\ TableBounded'
<1>1. Swept \in Tables /\ Entries(Swept) \subseteq Entries(table) BY SweptFacts
<1>2. cleanup' \in 0 .. Rate + 1 BY LimiterAssumption DEF GetBucket, LimiterTypeOK
<1>3. CASE Swept[c] # NoBucket
  <2>1. Swept[c] \in Buckets BY <1>1, <1>3 DEF Tables
  <2>2. /\ table' = Swept
        /\ holds' = [holds EXCEPT ![q] = [client |-> c, bucket |-> Swept[c]]]
        /\ heap' = Kept(Swept)
        /\ ideal' = ideal
    BY <1>3 DEF GetBucket
  <2>3. LimiterTypeOK' BY <1>1, <1>2, <2>1, <2>2, KeptType DEF LimiterTypeOK, Tables
  <2>4. IsFiniteSet(Entries(table))
    BY FS_Subset, LimiterAssumption DEF Entries
  <2>5. /\ Cardinality(Entries(Swept)) <= Cardinality(Entries(table))
        /\ Cardinality(Entries(Swept)) \in Nat /\ Cardinality(Entries(table)) \in Nat
    BY <1>1, <2>4, FS_Subset, FS_CardinalityType
  <2>6. TableBounded' BY <2>2, <2>5, LimiterAssumption DEF TableBounded, Entries
  <2> QED BY <2>3, <2>6
<1>4. CASE ~(Swept[c] # NoBucket)
  <2> DEFINE room == Squeezed(Swept)
  <2>1. PICK b \in Buckets :
          /\ table' = [room EXCEPT ![c] = b]
          /\ heap' = [Kept(room) EXCEPT ![b] = Full]
          /\ holds' = [holds EXCEPT ![q] = [client |-> c, bucket |-> b]]
          /\ ideal' = IF Overrun(Swept) THEN [d \in Addresses |-> Rate] ELSE ideal
    BY <1>4 DEF GetBucket
  <2>2. room \in Tables /\ Cardinality(Entries(room)) < MaxBuckets
    BY <1>1, SqueezedFacts
  <2>3. Kept(room) \in [Buckets -> Bucket] BY KeptType
  <2> HIDE DEF room
  <2>4. heap' \in [Buckets -> Bucket] BY <2>1, <2>3, FullType
  <2>5. table' \in [Addresses -> Buckets \cup {NoBucket}] BY <2>1, <2>2 DEF Tables
  <2>6. holds' \in [Callers -> [client : Addresses, bucket : Buckets] \cup {NoBucket}]
    BY <2>1 DEF LimiterTypeOK
  <2>7. ideal' \in [Addresses -> Int] BY <2>1, LimiterAssumption DEF LimiterTypeOK
  <2>8. Entries(table') \subseteq Entries(room) \cup {c}
    BY <2>1, <2>2 DEF Entries, Tables
  <2>9. IsFiniteSet(Entries(room)) /\ IsFiniteSet(Entries(room) \cup {c})
    BY FS_Subset, FS_AddElement, LimiterAssumption DEF Entries
  <2>10. /\ Cardinality(Entries(room) \cup {c}) <= Cardinality(Entries(room)) + 1
         /\ Cardinality(Entries(room)) \in Nat
         /\ Cardinality(Entries(room) \cup {c}) \in Nat
    BY <2>9, FS_AddElement, FS_CardinalityType
  <2>11. /\ Cardinality(Entries(table')) <= Cardinality(Entries(room) \cup {c})
         /\ Cardinality(Entries(table')) \in Nat
    BY <2>8, <2>9, FS_Subset, FS_CardinalityType
  <2>12. TableBounded'
    BY <2>2, <2>10, <2>11, LimiterAssumption DEF TableBounded, Entries
  <2> QED BY <1>2, <2>4, <2>5, <2>6, <2>7, <2>12 DEF LimiterTypeOK
<1> QED BY <1>3, <1>4

LEMMA AllowInv ==
    ASSUME LimiterTypeOK, TableBounded, NEW q \in Callers, Allow(q)
    PROVE  LimiterTypeOK' /\ TableBounded'
<1> DEFINE b == holds[q].bucket
           left == IF Level(b) >= 1 THEN Level(b) - 1 ELSE Level(b)
<1>1. holds[q] \in [client : Addresses, bucket : Buckets] BY DEF Allow, LimiterTypeOK
<1>2. b \in Buckets /\ heap[b] \in Bucket BY <1>1 DEF LimiterTypeOK
<1>3. heap[b].tokens + heap[b].idle \in Nat BY <1>2, LimiterAssumption DEF Bucket
<1>4. Level(b) \in 0 .. Rate BY <1>3, LeastOfType, LimiterAssumption DEF Level
<1>5. [tokens |-> left, idle |-> 0] \in Bucket BY <1>4, LimiterAssumption DEF Bucket
<1>6. heap' = [heap EXCEPT ![b] = [tokens |-> left, idle |-> 0]] BY DEF Allow
<1>7. heap' \in [Buckets -> Bucket] BY <1>5, <1>6 DEF LimiterTypeOK
<1>8. ideal' \in [Addresses -> Int] BY <1>1 DEF Allow, LimiterTypeOK
<1>9. LimiterTypeOK' BY <1>7, <1>8 DEF Allow, LimiterTypeOK
<1>10. TableBounded' BY DEF Allow, TableBounded, Entries
<1> QED BY <1>9, <1>10

LEMMA LimiterTickInv ==
    ASSUME LimiterTypeOK, TableBounded, LimiterTick
    PROVE  LimiterTypeOK' /\ TableBounded'
<1>1. ASSUME NEW b \in Buckets
      PROVE  [heap[b] EXCEPT !.idle = LeastOf(@ + 1, IdleFor + 1)] \in Bucket
  <2>1. heap[b] \in Bucket BY DEF LimiterTypeOK
  <2>2. heap[b].idle + 1 \in Nat BY <2>1, LimiterAssumption DEF Bucket
  <2>3. LeastOf(heap[b].idle + 1, IdleFor + 1) \in 0 .. IdleFor + 1
    BY <2>2, LimiterAssumption DEF LeastOf
  <2> QED BY <2>1, <2>3 DEF Bucket
<1>2. heap' \in [Buckets -> Bucket] BY <1>1, FullType DEF LimiterTick
<1>3. cleanup' \in 0 .. Rate + 1 BY LimiterAssumption DEF LimiterTick, LimiterTypeOK, LeastOf
<1>4. ideal' \in [Addresses -> Int] BY LimiterAssumption DEF LimiterTick, LimiterTypeOK, LeastOf
<1>5. LimiterTypeOK' BY <1>2, <1>3, <1>4 DEF LimiterTick, LimiterTypeOK
<1>6. TableBounded' BY DEF LimiterTick, TableBounded, Entries
<1> QED BY <1>5, <1>6

LEMMA LimiterNextInv ==
    LimiterTypeOK /\ TableBounded /\ [LimiterNext]_limiterVars
        => LimiterTypeOK' /\ TableBounded'
<1> SUFFICES ASSUME LimiterTypeOK, TableBounded, [LimiterNext]_limiterVars
             PROVE  LimiterTypeOK' /\ TableBounded'
  OBVIOUS
<1>1. CASE LimiterNext BY <1>1, GetBucketInv, AllowInv, LimiterTickInv DEF LimiterNext
<1>2. CASE UNCHANGED limiterVars BY <1>2 DEF limiterVars, LimiterTypeOK, TableBounded, Entries
<1> QED BY <1>1, <1>2

(* The state of RateLimiter has its type in every reachable state.         *)
THEOREM LimiterTypeCorrect == LimiterSpec => []LimiterTypeOK
BY LimiterInitInv, LimiterNextInv, PTL DEF LimiterSpec

(* The bucket table stays within its limit for any stream of addresses.    *)
THEOREM Bounded == LimiterSpec => []TableBounded
BY LimiterInitInv, LimiterNextInv, PTL DEF LimiterSpec

-----------------------------------------------------------------------------
(* What an address may spend at once: its bucket's level, or a new one's.  *)
Left(c) == IF table[c] = NoBucket THEN Rate ELSE Level(table[c])

(* An address never has more in its bucket than the ideal one would hold.  *)
(* This is what makes WithinBudget inductive.                              *)
Backed == \A c \in Addresses : ideal[c] >= Left(c)

LEMMA LevelFacts ==
    ASSUME LimiterTypeOK, NEW b \in Buckets
    PROVE  /\ Level(b) \in 0 .. Rate
           /\ heap[b].idle > Rate => Level(b) = Rate
<1>1. heap[b].tokens \in Nat /\ heap[b].idle \in Nat
  BY LimiterAssumption DEF LimiterTypeOK, Bucket
<1> QED BY <1>1, LimiterAssumption DEF Level, LeastOf

LEMMA FullLevel ==
    ASSUME NEW c \in Addresses, table'[c] \in Buckets, heap'[table'[c]] = Full
    PROVE  Left(c)' = Rate
BY LimiterAssumption DEF Left, Level, LeastOf, Full

LEMMA LeftFacts ==
    ASSUME LimiterTypeOK, NEW c \in Addresses
    PROVE  Left(c) \in 0 .. Rate
BY LevelFacts, LimiterAssumption DEF Left, LimiterTypeOK

(* An entry is evicted only when its bucket is full.                       *)
Spared(t) == \A c \in Addresses : t[c] = table[c] \/ (t[c] = NoBucket /\ Left(c) = Rate)

LEMMA EvictionSpares ==
    ASSUME LimiterTypeOK, NEW t \in Tables, Spared(t), NEW age \in Nat, age >= Rate
    PROVE  Spared(EvictIdle(t, age))
<1> SUFFICES ASSUME NEW c \in Addresses,
                    t[c] # NoBucket, heap[t[c]].idle > age
             PROVE  Left(c) = Rate
  BY DEF Spared, EvictIdle
<1>1. table[c] = t[c] /\ t[c] \in Buckets BY DEF Spared, Tables
<1>2. heap[t[c]].idle \in Nat BY <1>1, LimiterAssumption DEF LimiterTypeOK, Bucket
<1>3. heap[t[c]].idle > Rate BY <1>2, LimiterAssumption
<1> QED BY <1>1, <1>3, LevelFacts DEF Left

LEMMA SweptSpares ==
    ASSUME LimiterTypeOK
    PROVE  Spared(Swept)
<1>1. Spared(table) /\ table \in Tables BY DEF Spared, LimiterTypeOK, Tables
<1> QED BY <1>1, EvictionSpares, LimiterAssumption DEF Swept

LEMMA TightSpares ==
    ASSUME LimiterTypeOK, NEW t \in Tables, Spared(t)
    PROVE  Spared(Tight(t))
BY EvictionSpares, LimiterAssumption DEF Tight

(* A bucket that stays in the table keeps its level.                       *)
LEMMA KeptLevel ==
    ASSUME LimiterTypeOK, NEW t \in Tables, NEW c \in Addresses, t[c] # NoBucket
    PROVE  Kept(t)[t[c]] = heap[t[c]]
BY DEF Kept, Unused, Tables

LEMMA GetBucketBacked ==
    ASSUME LimiterTypeOK, Backed, NEW q \in Callers, NEW c \in Addresses,
           GetBucket(q, c), NEW d \in Addresses
    PROVE  ideal'[d] >= Left(d)'
<1>1. Swept \in Tables /\ Spared(Swept) BY SweptFacts, SweptSpares
<1>2. ideal[d] \in Int /\ ideal[d] >= Left(d) /\ Left(d) \in 0 .. Rate
  BY LeftFacts DEF Backed, LimiterTypeOK
<1>3. CASE Swept[c] # NoBucket
  <2>1. table' = Swept /\ heap' = Kept(Swept) /\ ideal' = ideal
    BY <1>3 DEF GetBucket
  <2>2. CASE Swept[d] = NoBucket
    <3>1. Left(d) = Rate BY <1>1, <2>2 DEF Spared, Left
    <3> QED BY <1>2, <2>1, <2>2, <3>1 DEF Left
  <2>3. CASE Swept[d] # NoBucket
    <3>1. Swept[d] = table[d] BY <1>1, <2>3 DEF Spared
    <3>2. heap'[table'[d]] = heap[table[d]] BY <1>1, <2>1, <2>3, <3>1, KeptLevel
    <3> QED BY <1>2, <2>1, <2>3, <3>1, <3>2 DEF Left, Level
  <2> QED BY <2>2, <2>3
<1>4. CASE ~(Swept[c] # NoBucket)
  <2> DEFINE room == Squeezed(Swept)
  <2>1. PICK b \in Buckets :
          /\ Unused(b, room)
          /\ table' = [room EXCEPT ![c] = b]
          /\ heap' = [Kept(room) EXCEPT ![b] = Full]
          /\ ideal' = IF Overrun(Swept) THEN [e \in Addresses |-> Rate] ELSE ideal
    BY <1>4 DEF GetBucket
  <2>2. room \in Tables BY <1>1, SqueezedFacts
  <2>3. Kept(room) \in [Buckets -> Bucket] BY KeptType
  <2>4. CASE Overrun(Swept)
    <3>1. ideal'[d] = Rate BY <2>1, <2>4
    <3>2. \A e \in Addresses : room[e] = NoBucket BY <2>4 DEF Squeezed
    <3> HIDE DEF room
    <3>3. CASE d # c
      <4>1. table'[d] = NoBucket BY <2>1, <2>2, <3>2, <3>3 DEF Tables
      <4> QED BY <3>1, <4>1, LimiterAssumption DEF Left
    <3>4. CASE d = c
      <4>1. table'[d] = b /\ heap'[b] = Full BY <2>1, <2>2, <2>3, <3>4 DEF Tables
      <4> QED BY <3>1, <4>1, FullLevel, LimiterAssumption
    <3> QED BY <3>3, <3>4
  <2>5. CASE ~Overrun(Swept)
    <3>1. room = Tight(Swept) /\ ideal' = ideal BY <2>1, <2>5 DEF Squeezed
    <3>2. Spared(room) BY <1>1, <3>1, TightSpares
    <3> HIDE DEF room
    <3>3. room[c] = NoBucket BY <1>4, <3>1 DEF Tight, EvictIdle
    <3>4. CASE d = c
      <4>1. table'[d] = b /\ heap'[b] = Full BY <2>1, <2>2, <2>3, <3>4 DEF Tables
      <4>2. Left(d) = Rate BY <3>2, <3>3, <3>4 DEF Spared, Left
      <4> QED BY <1>2, <3>1, <4>1, <4>2, FullLevel
    <3>5. CASE d # c /\ room[d] = NoBucket
      <4>1. table'[d] = NoBucket BY <2>1, <2>2, <3>5 DEF Tables
      <4>2. Left(d) = Rate BY <3>2, <3>5 DEF Spared, Left
      <4> QED BY <1>2, <3>1, <4>1, <4>2 DEF Left
    <3>6. CASE d # c /\ room[d] # NoBucket
      <4>1. room[d] = table[d] /\ room[d] \in Buckets /\ room[d] # b
        BY <2>1, <2>2, <3>2, <3>6 DEF Spared, Tables, Unused
      <4>2. table'[d] = table[d] BY <2>1, <2>2, <3>6, <4>1 DEF Tables
      <4>3. heap'[room[d]] = heap[room[d]] BY <2>1, <2>2, <2>3, <3>6, <4>1, KeptLevel
      <4> QED BY <1>2, <3>1, <3>6, <4>1, <4>2, <4>3 DEF Left, Level
    <3> QED BY <3>4, <3>5, <3>6
  <2> QED BY <2>4, <2>5
<1> QED BY <1>3, <1>4

LEMMA AllowBacked ==
    ASSUME LimiterTypeOK, Backed, NEW q \in Callers, Allow(q), NEW d \in Addresses
    PROVE  ideal'[d] >= Left(d)'
<1> DEFINE b == holds[q].bucket
           client == holds[q].client
           left == IF Level(b) >= 1 THEN Level(b) - 1 ELSE Level(b)
<1>1. holds[q] \in [client : Addresses, bucket : Buckets] BY DEF Allow, LimiterTypeOK
<1>2. b \in Buckets /\ Level(b) \in 0 .. Rate BY <1>1, LevelFacts
<1>3. /\ heap' = [heap EXCEPT ![b] = [tokens |-> left, idle |-> 0]]
      /\ table' = table
      /\ ideal' = IF Level(b) >= 1 /\ table[client] = b
                  THEN [ideal EXCEPT ![client] = @ - 1] ELSE ideal
  BY DEF Allow
<1>4. ideal[d] \in Int /\ ideal[d] >= Left(d) /\ Left(d) \in 0 .. Rate
  BY LeftFacts DEF Backed, LimiterTypeOK
<1>5. CASE table[d] = b
  <2>1. Left(d) = Level(b) BY <1>2, <1>5, LimiterAssumption DEF Left
  <2>2. heap'[b] = [tokens |-> left, idle |-> 0] BY <1>2, <1>3 DEF LimiterTypeOK
  <2>3. Left(d)' = left
    <3> HIDE DEF b
    <3>1. left \in 0 .. Rate BY <1>2, LimiterAssumption
    <3>2. heap'[b].tokens + heap'[b].idle = left BY <2>2, <3>1
    <3>3. table'[d] = b /\ b # NoBucket BY <1>2, <1>3, <1>5, LimiterAssumption
    <3> HIDE DEF left
    <3> QED BY <3>1, <3>2, <3>3, LimiterAssumption DEF Left, Level, LeastOf
  <2>4. ideal'[d] = ideal[d] \/ (Level(b) >= 1 /\ ideal'[d] = ideal[d] - 1)
    BY <1>3, <1>4 DEF LimiterTypeOK
  <2> QED BY <1>2, <1>4, <2>1, <2>3, <2>4
<1>6. CASE table[d] # b
  <2>1. Left(d)' = Left(d) BY <1>3, <1>6 DEF Left, Level, LimiterTypeOK
  <2>2. ideal'[d] = ideal[d] BY <1>1, <1>3, <1>6 DEF LimiterTypeOK
  <2> QED BY <1>4, <2>1, <2>2
<1> QED BY <1>5, <1>6

LEMMA TickBacked ==
    ASSUME LimiterTypeOK, Backed, LimiterTick, NEW d \in Addresses
    PROVE  ideal'[d] >= Left(d)'
<1>1. ideal[d] \in Int /\ ideal[d] >= Left(d) /\ Left(d) \in 0 .. Rate
  BY LeftFacts DEF Backed, LimiterTypeOK
<1>2. ideal'[d] = LeastOf(Rate, ideal[d] + 1) /\ table' = table BY DEF LimiterTick
<1>3. CASE table[d] = NoBucket
  BY <1>1, <1>2, <1>3, LimiterAssumption DEF Left, LeastOf
<1>4. CASE table[d] # NoBucket
  <2> DEFINE b == table[d]
  <2>1. b \in Buckets /\ heap[b] \in Bucket BY <1>4 DEF LimiterTypeOK
  <2>2. heap'[b] = [heap[b] EXCEPT !.idle = LeastOf(@ + 1, IdleFor + 1)]
    BY <2>1 DEF LimiterTick, Unused
  <2>3. /\ heap[b].tokens \in Nat /\ heap[b].idle \in Nat
        /\ heap'[b].tokens = heap[b].tokens
        /\ heap'[b].idle = LeastOf(heap[b].idle + 1, IdleFor + 1)
    BY <2>1, <2>2, LimiterAssumption DEF Bucket
  <2> HIDE DEF b
  <2>4. Left(d) = LeastOf(Rate, heap[b].tokens + heap[b].idle)
    BY <1>4 DEF Left, Level, b
  <2>5. Left(d)' = LeastOf(Rate, heap'[b].tokens + heap'[b].idle)
    BY <1>2, <1>4 DEF Left, Level, b
  <2>6. heap'[b].idle \in Nat /\ heap'[b].idle <= heap[b].idle + 1
    BY <2>3, LimiterAssumption DEF LeastOf
  <2> QED BY <1>1, <1>2, <2>3, <2>4, <2>5, <2>6, LimiterAssumption DEF LeastOf
<1> QED BY <1>3, <1>4

(* What is admitted from the table never exceeds the budget of one bucket  *)
(* per address, for any eviction times (getBucket, evictIdleLocked).       *)
THEOREM BudgetKept == LimiterSpec => []WithinBudget
<1>1. LimiterInit => Backed BY LimiterAssumption DEF LimiterInit, Backed, Left
<1>2. LimiterTypeOK /\ Backed /\ [LimiterNext]_limiterVars => Backed'
  <2> SUFFICES ASSUME LimiterTypeOK, Backed, [LimiterNext]_limiterVars,
                      NEW d \in Addresses
               PROVE  ideal'[d] >= Left(d)'
    BY DEF Backed
  <2>1. CASE LimiterNext
    BY <2>1, GetBucketBacked, AllowBacked, TickBacked DEF LimiterNext
  <2>2. CASE UNCHANGED limiterVars BY <2>2 DEF limiterVars, Backed, Left, Level
  <2> QED BY <2>1, <2>2
<1>3. LimiterTypeOK /\ Backed => WithinBudget
  BY LeftFacts, LimiterAssumption DEF LimiterTypeOK, Backed, WithinBudget
<1> QED BY <1>1, <1>2, <1>3, LimiterTypeCorrect, PTL DEF LimiterSpec
=============================================================================
