---------------------------- MODULE RateLimiter ----------------------------
(***************************************************************************)
(* The token buckets of api/middleware/ratelimit.go.  A request takes its  *)
(* client's bucket from the table under the table's lock and spends a      *)
(* token under the bucket's own lock, so that the bucket may leave the     *)
(* table in between.  The unit of time is the one in which a token is      *)
(* refilled, so a minute has Rate of them; ages are counted up to where    *)
(* they make no difference.  `ideal` is history: what would be left of the *)
(* budget of an address if its bucket were never dropped for being idle,   *)
(* after the requests that were admitted from the bucket in the table.     *)
(***************************************************************************)
EXTENDS Integers, FiniteSets

CONSTANTS Addresses,    \* of clients
          Callers,      \* requests in flight at once
          Buckets,      \* bucket objects, enough for the table and the requests
          NoBucket,
          Rate,         \* tokens a minute, and the size of a bucket
          IdleFor,      \* five minutes, in units: a minute has Rate of them
          MaxBuckets

ASSUME LimiterAssumption ==
    /\ Rate \in Nat \ {0}
    /\ IdleFor \in Nat /\ IdleFor >= Rate
    /\ MaxBuckets \in Nat \ {0}
    /\ NoBucket \notin Buckets
    /\ IsFiniteSet(Addresses)

VARIABLES heap,       \* the bucket objects
          table,      \* rateLimiter.buckets
          holds,      \* what a request has taken: its client and the bucket
          cleanup,    \* age of lastCleanup
          ideal

limiterVars == <<heap, table, holds, cleanup, ideal>>

LeastOf(a, b) == IF a < b THEN a ELSE b

Bucket == [tokens : 0 .. Rate, idle : 0 .. IdleFor + 1]
Full == [tokens |-> Rate, idle |-> 0]

LimiterTypeOK ==
    /\ heap \in [Buckets -> Bucket]
    /\ table \in [Addresses -> Buckets \cup {NoBucket}]
    /\ holds \in [Callers -> [client : Addresses, bucket : Buckets] \cup {NoBucket}]
    /\ cleanup \in 0 .. Rate + 1
    /\ ideal \in [Addresses -> Int]

LimiterInit ==
    /\ heap = [b \in Buckets |-> Full]
    /\ table = [c \in Addresses |-> NoBucket]
    /\ holds = [q \in Callers |-> NoBucket]
    /\ cleanup = 0
    /\ ideal = [c \in Addresses |-> Rate]

Entries(t) == {c \in Addresses : t[c] # NoBucket}

(* Mutated form of EvictIdle: buckets that are not full yet go as well.    *)
EvictIdleEarly(t, age) ==
    [c \in Addresses |-> IF t[c] # NoBucket /\ heap[t[c]].idle >= 1
                         THEN NoBucket ELSE t[c]]

(* evictIdleLocked                                                         *)
EvictIdle(t, age) ==
    [c \in Addresses |-> IF t[c] # NoBucket /\ heap[t[c]].idle > age
                         THEN NoBucket ELSE t[c]]

(* The table after the sweep that is due every minute.                     *)
Swept == IF cleanup > Rate THEN EvictIdle(table, IdleFor) ELSE table

(* At the limit, buckets idle for a minute go...                           *)
Tight(t) == IF Cardinality(Entries(t)) < MaxBuckets THEN t ELSE EvictIdle(t, Rate)

(* ... and if that is not enough all of them.                              *)
Overrun(t) == Cardinality(Entries(Tight(t))) >= MaxBuckets

(* Mutated form of Squeezed: the first eviction is enough.                 *)
SqueezedOnce(t) == Tight(t)

(* The table with room for one more.                                       *)
Squeezed(t) == IF Overrun(t) THEN [c \in Addresses |-> NoBucket] ELSE Tight(t)

(* A bucket nobody refers to, with the table as given.                     *)
Unused(b, t) ==
    /\ \A c \in Addresses : t[c] # b
    /\ \A q \in Callers : holds[q] # NoBucket => holds[q].bucket # b

(* The objects that are left; the others are as good as new.               *)
Kept(t) == [b \in Buckets |-> IF Unused(b, t) THEN Full ELSE heap[b]]

(* getBucket: the client's bucket, or a full one.  Dropping the whole      *)
(* table gives every client a fresh budget, the ideal one too.             *)
GetBucket(q, c) ==
    /\ holds[q] = NoBucket
    /\ cleanup' = IF cleanup > Rate THEN 0 ELSE cleanup
    /\ IF Swept[c] # NoBucket
       THEN /\ table' = Swept
            /\ holds' = [holds EXCEPT ![q] = [client |-> c, bucket |-> Swept[c]]]
            /\ heap' = Kept(Swept)
            /\ UNCHANGED ideal
       ELSE LET room == Squeezed(Swept)
            IN  \E b \in Buckets :
                  /\ Unused(b, room)
                  /\ table' = [room EXCEPT ![c] = b]
                  /\ heap' = [Kept(room) EXCEPT ![b] = Full]
                  /\ holds' = [holds EXCEPT ![q] = [client |-> c, bucket |-> b]]
                  /\ ideal' = IF Overrun(Swept) THEN [d \in Addresses |-> Rate]
                              ELSE ideal

Level(b) == LeastOf(Rate, heap[b].tokens + heap[b].idle)

(* allowWithRemaining: refill, and spend a token if there is one.          *)
Allow(q) ==
    /\ holds[q] # NoBucket
    /\ LET b == holds[q].bucket
           admitted == Level(b) >= 1
       IN  /\ heap' = [heap EXCEPT ![b] =
                  [tokens |-> IF admitted THEN Level(b) - 1 ELSE Level(b),
                   idle   |-> 0]]
           /\ ideal' = IF admitted /\ table[holds[q].client] = b
                       THEN [ideal EXCEPT ![holds[q].client] = @ - 1]
                       ELSE ideal
    /\ holds' = [holds EXCEPT ![q] = NoBucket]
    /\ UNCHANGED <<table, cleanup>>

LimiterTick ==
    /\ heap' = [b \in Buckets |->
           IF Unused(b, table) THEN Full
           ELSE [heap[b] EXCEPT !.idle = LeastOf(@ + 1, IdleFor + 1)]]
    /\ cleanup' = LeastOf(cleanup + 1, Rate + 1)
    /\ ideal' = [c \in Addresses |-> LeastOf(Rate, ideal[c] + 1)]
    /\ UNCHANGED <<table, holds>>

LimiterNext ==
    \/ \E q \in Callers : Allow(q) \/ \E c \in Addresses : GetBucket(q, c)
    \/ LimiterTick

LimiterSpec == LimiterInit /\ [][LimiterNext]_limiterVars

-----------------------------------------------------------------------------
(* The table never outgrows its limit, whatever addresses come.            *)
TableBounded == Cardinality(Entries(table)) <= MaxBuckets

(* Dropping idle buckets, and giving an address a new full one later,      *)
(* renews no budget: what is admitted from the buckets in the table is     *)
(* what one bucket per address would admit.  (A request that still holds a *)
(* dropped bucket spends from that one, besides.)                          *)
WithinBudget == \A c \in Addresses : ideal[c] >= 0
=============================================================================
