--------------------------- MODULE DownloadWindow ---------------------------
(***************************************************************************)
(* The table that makes one client's downloads of a version count once in  *)
(* a window (api/service/download_dedup.go).  ShouldCount runs under one   *)
(* lock.  Ages are counted up to the window.  `since` and `shed` are       *)
(* history: when a pair was last counted, and whether the table shed       *)
(* entries for lack of room since.                                         *)
(***************************************************************************)
EXTENDS Integers, FiniteSets

CONSTANTS Keys,         \* pairs of a client and a version
          Window,       \* one hour, in units
          MaxEntries,
          Absent        \* no entry

ASSUME WindowAssumption ==
    /\ Window \in Nat \ {0}
    /\ MaxEntries \in Nat
    /\ Absent \notin Nat
    /\ IsFiniteSet(Keys)

VARIABLES seen,       \* the table: age of the last counted download
          gcAge,      \* age of lastGC
          since,
          shed

windowVars == <<seen, gcAge, since, shed>>

Half == Window \div 2

WindowTypeOK ==
    /\ seen \in [Keys -> 0 .. Window \cup {Absent}]
    /\ gcAge \in 0 .. Window
    /\ since \in [Keys -> 0 .. Window]
    /\ shed \in SUBSET Keys

WindowInit ==
    /\ seen = [k \in Keys |-> Absent]
    /\ gcAge = 0
    /\ since = [k \in Keys |-> Window]
    /\ shed = {}

Size(table) == Cardinality({k \in Keys : table[k] # Absent})

(* The table without the entries of at least this age.                     *)
Without(table, age) ==
    [k \in Keys |-> IF table[k] # Absent /\ table[k] >= age THEN Absent
                    ELSE table[k]]

(* Mutated form of Collected: entries go at half the window.               *)
CollectedEarly(table) ==
    IF gcAge >= Half THEN Without(table, Half) ELSE table

(* The sweep of collectLocked, due every half window.                      *)
Collected(table) ==
    IF gcAge >= Half THEN Without(table, Window) ELSE table

(* Its emergency: entries older than half the window go, and if that is    *)
(* not enough all of them.                                                 *)
Shedding(table) ==
    IF Size(table) <= MaxEntries THEN table
    ELSE LET younger == Without(table, Half + 1)
         IN  IF Size(younger) <= MaxEntries THEN younger
             ELSE [k \in Keys |-> Absent]

(* ShouldCount, and its answer.                                            *)
ShouldCount(k, yes) ==
    LET before == Collected(seen)
        table == Shedding(before)
    IN  /\ gcAge' = IF gcAge >= Half THEN 0 ELSE gcAge
        /\ yes = (table[k] = Absent \/ table[k] >= Window)
        /\ seen' = IF yes THEN [table EXCEPT ![k] = 0] ELSE table
        /\ since' = IF yes THEN [since EXCEPT ![k] = 0] ELSE since
        /\ shed' = (shed \cup {l \in Keys : before[l] # table[l]})
                   \ (IF yes THEN {k} ELSE {})

WindowTick ==
    /\ seen' = [k \in Keys |-> IF seen[k] \in 0 .. Window - 1 THEN seen[k] + 1
                               ELSE seen[k]]
    /\ gcAge' = IF gcAge < Window THEN gcAge + 1 ELSE gcAge
    /\ since' = [k \in Keys |-> IF since[k] < Window THEN since[k] + 1
                                ELSE since[k]]
    /\ UNCHANGED shed

(* A download that was counted is remembered until its window is over,     *)
(* unless the table had to shed entries: one client counts once per        *)
(* version and window, however sweeps and downloads interleave.            *)
CountRemembered ==
    \A k \in Keys : since[k] < Window /\ k \notin shed => seen[k] = since[k]
=============================================================================
