---------------------------- MODULE ResponseCache ----------------------------
(***************************************************************************)
(* RedfishResponseCache (redfish_ctl/redfish_manager.py): the cache that   *)
(* the collectors of one scrape share.  The first caller of a key loads it *)
(* from the BMC with the lock released; the others wait on the condition   *)
(* variable and are served a deep copy of what it stored.  A loader that   *)
(* raises releases the key, and one of the waiters becomes the next        *)
(* loader.                                                                 *)
(*                                                                         *)
(* Objects are kept in a heap, so that a copy and the object it was taken  *)
(* from can be told apart: cell k is the object stored under key k, cell c *)
(* the object that caller c made.                                          *)
(***************************************************************************)
EXTENDS Integers, FiniteSets

CONSTANTS
    Callers,      \* threads that call get_or_load
    Keys,         \* cache keys: one for each GET request shape
    MaxVersion,   \* bound: how often a resource changes on the BMC
    MaxFailures   \* bound: loads that raise

ASSUME CellsAssumption == Callers \cap Keys = {}
ASSUME BoundsAssumption == MaxVersion \in Nat /\ MaxFailures \in Nat

VARIABLES
    pc,        \* where each caller is in get_or_load
    want,      \* the key of its current or last call
    inflight,  \* _inflight
    values,    \* the keys of _values
    heap,      \* contents of the cells
    held,      \* the cell that the last call of a caller returned
    bmc,       \* the version of each resource that the BMC would serve now
    failures,  \* loads that have raised
    loads      \* history: successful loads of each key, counted up to two

vars == <<pc, want, inflight, values, heap, held, bmc, failures, loads>>

Cells == Callers \cup Keys
Nowhere == "nowhere"
Version == 0 .. MaxVersion
Fresh(v) == [version |-> v, marks |-> "clean"]
Content == [version : Version, marks : {"clean", "annotated"}]
Absent == [version |-> -1, marks |-> "absent"]

\* Under the lock: `enter`.  Lock released: `waiting` on the condition,
\* `loading`, `loaded` or `raised`.  Outside get_or_load: `idle`.
Places == {"idle", "enter", "waiting", "loading", "loaded", "raised"}

(***************************************************************************)
(* Faulty variants of definitions below.                                   *)
(***************************************************************************)

\* Faulty variant: the caller is handed the object itself.
CopySkipped(c, cell) == cell

\* Faulty variant: the second look at _values and _inflight is missing.
ClaimAnyway(c) ==
    /\ pc[c] = "enter"
    /\ pc' = [pc EXCEPT ![c] = "loading"]
    /\ inflight' = inflight \cup {want[c]}
    /\ UNCHANGED <<want, values, heap, held, bmc, failures, loads>>

\* Faulty variant: the loader's result is not kept.
LoadedNotKept(c) ==
    /\ pc[c] = "loaded"
    /\ pc' = [d \in Callers |->
                 IF d = c THEN "idle"
                 ELSE IF pc[d] = "waiting" THEN "enter" ELSE pc[d]]
    /\ held' = [held EXCEPT ![c] = c]
    /\ loads' = [loads EXCEPT ![want[c]] = IF @ = 0 THEN 1 ELSE 2]
    /\ inflight' = inflight \ {want[c]}
    /\ UNCHANGED <<want, values, heap, bmc, failures>>

\* Faulty variant: a loader that raises keeps its key.
RaiseKeepsKey(c) ==
    /\ pc[c] = "raised"
    /\ pc' = [d \in Callers |->
                 IF d = c THEN "idle"
                 ELSE IF pc[d] = "waiting" THEN "enter" ELSE pc[d]]
    /\ UNCHANGED <<want, inflight, values, heap, held, bmc, failures, loads>>

(***************************************************************************)
(* Pieces of get_or_load.                                                  *)
(***************************************************************************)

\* notify_all: every waiter will look again, whatever key it waits for.
NotifyAll == [c \in Callers |-> IF pc[c] = "waiting" THEN "enter" ELSE pc[c]]

\* _clone for caller c: the cell that holds the copy.
CloneCell(c, cell) == c

\* The heap after that copy.
Copied(h, c, cell) == [h EXCEPT ![CloneCell(c, cell)] = h[cell]]

(***************************************************************************)
(* get_or_load, one action for each stretch that runs under the lock or    *)
(* outside of it.                                                          *)
(***************************************************************************)

Call(c, k) ==
    /\ pc[c] = "idle"
    /\ pc' = [pc EXCEPT ![c] = "enter"]
    /\ want' = [want EXCEPT ![c] = k]
    /\ held' = [held EXCEPT ![c] = Nowhere]
    /\ UNCHANGED <<inflight, values, heap, bmc, failures, loads>>

Hit(c) ==
    /\ pc[c] = "enter"
    /\ want[c] \in values
    /\ pc' = [pc EXCEPT ![c] = "idle"]
    /\ held' = [held EXCEPT ![c] = CloneCell(c, want[c])]
    /\ heap' = Copied(heap, c, want[c])
    /\ UNCHANGED <<want, inflight, values, bmc, failures, loads>>

Wait(c) ==
    /\ pc[c] = "enter"
    /\ want[c] \notin values
    /\ want[c] \in inflight
    /\ pc' = [pc EXCEPT ![c] = "waiting"]
    /\ UNCHANGED <<want, inflight, values, heap, held, bmc, failures, loads>>

Claim(c) ==
    /\ pc[c] = "enter"
    /\ want[c] \notin values
    /\ want[c] \notin inflight
    /\ inflight' = inflight \cup {want[c]}
    /\ pc' = [pc EXCEPT ![c] = "loading"]
    /\ UNCHANGED <<want, values, heap, held, bmc, failures, loads>>

LoadReturns(c) ==
    /\ pc[c] = "loading"
    /\ heap' = [heap EXCEPT ![c] = Fresh(bmc[want[c]])]
    /\ pc' = [pc EXCEPT ![c] = "loaded"]
    /\ UNCHANGED <<want, inflight, values, held, bmc, failures, loads>>

LoadRaises(c) ==
    /\ pc[c] = "loading"
    /\ failures < MaxFailures
    /\ failures' = failures + 1
    /\ pc' = [pc EXCEPT ![c] = "raised"]
    /\ UNCHANGED <<want, inflight, values, heap, held, bmc, loads>>

Store(c) ==
    /\ pc[c] = "loaded"
    /\ heap' = [heap EXCEPT ![want[c]] = heap[c]]
    /\ values' = values \cup {want[c]}
    /\ held' = [held EXCEPT ![c] = CloneCell(c, want[c])]
    /\ loads' = [loads EXCEPT ![want[c]] = IF @ = 0 THEN 1 ELSE 2]
    /\ inflight' = inflight \ {want[c]}
    /\ pc' = [NotifyAll EXCEPT ![c] = "idle"]
    /\ UNCHANGED <<want, bmc, failures>>

Release(c) ==
    /\ pc[c] = "raised"
    /\ inflight' = inflight \ {want[c]}
    /\ pc' = [NotifyAll EXCEPT ![c] = "idle"]
    /\ UNCHANGED <<want, values, heap, held, bmc, failures, loads>>

(***************************************************************************)
(* What surrounds the cache.                                               *)
(***************************************************************************)

\* A collector writes into the rows it was given.
Annotate(c) ==
    /\ pc[c] = "idle"
    /\ held[c] # Nowhere
    /\ heap' = [heap EXCEPT ![held[c]] =
                    [version |-> @.version, marks |-> "annotated"]]
    /\ UNCHANGED <<pc, want, inflight, values, held, bmc, failures, loads>>

\* A reading on the BMC changes.
BmcChanges(k) ==
    /\ bmc[k] < MaxVersion
    /\ bmc' = [bmc EXCEPT ![k] = @ + 1]
    /\ UNCHANGED <<pc, want, inflight, values, heap, held, failures, loads>>

Proceeds(c) ==
    \/ Hit(c)
    \/ Wait(c)
    \/ Claim(c)
    \/ LoadReturns(c)
    \/ LoadRaises(c)
    \/ Store(c)
    \/ Release(c)

Init ==
    /\ pc = [c \in Callers |-> "idle"]
    /\ want \in [Callers -> Keys]
    /\ inflight = {}
    /\ values = {}
    /\ heap = [cell \in Cells |-> Absent]
    /\ held = [c \in Callers |-> Nowhere]
    /\ bmc = [k \in Keys |-> 0]
    /\ failures = 0
    /\ loads = [k \in Keys |-> 0]

Next ==
    \/ \E c \in Callers :
          \/ \E k \in Keys : Call(c, k)
          \/ Proceeds(c)
          \/ Annotate(c)
    \/ \E k \in Keys : BmcChanges(k)

Spec == Init /\ [][Next]_vars

(***************************************************************************)
(* Properties.                                                             *)
(***************************************************************************)

\* Every variable has its type; a stored key and a served caller have an
\* object.
TypeOK ==
    /\ pc \in [Callers -> Places]
    /\ want \in [Callers -> Keys]
    /\ inflight \subseteq Keys
    /\ values \subseteq Keys
    /\ heap \in [Cells -> Content \cup {Absent}]
    /\ \A k \in values : heap[k] \in Content
    /\ held \in [Callers -> Cells \cup {Nowhere}]
    /\ \A c \in Callers : held[c] # Nowhere => heap[held[c]] \in Content
    /\ bmc \in [Keys -> Version]
    /\ failures \in 0 .. MaxFailures
    /\ loads \in [Keys -> 0 .. 2]

Owns(c) == pc[c] \in {"loading", "loaded", "raised"}

\* Two callers never load the same key at the same time, and none loads a
\* key that is stored: "Concurrent callers for the same key wait for the
\* first loader instead of issuing duplicate BMC GETs" (get_or_load).
SingleFlight ==
    \A c \in Callers : Owns(c) =>
        /\ want[c] \notin values
        /\ \A d \in Callers : Owns(d) /\ want[d] = want[c] => d = c

\* A caller on the condition variable always has another caller that owns
\* its key and will notify it: neither a loader that raises nor one that
\* stores leaves a waiter behind.
WaiterHasLoader ==
    \A c \in Callers : pc[c] = "waiting" =>
        \E d \in Callers : Owns(d) /\ want[d] = want[c]

\* Over the life of the cache a key is loaded successfully at most once,
\* whatever loads of it failed before: "or load it once" (get_or_load).
LoadedOnce == \A k \in Keys : loads[k] <= 1

\* What is stored stays as the BMC served it, whatever callers write into
\* the rows they were given: "Returned payloads are copied so callers can
\* annotate rows without mutating the cached response" (get_or_load).
StoredIsPristine ==
    [][\A k \in values : k \in values' /\ heap'[k] = heap[k]]_vars

\* All the collectors of a scrape see one version of a resource, though the
\* BMC may change it between their calls.
OneVersionPerScrape ==
    \A c \in Callers : pc[c] = "idle" /\ held[c] # Nowhere =>
        /\ want[c] \in values
        /\ heap[held[c]].version = heap[want[c]].version

=============================================================================
