------------------------------ MODULE CacheProofs ------------------------------
(***************************************************************************)
(* Proofs about what the threads of a process share: the two single-flight *)
(* caches, the Kubernetes client and the instances of the commands, for    *)
(* any sets of threads, keys and connections, any TTL and any length of a  *)
(* listing.                                                                *)
(*                                                                         *)
(* ResponseCache: SingleFlight is not inductive, because Claim tests       *)
(* `inflight` and not the places of the other callers.  FlightInv adds     *)
(* that `inflight` is exactly the set of keys that some caller owns, and   *)
(* that a waiter's key is in it.  ServedInv adds that a caller only ever   *)
(* holds its own copy, so that Annotate cannot reach a stored object.      *)
(*                                                                         *)
(* EndpointCache: rows never go back because a listing begins after the    *)
(* cached one ended, and that only because the flag admits one listing at  *)
(* a time (OneListing, ListingTimes).                                      *)
(*                                                                         *)
(* KubeClient and CommandRegistry, the double-checked constructions: none  *)
(* of the properties is inductive.  ClientInv adds that the lock's owner   *)
(* is the only thread past the check under the lock, that a thread about   *)
(* to load or build has found no client and one about to return has found  *)
(* one, and that the client is newer than every one that was dropped.      *)
(* RegistryInv adds the same of the registry's lock, and that what is      *)
(* registered and what was made correspond.                                *)
(***************************************************************************)
EXTENDS ResponseCache, EndpointCache, KubeClient, CommandRegistry, TLAPS

-----------------------------------------------------------------------------
(* The response cache of a scrape. *)

FlightInv ==
    /\ SingleFlight
    /\ \A c \in Callers : Owns(c) => want[c] \in inflight
    /\ \A k \in inflight : \E c \in Callers : Owns(c) /\ want[c] = k
    /\ \A c \in Callers : pc[c] = "waiting" => want[c] \in inflight
    /\ inflight \cap values = {}

ServedInv ==
    /\ OneVersionPerScrape
    /\ \A c \in Callers : held[c] \in {c, Nowhere}
    /\ \A c \in Callers : pc[c] # "idle" => held[c] = Nowhere
    /\ \A c \in Callers : pc[c] = "loaded" => heap[c] \in Content

CountInv == \A k \in Keys : loads[k] = IF k \in values THEN 1 ELSE 0

\* The types of the variables in the initial states.
LEMMA InitTypeOK == Init => TypeOK
  BY SMTT(30), BoundsAssumption
     DEF Init, TypeOK, Places, Content, Absent, Version, Cells, Nowhere

\* A step keeps the types, given what a loader and a holder own.
LEMMA NextTypeOK == TypeOK /\ ServedInv /\ [Next]_vars => TypeOK'
  <1> SUFFICES ASSUME TypeOK, ServedInv, [Next]_vars PROVE TypeOK'
    OBVIOUS
  <1> USE BoundsAssumption DEF TypeOK, ServedInv, Places, Cells
  <1>1. ASSUME NEW c \in Callers, NEW k \in Keys, Call(c, k) PROVE TypeOK'
    BY <1>1 DEF Call
  <1>2. ASSUME NEW c \in Callers, Hit(c) PROVE TypeOK'
    BY <1>2, CellsAssumption DEF Hit, CloneCell, Copied
  <1>3. ASSUME NEW c \in Callers, Wait(c) PROVE TypeOK'
    BY <1>3 DEF Wait
  <1>4. ASSUME NEW c \in Callers, Claim(c) PROVE TypeOK'
    BY <1>4 DEF Claim
  <1>5. ASSUME NEW c \in Callers, LoadReturns(c) PROVE TypeOK'
    <2>1. Fresh(bmc[want[c]]) \in Content
      BY DEF Fresh, Content
    <2> QED
      BY <1>5, <2>1, CellsAssumption DEF LoadReturns
  <1>6. ASSUME NEW c \in Callers, LoadRaises(c) PROVE TypeOK'
    BY <1>6 DEF LoadRaises
  <1>7. ASSUME NEW c \in Callers, Store(c) PROVE TypeOK'
    BY <1>7, CellsAssumption DEF Store, CloneCell, NotifyAll
  <1>8. ASSUME NEW c \in Callers, Release(c) PROVE TypeOK'
    BY <1>8 DEF Release, NotifyAll
  <1>9. ASSUME NEW c \in Callers, Annotate(c) PROVE TypeOK'
    <2> DEFINE r == [version |-> heap[held[c]].version, marks |-> "annotated"]
    <2>1. r \in Content
      BY <1>9 DEF Annotate, Content
    <2>2. heap' = [heap EXCEPT ![held[c]] = r]
      BY <1>9 DEF Annotate
    <2> HIDE DEF r
    <2> QED
      BY <1>9, <2>1, <2>2, CellsAssumption DEF Annotate
  <1>10. ASSUME NEW k \in Keys, BmcChanges(k) PROVE TypeOK'
    BY <1>10 DEF BmcChanges, Version
  <1>11. CASE UNCHANGED vars
    BY <1>11, SMTT(60) DEF vars
  <1> QED
    BY Zenon, <1>1, <1>2, <1>3, <1>4, <1>5, <1>6, <1>7, <1>8, <1>9, <1>10, <1>11
       DEF Next, Proceeds

\* The keys in flight are those that exactly one caller owns, and none of
\* them is stored.
LEMMA NextFlightInv == TypeOK /\ FlightInv /\ [Next]_vars => FlightInv'
  <1> SUFFICES ASSUME TypeOK, FlightInv, [Next]_vars PROVE FlightInv'
    OBVIOUS
  <1> USE DEF TypeOK, FlightInv, SingleFlight, Owns
  <1>1. ASSUME NEW c \in Callers, NEW k \in Keys, Call(c, k) PROVE FlightInv'
    BY <1>1 DEF Call
  <1>2. ASSUME NEW c \in Callers, Hit(c) PROVE FlightInv'
    BY <1>2 DEF Hit
  <1>3. ASSUME NEW c \in Callers, Wait(c) PROVE FlightInv'
    BY <1>3 DEF Wait
  <1>4. ASSUME NEW c \in Callers, Claim(c) PROVE FlightInv'
    BY <1>4 DEF Claim
  <1>5. ASSUME NEW c \in Callers, LoadReturns(c) PROVE FlightInv'
    BY <1>5 DEF LoadReturns
  <1>6. ASSUME NEW c \in Callers, LoadRaises(c) PROVE FlightInv'
    BY <1>6 DEF LoadRaises
  <1>7. ASSUME NEW c \in Callers, Store(c) PROVE FlightInv'
    BY <1>7, ZenonT(60) DEF Store, NotifyAll
  <1>8. ASSUME NEW c \in Callers, Release(c) PROVE FlightInv'
    BY <1>8, Zenon DEF Release, NotifyAll
  <1>9. ASSUME NEW c \in Callers, Annotate(c) PROVE FlightInv'
    BY <1>9 DEF Annotate
  <1>10. ASSUME NEW k \in Keys, BmcChanges(k) PROVE FlightInv'
    BY <1>10 DEF BmcChanges
  <1>11. CASE UNCHANGED vars
    BY <1>11 DEF vars
  <1> QED
    BY Zenon, <1>1, <1>2, <1>3, <1>4, <1>5, <1>6, <1>7, <1>8, <1>9, <1>10, <1>11
       DEF Next, Proceeds

\* What callers hold are their own copies of the stored objects.
LEMMA NextServedInv ==
    TypeOK /\ FlightInv /\ ServedInv /\ [Next]_vars => ServedInv'
  <1> SUFFICES ASSUME TypeOK, FlightInv, ServedInv, [Next]_vars PROVE ServedInv'
    OBVIOUS
  <1> USE CellsAssumption DEF TypeOK, ServedInv, OneVersionPerScrape, Cells
  <1>1. ASSUME NEW c \in Callers, NEW k \in Keys, Call(c, k) PROVE ServedInv'
    BY <1>1 DEF Call
  <1>2. ASSUME NEW c \in Callers, Hit(c) PROVE ServedInv'
    BY <1>2 DEF Hit, CloneCell, Copied
  <1>3. ASSUME NEW c \in Callers, Wait(c) PROVE ServedInv'
    BY <1>3 DEF Wait
  <1>4. ASSUME NEW c \in Callers, Claim(c) PROVE ServedInv'
    BY <1>4 DEF Claim
  <1>5. ASSUME NEW c \in Callers, LoadReturns(c) PROVE ServedInv'
    <2>1. Fresh(bmc[want[c]]) \in Content
      BY DEF Fresh, Content
    <2> QED
      BY <1>5, <2>1 DEF LoadReturns
  <1>6. ASSUME NEW c \in Callers, LoadRaises(c) PROVE ServedInv'
    BY <1>6 DEF LoadRaises
  <1>7. ASSUME NEW c \in Callers, Store(c) PROVE ServedInv'
    <2>1. want[c] \notin values
      BY <1>7 DEF Store, FlightInv, SingleFlight, Owns
    <2> QED
      BY <1>7, <2>1 DEF Store, CloneCell, NotifyAll
  <1>8. ASSUME NEW c \in Callers, Release(c) PROVE ServedInv'
    BY <1>8 DEF Release, NotifyAll
  <1>9. ASSUME NEW c \in Callers, Annotate(c) PROVE ServedInv'
    <2> DEFINE r == [version |-> heap[c].version, marks |-> "annotated"]
    <2>1. r \in Content /\ r.version = heap[c].version
      BY <1>9 DEF Annotate, Content
    <2>2. heap' = [heap EXCEPT ![c] = r]
      BY <1>9, Zenon DEF Annotate
    <2> HIDE DEF r
    <2> QED
      BY <1>9, <2>1, <2>2 DEF Annotate
  <1>10. ASSUME NEW k \in Keys, BmcChanges(k) PROVE ServedInv'
    BY <1>10 DEF BmcChanges
  <1>11. CASE UNCHANGED vars
    BY <1>11 DEF vars
  <1> QED
    BY Zenon, <1>1, <1>2, <1>3, <1>4, <1>5, <1>6, <1>7, <1>8, <1>9, <1>10, <1>11
       DEF Next, Proceeds

\* A successful load is counted when its key becomes stored, and only then.
LEMMA NextCountInv ==
    TypeOK /\ FlightInv /\ CountInv /\ [Next]_vars => CountInv'
  <1> SUFFICES ASSUME TypeOK, FlightInv, CountInv, [Next]_vars PROVE CountInv'
    OBVIOUS
  <1> USE DEF TypeOK, CountInv
  <1>1. ASSUME NEW c \in Callers, Store(c) PROVE CountInv'
    <2>1. want[c] \notin values
      BY <1>1 DEF Store, FlightInv, SingleFlight, Owns
    <2> QED
      BY <1>1, <2>1 DEF Store
  <1>2. CASE UNCHANGED <<values, loads>>
    BY <1>2
  <1> QED
    BY <1>1, <1>2, ZenonT(60) DEF Next, Proceeds, Call, Hit, Wait, Claim, LoadReturns,
       LoadRaises, Release, Annotate, BmcChanges, vars

CacheInv == TypeOK /\ FlightInv /\ ServedInv /\ CountInv

\* The invariant of the cache.
THEOREM CacheInvariant == Spec => []CacheInv
  <1>1. Init => CacheInv
    <2> SUFFICES ASSUME Init PROVE FlightInv /\ ServedInv /\ CountInv
      BY InitTypeOK DEF CacheInv
    <2>1. FlightInv
      BY DEF Init, FlightInv, SingleFlight, Owns
    <2>2. ServedInv
      BY DEF Init, ServedInv, OneVersionPerScrape
    <2>3. CountInv
      BY DEF Init, CountInv
    <2> QED
      BY <2>1, <2>2, <2>3
  <1>2. CacheInv /\ [Next]_vars => CacheInv'
    BY NextTypeOK, NextFlightInv, NextServedInv, NextCountInv DEF CacheInv
  <1> QED
    BY <1>1, <1>2, PTL DEF Spec

\* For any number of threads and keys, get_or_load never has two loaders of
\* one key at a time, nor a loader of a stored key.
THEOREM SingleFlightHolds == Spec => []SingleFlight
  <1>1. CacheInv => SingleFlight
    BY DEF CacheInv, FlightInv
  <1> QED
    BY <1>1, CacheInvariant, PTL

\* For any number of threads and keys, a thread on the condition variable
\* has a loader that will notify it.
THEOREM WaitersAreNotForgotten == Spec => []WaiterHasLoader
  <1>1. CacheInv => WaiterHasLoader
    BY DEF CacheInv, FlightInv, TypeOK, WaiterHasLoader
  <1> QED
    BY <1>1, CacheInvariant, PTL

\* For any number of threads and keys, a key is loaded successfully at most
\* once over the life of the cache.
THEOREM KeysAreLoadedOnce == Spec => []LoadedOnce
  <1>1. CacheInv => LoadedOnce
    BY DEF CacheInv, CountInv, LoadedOnce
  <1> QED
    BY <1>1, CacheInvariant, PTL

\* The collectors of a scrape see one version of every resource they share.
THEOREM ScrapeIsConsistent == Spec => []OneVersionPerScrape
  <1>1. CacheInv => OneVersionPerScrape
    BY DEF CacheInv, ServedInv
  <1> QED
    BY <1>1, CacheInvariant, PTL

\* No step changes a stored object: callers write to their own copies.
THEOREM StoredStaysPristine == Spec => StoredIsPristine
  <1> DEFINE Keeps == \A k \in values : k \in values' /\ heap'[k] = heap[k]
  <1>1. CacheInv /\ [Next]_vars => [Keeps]_vars
    <2> SUFFICES ASSUME CacheInv, [Next]_vars PROVE [Keeps]_vars
      OBVIOUS
    <2> USE CellsAssumption DEF CacheInv, TypeOK, Cells
    <2>1. ASSUME NEW c \in Callers, Hit(c) PROVE Keeps
      BY <2>1 DEF Hit, CloneCell, Copied
    <2>2. ASSUME NEW c \in Callers, LoadReturns(c) PROVE Keeps
      BY <2>2 DEF LoadReturns
    <2>3. ASSUME NEW c \in Callers, Store(c) PROVE Keeps
      BY <2>3 DEF Store, FlightInv, SingleFlight, Owns
    <2>4. ASSUME NEW c \in Callers, Annotate(c) PROVE Keeps
      BY <2>4 DEF Annotate, ServedInv
    <2>5. CASE UNCHANGED <<values, heap>>
      BY <2>5
    <2> QED
      BY <2>1, <2>2, <2>3, <2>4, <2>5 DEF Next, Proceeds, Call, Wait, Claim,
         LoadRaises, Release, BmcChanges, vars
  <1> QED
    BY <1>1, CacheInvariant, PTL DEF Spec, StoredIsPristine

-----------------------------------------------------------------------------
(* The listing cache of the dashboard. *)

ListingType ==
    /\ place \in [Clients -> {"idle", "enter", "waiting", "listing", "listed", "raised"}]
    /\ began \in [Clients -> Int] /\ fresh \in [Clients -> Int]
    /\ cached \in [value : Int, at : Int]
    /\ loading \in BOOLEAN
    /\ now \in Nat /\ answer \in Int

Lists(t) == place[t] \in {"listing", "listed", "raised"}

\* The flag is up exactly while one thread lists, and a waiter has that thread.
OneListing ==
    /\ \A t, u \in Clients : Lists(t) /\ Lists(u) => t = u
    /\ loading <=> \E t \in Clients : Lists(t)
    /\ \A t \in Clients : place[t] = "waiting" => loading

\* A listing begins after the cached one ended and lasts MaxListing at most.
ListingTimes ==
    /\ \A t \in Clients : Lists(t) =>
         cached.at <= began[t] /\ began[t] <= now /\ now <= began[t] + MaxListing
    /\ \A t \in Clients : place[t] = "listed" => began[t] <= fresh[t] /\ fresh[t] <= now
    /\ cached.value <= cached.at /\ cached.at <= now
    /\ cached.at <= cached.value + MaxListing
    /\ answer = cached.value

\* The bounds of the listing cache are numbers.
LEMMA ListingBounds ==
    TTL \in Nat /\ MaxListing \in Nat /\ MaxNow \in Nat /\ NotYet \in Int
BY ListingAssumption DEF NotYet

\* The types of the listing cache are kept by every step.
LEMMA NextListingType == ListingType /\ [ListingNext]_listingVars => ListingType'
<1> SUFFICES ASSUME ListingType, [ListingNext]_listingVars PROVE ListingType'
  OBVIOUS
<1> USE DEF ListingType
<1>1. ASSUME NEW t \in Clients, Request(t) PROVE ListingType'
  BY <1>1 DEF Request
<1>2. ASSUME NEW t \in Clients, ShowCached(t) PROVE ListingType'
  BY <1>2 DEF ShowCached
<1>3. ASSUME NEW t \in Clients, AwaitLoad(t) PROVE ListingType'
  BY <1>3 DEF AwaitLoad
<1>4. ASSUME NEW t \in Clients, BeginLoad(t) PROVE ListingType'
  BY <1>4 DEF BeginLoad
<1>5. ASSUME NEW t \in Clients, ListEndpoints(t) PROVE ListingType'
  BY <1>5 DEF ListEndpoints
<1>6. ASSUME NEW t \in Clients, ListingRaises(t) PROVE ListingType'
  BY <1>6 DEF ListingRaises
<1>7. ASSUME NEW t \in Clients, KeepListing(t) PROVE ListingType'
  <2>1. Woken \in [Clients -> {"idle", "enter", "waiting", "listing", "listed", "raised"}]
    BY DEF Woken
  <2>2. fresh[t] \in Int /\ cached' \in [value : Int, at : Int]
    BY <1>7 DEF KeepListing
  <2>3. place' \in [Clients -> {"idle", "enter", "waiting", "listing", "listed", "raised"}]
    BY <1>7, <2>1 DEF KeepListing
  <2>4. began' \in [Clients -> Int] /\ fresh' \in [Clients -> Int]
    BY <1>7, ListingBounds DEF KeepListing
  <2> QED BY Zenon, <1>7, <2>2, <2>3, <2>4 DEF KeepListing
<1>8. ASSUME NEW t \in Clients, DropLoading(t) PROVE ListingType'
  <2>1. Woken \in [Clients -> {"idle", "enter", "waiting", "listing", "listed", "raised"}]
    BY DEF Woken
  <2> QED BY Zenon, <1>8, <2>1, ListingBounds DEF DropLoading
<1>9. CASE TimePasses
  BY <1>9 DEF TimePasses
<1>10. CASE UNCHANGED listingVars
  BY <1>10 DEF listingVars
<1> QED
  BY <1>1, <1>2, <1>3, <1>4, <1>5, <1>6, <1>7, <1>8, <1>9, <1>10
     DEF ListingNext, ListingProceeds

\* One thread at a time lists, whichever raises and whoever takes over.
LEMMA NextOneListing ==
    ListingType /\ OneListing /\ [ListingNext]_listingVars => OneListing'
<1> SUFFICES ASSUME ListingType, OneListing, [ListingNext]_listingVars PROVE OneListing'
  OBVIOUS
<1> USE DEF ListingType, OneListing, Lists
<1>1. ASSUME NEW t \in Clients, Request(t) PROVE OneListing'
  BY <1>1 DEF Request
<1>2. ASSUME NEW t \in Clients, ShowCached(t) PROVE OneListing'
  BY <1>2 DEF ShowCached
<1>3. ASSUME NEW t \in Clients, AwaitLoad(t) PROVE OneListing'
  BY <1>3 DEF AwaitLoad
<1>4. ASSUME NEW t \in Clients, BeginLoad(t) PROVE OneListing'
  BY <1>4 DEF BeginLoad
<1>5. ASSUME NEW t \in Clients, ListEndpoints(t) PROVE OneListing'
  BY <1>5 DEF ListEndpoints
<1>6. ASSUME NEW t \in Clients, ListingRaises(t) PROVE OneListing'
  BY <1>6 DEF ListingRaises
<1>7. ASSUME NEW t \in Clients, KeepListing(t) \/ DropLoading(t) PROVE OneListing'
  <2>1. /\ Lists(t) /\ loading' = FALSE
        /\ place' = [Woken EXCEPT ![t] = "idle"]
    BY <1>7 DEF KeepListing, DropLoading
  <2>2. \A u \in Clients : ~ Lists(u)' /\ place'[u] # "waiting"
    BY <2>1 DEF Woken
  <2> QED BY <2>1, <2>2
<1>8. CASE TimePasses
  BY <1>8 DEF TimePasses
<1>9. CASE UNCHANGED listingVars
  BY SMTT(30), <1>9 DEF listingVars
<1> QED
  BY <1>1, <1>2, <1>3, <1>4, <1>5, <1>6, <1>7, <1>8, <1>9
     DEF ListingNext, ListingProceeds

\* The times of the listings are kept in order by every step.
LEMMA NextListingTimes ==
    ListingType /\ OneListing /\ ListingTimes /\ [ListingNext]_listingVars
        => ListingTimes'
<1> SUFFICES ASSUME ListingType, OneListing, ListingTimes, [ListingNext]_listingVars
             PROVE  ListingTimes'
  OBVIOUS
<1> USE ListingBounds DEF ListingType, ListingTimes, Lists
<1>1. ASSUME NEW t \in Clients, Request(t) PROVE ListingTimes'
  BY <1>1 DEF Request
<1>2. ASSUME NEW t \in Clients, ShowCached(t) PROVE ListingTimes'
  BY <1>2 DEF ShowCached
<1>3. ASSUME NEW t \in Clients, AwaitLoad(t) PROVE ListingTimes'
  BY <1>3 DEF AwaitLoad
<1>4. ASSUME NEW t \in Clients, BeginLoad(t) PROVE ListingTimes'
  BY <1>4 DEF BeginLoad
<1>5. ASSUME NEW t \in Clients, ListEndpoints(t) PROVE ListingTimes'
  BY <1>5 DEF ListEndpoints
<1>6. ASSUME NEW t \in Clients, ListingRaises(t) PROVE ListingTimes'
  BY <1>6 DEF ListingRaises
<1>7. ASSUME NEW t \in Clients, KeepListing(t) PROVE ListingTimes'
  <2>1. \A u \in Clients : ~ Lists(u)'
    BY <1>7 DEF KeepListing, Woken, OneListing
  <2>2. /\ cached'.value = fresh[t] /\ cached'.at = now /\ now' = now
        /\ answer' = fresh[t]
    BY <1>7 DEF KeepListing
  <2>3. /\ began[t] \in Int /\ fresh[t] \in Int /\ began[t] <= fresh[t]
        /\ fresh[t] <= now /\ now <= began[t] + MaxListing
    BY <1>7 DEF KeepListing
  <2> QED BY <2>1, <2>2, <2>3
<1>8. ASSUME NEW t \in Clients, DropLoading(t) PROVE ListingTimes'
  <2>1. \A u \in Clients : ~ Lists(u)'
    BY <1>8 DEF DropLoading, Woken, OneListing
  <2> QED BY <1>8, <2>1 DEF DropLoading
<1>9. CASE TimePasses
  BY <1>9 DEF TimePasses
<1>10. CASE UNCHANGED listingVars
  BY <1>10 DEF listingVars
<1> QED
  BY Zenon, <1>1, <1>2, <1>3, <1>4, <1>5, <1>6, <1>7, <1>8, <1>9, <1>10
     DEF ListingNext, ListingProceeds

ListingInv == ListingType /\ OneListing /\ ListingTimes

\* The listing cache keeps its inductive invariant; in it, one thread at a time
\* lists, and no request waits on the condition variable without it.
THEOREM ListingInvariant == ListingSpec => []ListingInv
<1>1. ListingInit => ListingInv
  <2> SUFFICES ASSUME ListingInit PROVE ListingInv
    OBVIOUS
  <2> USE DEF ListingInit
  <2>1. ListingType
    BY Zenon, ListingBounds DEF ListingType
  <2>2. OneListing
    BY DEF OneListing, Lists
  <2>3. ListingTimes
    BY ListingBounds DEF ListingTimes, Lists, NotYet
  <2> QED BY <2>1, <2>2, <2>3 DEF ListingInv
<1>2. ListingInv /\ [ListingNext]_listingVars => ListingInv'
  BY NextListingType, NextOneListing, NextListingTimes DEF ListingInv
<1> QED BY <1>1, <1>2, PTL DEF ListingSpec

\* For any number of threads and any TTL, the rows a request is shown are older
\* than the TTL by no more than a listing takes, and never older than the ones
\* shown before.
THEOREM RowsStayRecent == ListingSpec => RowsAreRecent
<1> DEFINE Recent == \A t \in Clients : ShowCached(t) \/ KeepListing(t) =>
                        /\ now - answer' <= TTL + MaxListing
                        /\ answer' >= answer
<1>1. ListingInv => Recent
  <2> SUFFICES ASSUME ListingInv, NEW t \in Clients, ShowCached(t) \/ KeepListing(t)
               PROVE  now - answer' <= TTL + MaxListing /\ answer' >= answer
    OBVIOUS
  <2> USE ListingBounds DEF ListingInv, ListingType, ListingTimes
  <2>1. CASE ShowCached(t)
    BY <2>1 DEF ShowCached, _is_fresh
  <2>2. CASE KeepListing(t)
    <3>1. Lists(t) /\ answer' = fresh[t]
      BY <2>2 DEF KeepListing, Lists
    <3>2. /\ began[t] \in Int /\ fresh[t] \in Int /\ began[t] <= fresh[t]
          /\ now <= began[t] + MaxListing /\ cached.at <= began[t]
      BY <2>2, <3>1 DEF KeepListing
    <3> QED BY <3>1, <3>2
  <2> QED BY <2>1, <2>2
<1>2. ListingInv /\ [ListingNext]_listingVars => [Recent]_listingVars
  BY SMTT(30), <1>1
<1> QED BY <1>2, ListingInvariant, PTL DEF ListingSpec, RowsAreRecent

-----------------------------------------------------------------------------
(* The client of the controllers.                                          *)

Inside(t) == stage[t] \in {"locked", "config", "build", "return"}

ClientInv ==
    /\ \A t \in Threads : Inside(t) <=> lock = t
    /\ \A t \in Threads : stage[t] \in {"config", "build"} => api = None
    /\ \A t \in Threads : stage[t] = "return" => api # None
    /\ api # None => api > retired
    /\ \A t \in Threads : since[t] <= retired
    /\ IF api = None THEN builds <= resets ELSE builds <= resets + 1

CallInv == NeverReturnsNone /\ ResetIsSeen

SharedClientInv == ClientTypeOK /\ ClientInv /\ CallInv

\* A step of get_core_v1_api or a reset keeps the types.
LEMMA NextClientTypeOK == SharedClientInv /\ [ClientNext]_clientVars => ClientTypeOK'
  <1> SUFFICES ASSUME SharedClientInv, [ClientNext]_clientVars PROVE ClientTypeOK'
    OBVIOUS
  <1> USE LimitsAssumption DEF SharedClientInv, ClientTypeOK, None, Raised, Pending
  <1>1. ASSUME NEW t \in Threads, AskClient(t) PROVE ClientTypeOK'
    BY <1>1 DEF AskClient
  <1>2. ASSUME NEW t \in Threads, FastPath(t) PROVE ClientTypeOK'
    BY <1>2 DEF FastPath
  <1>3. ASSUME NEW t \in Threads, Acquire(t) PROVE ClientTypeOK'
    BY <1>3 DEF Acquire
  <1>4. ASSUME NEW t \in Threads, LockedCheck(t) PROVE ClientTypeOK'
    BY <1>4 DEF LockedCheck
  <1>5. ASSUME NEW t \in Threads, LoadConfig(t) PROVE ClientTypeOK'
    BY <1>5 DEF LoadConfig
  <1>6. ASSUME NEW t \in Threads, Build(t) PROVE ClientTypeOK'
    BY <1>6 DEF Build
  <1>7. ASSUME NEW t \in Threads, Raise(t) PROVE ClientTypeOK'
    BY <1>7 DEF Raise
  <1>8. ASSUME NEW t \in Threads, Return(t) PROVE ClientTypeOK'
    BY <1>8 DEF Return
  <1>9. CASE Reset
    BY <1>9 DEF Reset
  <1>10. CASE UNCHANGED clientVars
    BY SMTT(30), <1>10 DEF clientVars
  <1> QED
    BY Zenon, <1>1, <1>2, <1>3, <1>4, <1>5, <1>6, <1>7, <1>8, <1>9, <1>10
       DEF ClientNext, ClientProceeds

\* A step keeps the lock, the check under it and the client in agreement.
LEMMA NextClientInv == SharedClientInv /\ [ClientNext]_clientVars => ClientInv'
  <1> SUFFICES ASSUME SharedClientInv, [ClientNext]_clientVars PROVE ClientInv'
    OBVIOUS
  <1> USE NobodyAssumption DEF SharedClientInv, ClientTypeOK, ClientInv, Inside, None
  <1>1. ASSUME NEW t \in Threads, AskClient(t) PROVE ClientInv'
    BY <1>1 DEF AskClient
  <1>2. ASSUME NEW t \in Threads, FastPath(t) PROVE ClientInv'
    BY <1>2 DEF FastPath
  <1>3. ASSUME NEW t \in Threads, Acquire(t) PROVE ClientInv'
    BY <1>3 DEF Acquire
  <1>4. ASSUME NEW t \in Threads, LockedCheck(t) PROVE ClientInv'
    BY <1>4 DEF LockedCheck
  <1>5. ASSUME NEW t \in Threads, LoadConfig(t) PROVE ClientInv'
    BY <1>5 DEF LoadConfig
  <1>6. ASSUME NEW t \in Threads, Build(t) PROVE ClientInv'
    BY <1>6 DEF Build
  <1>7. ASSUME NEW t \in Threads, Raise(t) PROVE ClientInv'
    BY <1>7 DEF Raise
  <1>8. ASSUME NEW t \in Threads, Return(t) PROVE ClientInv'
    BY <1>8 DEF Return
  <1>9. CASE Reset
    BY <1>9 DEF Reset
  <1>10. CASE UNCHANGED clientVars
    BY SMTT(30), <1>10 DEF clientVars
  <1> QED
    BY Zenon, <1>1, <1>2, <1>3, <1>4, <1>5, <1>6, <1>7, <1>8, <1>9, <1>10
       DEF ClientNext, ClientProceeds

\* A step returns a client, newer than any that was dropped before the call.
LEMMA NextCallInv == SharedClientInv /\ [ClientNext]_clientVars => CallInv'
  <1> SUFFICES ASSUME SharedClientInv, [ClientNext]_clientVars PROVE CallInv'
    OBVIOUS
  <1> USE DEF SharedClientInv, ClientTypeOK, ClientInv, CallInv, NeverReturnsNone, ResetIsSeen,
              None, Raised, Pending
  <1>1. ASSUME NEW t \in Threads, AskClient(t) PROVE CallInv'
    BY <1>1 DEF AskClient
  <1>2. ASSUME NEW t \in Threads, FastPath(t) PROVE CallInv'
    BY <1>2 DEF FastPath
  <1>3. ASSUME NEW t \in Threads, Raise(t) PROVE CallInv'
    BY <1>3 DEF Raise
  <1>4. ASSUME NEW t \in Threads, Return(t) PROVE CallInv'
    BY <1>4 DEF Return
  <1>5. CASE UNCHANGED <<got, since>>
    BY <1>5
  <1> QED
    BY Zenon, <1>1, <1>2, <1>3, <1>4, <1>5
       DEF ClientNext, ClientProceeds, Acquire, LockedCheck,
       LoadConfig, Build, Reset, clientVars

\* The invariant of the shared client.
THEOREM ClientInvariant == ClientSpec => []SharedClientInv
  <1>1. ClientInit => SharedClientInv
    BY LimitsAssumption, NobodyAssumption
       DEF ClientInit, SharedClientInv, ClientTypeOK, ClientInv, CallInv, Inside,
          NeverReturnsNone,
           ResetIsSeen, None, Raised, Pending
  <1>2. SharedClientInv /\ [ClientNext]_clientVars => SharedClientInv'
    BY NextClientTypeOK, NextClientInv, NextCallInv DEF SharedClientInv
  <1> QED
    BY <1>1, <1>2, PTL DEF ClientSpec

\* For any number of threads, no call of get_core_v1_api returns None.
THEOREM ClientIsReturned == ClientSpec => []NeverReturnsNone
  <1>1. SharedClientInv => NeverReturnsNone
    BY DEF SharedClientInv, CallInv
  <1> QED
    BY <1>1, ClientInvariant, PTL

\* For any number of threads, a reset is followed by at most one build.
THEOREM BuiltOncePerReset == ClientSpec => []OneBuildPerReset
  <1>1. SharedClientInv => OneBuildPerReset
    BY DEF SharedClientInv, ClientTypeOK, ClientInv, OneBuildPerReset
  <1> QED
    BY <1>1, ClientInvariant, PTL

\* For any number of threads, a call that begins after a reset gets a client
\* that was built after it.
THEOREM ResetTakesEffect == ClientSpec => []ResetIsSeen
  <1>1. SharedClientInv => ResetIsSeen
    BY DEF SharedClientInv, CallInv
  <1> QED
    BY <1>1, ClientInvariant, PTL

-----------------------------------------------------------------------------
(* The instances of the commands.                                          *)

UnderLock == {"locked", "constructing"}

\* The inductive invariant: the lock is held by one worker at most, who alone is
\* past the second lookup; and _instances and the instances made correspond.
RegistryInv ==
    /\ at \in [Workers -> {"outside", "lookup", "queueing"} \cup UnderLock]
    /\ asked \in [Workers -> Connections]
    /\ gotten \in [Workers -> Nat]
    /\ registry \in [Connections -> Nat]
    /\ made \in Seq(Connections)
    /\ \A t, u \in Workers : at[t] \in UnderLock /\ at[u] \in UnderLock => t = u
    /\ \A t \in Workers : at[t] \in UnderLock => holders # {}
    /\ \A t \in Workers : at[t] = "constructing" => registry[asked[t]] = NoInstance
    /\ \A k \in Connections : registry[k] # NoInstance =>
          registry[k] \in 1..Len(made) /\ made[registry[k]] = k
    /\ \A m \in 1..Len(made) : registry[made[m]] = m
    /\ \A t \in Workers : gotten[t] # NoInstance =>
          gotten[t] \in 1..Len(made) /\ made[gotten[t]] = asked[t]

\* No worker is inside Singleton.__call__ and nothing is registered at first.
LEMMA RegistryInvInit == RegistryInit => RegistryInv
  BY DEF RegistryInit, RegistryInv, UnderLock, NoInstance

\* Every step of a worker keeps the registry and the instances made in agreement.
LEMMA RegistryInvStep == RegistryInv /\ [RegistryNext]_registryVars => RegistryInv'
<1> SUFFICES ASSUME RegistryInv, [RegistryNext]_registryVars PROVE RegistryInv'
  OBVIOUS
<1> USE DEF RegistryInv, UnderLock, NoInstance
<1>1. ASSUME NEW t \in Workers, NEW k \in Connections, Ask(t, k) PROVE RegistryInv'
  BY <1>1 DEF Ask
<1>2. ASSUME NEW t \in Workers, LookUp(t) PROVE RegistryInv'
  <2>1. asked[t] \in Connections /\ registry[asked[t]] \in Nat
    OBVIOUS
  <2>2. CASE registry[asked[t]] # NoInstance
    <3>1. /\ gotten' = [gotten EXCEPT ![t] = registry[asked[t]]]
          /\ at' = [at EXCEPT ![t] = "outside"]
          /\ UNCHANGED <<asked, registry, made>>
      BY <1>2, <2>2 DEF LookUp, Leave
    <3>2. \A u \in Workers : gotten'[u] # 0 =>
             gotten'[u] \in 1..Len(made') /\ made'[gotten'[u]] = asked'[u]
      BY <2>1, <2>2, <3>1
    <3>3. \A u \in Workers : at'[u] \in UnderLock => at[u] \in UnderLock /\ u # t /\ holders' # {}
      BY <1>2, <2>2, <3>1 DEF LookUp
    <3>4. /\ at' \in [Workers -> {"outside", "lookup", "queueing"} \cup UnderLock]
          /\ gotten' \in [Workers -> Nat]
      BY <2>1, <3>1
    <3>5. \A u \in Workers : at'[u] = "constructing" => at[u] = "constructing"
      BY <3>1
    <3>6. QED
      BY <3>1, <3>2, <3>3, <3>4, <3>5
  <2>3. CASE registry[asked[t]] = NoInstance
    <3>1. /\ at' = [at EXCEPT ![t] = "queueing"]
          /\ UNCHANGED <<asked, gotten, registry, holders, made>>
      BY <1>2, <2>3 DEF LookUp
    <3>2. \A u \in Workers : at'[u] \in UnderLock => at[u] \in UnderLock
      BY <1>2, <3>1 DEF LookUp
    <3>3. \A u \in Workers : at'[u] = "constructing" => registry'[asked'[u]] = NoInstance
      BY <2>3, <3>1
    <3>4. at' \in [Workers -> {"outside", "lookup", "queueing"} \cup UnderLock]
      BY <3>1
    <3>5. QED
      BY <3>1, <3>2, <3>3, <3>4
  <2>4. QED
    BY <2>2, <2>3, Zenon
<1>3. ASSUME NEW t \in Workers, TakeLock(t) PROVE RegistryInv'
  BY <1>3 DEF TakeLock
<1>4. ASSUME NEW t \in Workers, LookAgain(t) PROVE RegistryInv'
  <2>1. asked[t] \in Connections /\ registry[asked[t]] \in Nat
    OBVIOUS
  <2>2. CASE registry[asked[t]] # NoInstance
    <3>1. /\ gotten' = [gotten EXCEPT ![t] = registry[asked[t]]]
          /\ at' = [at EXCEPT ![t] = "outside"]
          /\ UNCHANGED <<asked, registry, made>>
      BY <1>4, <2>2 DEF LookAgain, Leave
    <3>2. \A u \in Workers : gotten'[u] # 0 =>
             gotten'[u] \in 1..Len(made') /\ made'[gotten'[u]] = asked'[u]
      BY <2>1, <2>2, <3>1
    <3>3. \A u \in Workers : at'[u] \in UnderLock => at[u] \in UnderLock /\ u # t /\ holders' # {}
      BY <1>4, <2>2, <3>1 DEF LookAgain
    <3>4. /\ at' \in [Workers -> {"outside", "lookup", "queueing"} \cup UnderLock]
          /\ gotten' \in [Workers -> Nat]
      BY <2>1, <3>1
    <3>5. \A u \in Workers : at'[u] = "constructing" => at[u] = "constructing"
      BY <3>1
    <3>6. QED
      BY <3>1, <3>2, <3>3, <3>4, <3>5
  <2>3. CASE registry[asked[t]] = NoInstance
    <3>1. /\ at' = [at EXCEPT ![t] = "constructing"]
          /\ UNCHANGED <<asked, gotten, registry, holders, made>>
      BY <1>4, <2>3 DEF LookAgain
    <3>2. \A u \in Workers : at'[u] \in UnderLock => at[u] \in UnderLock
      BY <1>4, <3>1 DEF LookAgain
    <3>3. \A u \in Workers : at'[u] = "constructing" => registry'[asked'[u]] = NoInstance
      BY <2>3, <3>1
    <3>4. at' \in [Workers -> {"outside", "lookup", "queueing"} \cup UnderLock]
      BY SMTT(30), <3>1
    <3>5. QED
      BY <3>1, <3>2, <3>3, <3>4
  <2>4. QED
    BY <2>2, <2>3, Zenon
<1>5. ASSUME NEW t \in Workers, Construct(t) PROVE RegistryInv'
  <2> DEFINE k == asked[t]
             n == Len(made)
  <2>1. /\ at \in [Workers -> {"outside", "lookup", "queueing"} \cup UnderLock]
        /\ asked \in [Workers -> Connections] /\ gotten \in [Workers -> Nat]
        /\ registry \in [Connections -> Nat] /\ made \in Seq(Connections)
        /\ k \in Connections /\ n \in Nat
    OBVIOUS
  <2>2. /\ registry' = [registry EXCEPT ![k] = n + 1]
        /\ gotten' = [gotten EXCEPT ![t] = n + 1]
        /\ at' = [at EXCEPT ![t] = "outside"]
        /\ asked' = asked /\ made' = Append(made, k)
        /\ at[t] = "constructing"
    BY <1>5 DEF Construct, Leave
  <2>3. registry[k] = 0 /\ \A u \in Workers : at[u] \in UnderLock => u = t
    BY <2>2
  <2>4. /\ \A m \in 1..n : registry[made[m]] = m
        /\ \A j \in Connections : registry[j] # 0 =>
              registry[j] \in 1..n /\ made[registry[j]] = j
        /\ \A u \in Workers : gotten[u] # 0 =>
              gotten[u] \in 1..n /\ made[gotten[u]] = asked[u]
    OBVIOUS
  <2> HIDE DEF RegistryInv, k
  <2>5. /\ made' \in Seq(Connections) /\ Len(made') = n + 1 /\ made'[n + 1] = k
        /\ \A m \in 1..n : made'[m] = made[m] /\ made[m] \in Connections
    BY <2>1, <2>2
  <2> HIDE DEF n
  <2>6. 1..Len(made') = 1..n \cup {n + 1}
    BY <2>1, <2>5
  <2>7. \A m \in 1..n : made[m] # k /\ registry'[made[m]] = m
    <3> SUFFICES ASSUME NEW m \in 1..n PROVE made[m] # k /\ registry'[made[m]] = m
      OBVIOUS
    <3>1. registry[made[m]] = m /\ m # 0 /\ made[m] \in Connections
      BY <2>1, <2>4, <2>5
    <3> QED BY <2>1, <2>2, <2>3, <3>1
  <2>8. \A m \in 1..Len(made') : registry'[made'[m]] = m
    <3>1. registry'[k] = n + 1
      BY <2>1, <2>2
    <3> QED BY <2>5, <2>6, <2>7, <3>1
  <2>9. \A j \in Connections : registry'[j] # 0 =>
           registry'[j] \in 1..Len(made') /\ made'[registry'[j]] = j
    <3> SUFFICES ASSUME NEW j \in Connections, registry'[j] # 0
                 PROVE  registry'[j] \in 1..Len(made') /\ made'[registry'[j]] = j
      OBVIOUS
    <3>1. registry'[j] = IF j = k THEN n + 1 ELSE registry[j]
      BY <2>1, <2>2
    <3> QED BY <2>4, <2>5, <2>6, <3>1
  <2>10. \A u \in Workers : gotten'[u] # 0 =>
           gotten'[u] \in 1..Len(made') /\ made'[gotten'[u]] = asked'[u]
    <3> SUFFICES ASSUME NEW u \in Workers, gotten'[u] # 0
                 PROVE  gotten'[u] \in 1..Len(made') /\ made'[gotten'[u]] = asked[u]
      BY <2>2
    <3>1. gotten'[u] = (IF u = t THEN n + 1 ELSE gotten[u]) /\ k = asked[t]
      BY <2>1, <2>2 DEF k
    <3> QED BY <2>4, <2>5, <2>6, <3>1
  <2>11. /\ at' \in [Workers -> {"outside", "lookup", "queueing"} \cup UnderLock]
         /\ gotten' \in [Workers -> Nat] /\ registry' \in [Connections -> Nat]
         /\ \A u \in Workers : at'[u] \notin UnderLock
    BY <2>1, <2>2, <2>3
  <2> QED BY <2>1, <2>2, <2>5, <2>8, <2>9, <2>10, <2>11 DEF RegistryInv
<1>6. ASSUME NEW t \in Workers, ConstructRaises(t) PROVE RegistryInv'
  BY <1>6 DEF ConstructRaises, Leave
<1>7. CASE UNCHANGED registryVars
  BY <1>7 DEF registryVars
<1>8. QED
  BY <1>1, <1>2, <1>3, <1>4, <1>5, <1>6, <1>7, Zenon DEF RegistryNext, GetsOn

\* For any workers and connections: Singleton.__call__ makes one instance for a
\* connection at most, and hands out no other one's.
THEOREM InstancesAreUnique == RegistrySpec => []OneInstancePerConnection
<1>1. RegistryInv => OneInstancePerConnection
  BY DEF RegistryInv, OneInstancePerConnection, NoInstance
<1>2. QED
  BY RegistryInvInit, RegistryInvStep, <1>1, PTL DEF RegistrySpec
=============================================================================
