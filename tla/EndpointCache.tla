---------------------------- MODULE EndpointCache -----------------------------
(***************************************************************************)
(* _EndpointCache (k8s/consumer/fleet_status_app.py): the listing of the   *)
(* RedfishEndpoints that the threads of the dashboard server share for a   *)
(* few seconds.  The first request past the TTL lists them again with the  *)
(* lock released; the others wait on the condition variable, and one of    *)
(* them takes over when the listing raises.                                *)
(*                                                                         *)
(* A listing is named by the moment at which the API server made it.       *)
(***************************************************************************)
EXTENDS Integers

CONSTANTS
    Clients,    \* threads that serve a request
    TTL,        \* ttl_seconds
    MaxListing, \* bound: the API server answers within this time
    MaxNow,     \* bound: ticks
    MaxRaises   \* bound: listings that raise

ASSUME ListingAssumption == {TTL, MaxListing, MaxNow, MaxRaises} \subseteq Nat

VARIABLES
    place,    \* where each thread is in get
    began,    \* when it began its listing
    fresh,    \* the listing that its loader returned
    cached,   \* _value and _at
    loading,  \* _loading
    now,      \* time.monotonic()
    raises,   \* listings that have raised
    answer    \* history: the listing that was shown last

listingVars == <<place, began, fresh, cached, loading, now, raises, answer>>

NotYet == -1

(***************************************************************************)
(* Faulty variants of definitions below.                                   *)
(***************************************************************************)

\* Faulty variant: the flag is not looked at, so that two listings overlap.
LoadAnyway(t) ==
    /\ place[t] = "enter"
    /\ cached.at = NotYet \/ now - cached.at > TTL
    /\ loading' = TRUE
    /\ place' = [place EXCEPT ![t] = "listing"]
    /\ began' = [began EXCEPT ![t] = now]
    /\ UNCHANGED <<fresh, cached, now, raises, answer>>

\* Faulty variant: a listing that raises leaves the flag set.
RaiseKeepsLoading(t) ==
    /\ place[t] = "raised"
    /\ place' = [u \in Clients |-> IF u = t THEN "idle"
                                   ELSE IF place[u] = "waiting" THEN "enter" ELSE place[u]]
    /\ UNCHANGED <<began, fresh, cached, loading, now, raises, answer>>

(***************************************************************************)
(* get.  Every action is a stretch under the lock, or the loader.          *)
(***************************************************************************)

_is_fresh == cached.at # NotYet /\ now - cached.at <= TTL

\* notify_all: a waiter checks again, and waits, returns or loads.
Woken == [t \in Clients |-> IF place[t] = "waiting" THEN "enter" ELSE place[t]]

Request(t) ==
    /\ place[t] = "idle"
    /\ place' = [place EXCEPT ![t] = "enter"]
    /\ UNCHANGED <<began, fresh, cached, loading, now, raises, answer>>

ShowCached(t) ==
    /\ place[t] = "enter"
    /\ _is_fresh
    /\ place' = [place EXCEPT ![t] = "idle"]
    /\ answer' = cached.value
    /\ UNCHANGED <<began, fresh, cached, loading, now, raises>>

AwaitLoad(t) ==
    /\ place[t] = "enter"
    /\ ~_is_fresh
    /\ loading
    /\ place' = [place EXCEPT ![t] = "waiting"]
    /\ UNCHANGED <<began, fresh, cached, loading, now, raises, answer>>

BeginLoad(t) ==
    /\ place[t] = "enter"
    /\ ~_is_fresh
    /\ ~loading
    /\ loading' = TRUE
    /\ place' = [place EXCEPT ![t] = "listing"]
    /\ began' = [began EXCEPT ![t] = now]
    /\ UNCHANGED <<fresh, cached, now, raises, answer>>

\* load_endpoints: the API server makes the listing, which then travels.
ListEndpoints(t) ==
    /\ place[t] = "listing"
    /\ fresh' = [fresh EXCEPT ![t] = now]
    /\ place' = [place EXCEPT ![t] = "listed"]
    /\ UNCHANGED <<began, cached, loading, now, raises, answer>>

ListingRaises(t) ==
    /\ place[t] = "listing"
    /\ raises < MaxRaises
    /\ raises' = raises + 1
    /\ place' = [place EXCEPT ![t] = "raised"]
    /\ UNCHANGED <<began, fresh, cached, loading, now, answer>>

KeepListing(t) ==
    /\ place[t] = "listed"
    /\ cached' = [value |-> fresh[t], at |-> now]
    /\ loading' = FALSE
    /\ place' = [Woken EXCEPT ![t] = "idle"]
    /\ answer' = fresh[t]
    /\ began' = [began EXCEPT ![t] = NotYet]
    /\ fresh' = [fresh EXCEPT ![t] = NotYet]
    /\ UNCHANGED <<now, raises>>

\* The exception leaves get, and the request is answered with a 503.
DropLoading(t) ==
    /\ place[t] = "raised"
    /\ loading' = FALSE
    /\ place' = [Woken EXCEPT ![t] = "idle"]
    /\ began' = [began EXCEPT ![t] = NotYet]
    /\ UNCHANGED <<fresh, cached, now, raises, answer>>

\* Time passes, unless a listing has to be over.
TimePasses ==
    /\ now < MaxNow
    /\ \A t \in Clients :
          place[t] \in {"listing", "listed", "raised"} => now < began[t] + MaxListing
    /\ now' = now + 1
    /\ UNCHANGED <<place, began, fresh, cached, loading, raises, answer>>

ListingProceeds(t) ==
    \/ ShowCached(t)
    \/ AwaitLoad(t)
    \/ BeginLoad(t)
    \/ ListEndpoints(t)
    \/ ListingRaises(t)
    \/ KeepListing(t)
    \/ DropLoading(t)

ListingInit ==
    /\ place = [t \in Clients |-> "idle"]
    /\ began = [t \in Clients |-> NotYet]
    /\ fresh = [t \in Clients |-> NotYet]
    /\ cached = [value |-> NotYet, at |-> NotYet]
    /\ loading = FALSE
    /\ now = 0
    /\ raises = 0
    /\ answer = NotYet

ListingNext ==
    \/ \E t \in Clients : Request(t) \/ ListingProceeds(t)
    \/ TimePasses

ListingSpec == ListingInit /\ [][ListingNext]_listingVars

(***************************************************************************)
(* Properties.                                                             *)
(***************************************************************************)

\* The rows that a request is shown are older than the TTL by no more than the
\* listing took, because their age counts from the end of the listing; and no
\* request is shown older rows than another one was shown before it, though
\* listings fail, waiters take over and a waiter may wake up past the TTL.
RowsAreRecent ==
    [][\A t \in Clients : ShowCached(t) \/ KeepListing(t) =>
          /\ now - answer' <= TTL + MaxListing
          /\ answer' >= answer]_listingVars
=============================================================================
