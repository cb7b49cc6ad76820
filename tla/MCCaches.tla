------------------------------- MODULE MCCaches -------------------------------
(***************************************************************************)
(* The three caches that threads share in one model: the responses of a    *)
(* scrape (ResponseCache), the listing of the dashboard (EndpointCache)    *)
(* and the Kubernetes client of the controllers (KubeClient).  They belong *)
(* to different processes; a behaviour is of one of them, and the          *)
(* variables of the others rest.                                           *)
(***************************************************************************)
EXTENDS ResponseCache, EndpointCache, KubeClient

VARIABLE used

\* What a caller wanted before its first call says nothing.
CachesInit ==
    /\ Init /\ ListingInit /\ ClientInit
    /\ \A c \in Callers : want[c] = CHOOSE k \in Keys : TRUE
    /\ used \in {"response", "listing", "client"}

CachesNext ==
    /\ \/ used = "response" /\ Next /\ UNCHANGED <<listingVars, clientVars>>
       \/ used = "listing" /\ ListingNext /\ UNCHANGED <<vars, clientVars>>
       \/ used = "client" /\ ClientNext /\ UNCHANGED <<vars, listingVars>>
    /\ UNCHANGED used

cachesVars == <<vars, listingVars, clientVars, used>>

\* The threads of a kind are interchangeable, and one stands for the others.
One(threads) == CHOOSE t \in threads : TRUE

\* A thread inside a cache runs on: a load returns or raises, and a thread
\* that may take the lock of a condition variable does.  The lock of the
\* client is not fair, so that a thread is only sure to get it when it is free
\* again and again; only the thread that is watched needs to.
CachesSpec ==
    /\ CachesInit /\ [][CachesNext]_cachesVars
    /\ \A c \in Callers : WF_vars(Proceeds(c))
    /\ \A t \in Clients : WF_listingVars(ListingProceeds(t))
    /\ \A t \in Threads : WF_clientVars(ClientProceeds(t))
    /\ SF_clientVars(Acquire(One(Threads)))

\* Every call of get_or_load and of get_core_v1_api and every request to the
\* dashboard ends, by a value or by an exception, though loaders and builds
\* raise, waiters take over and the client is reset.
NobodyWaitsForever ==
    /\ pc[One(Callers)] # "idle" ~> pc[One(Callers)] = "idle"
    /\ place[One(Clients)] # "idle" ~> place[One(Clients)] = "idle"
    /\ stage[One(Threads)] # "idle" ~> stage[One(Threads)] = "idle"
=============================================================================
