------------------------------ MODULE KubeClient ------------------------------
(***************************************************************************)
(* The Kubernetes client that the handler threads of both controllers      *)
(* share (redfish_ctl/kube_client.py): get_core_v1_api with its            *)
(* double-checked lock, and reset_client_cache, which drops the client so  *)
(* that the next call builds a new one.                                    *)
(***************************************************************************)
EXTENDS Integers

CONSTANTS
    Threads,            \* handler threads
    Nobody,             \* the lock's owner when it is free
    MaxResets,          \* bound: calls of reset_client_cache
    MaxClientFailures   \* bound: config loads and builds that raise

ASSUME NobodyAssumption == Nobody \notin Threads
ASSUME LimitsAssumption == MaxResets \in Nat /\ MaxClientFailures \in Nat

VARIABLES
    stage,           \* where each thread is in get_core_v1_api
    got,             \* what its last call returned or raised
    lock,            \* owner of _LOCK
    api,             \* _CORE_V1_API: the number of the client, None at first
    builds,          \* clients built so far
    resets,          \* calls of reset_client_cache so far
    clientFailures,  \* loads and builds that raised
    retired,         \* history: the newest client that a reset has dropped
    since            \* history: `retired` when the thread's call began

clientVars == <<stage, got, lock, api, builds, resets, clientFailures, retired, since>>

None == 0
Raised == -1
Pending == -2

(***************************************************************************)
(* Faulty variants of definitions below.                                   *)
(***************************************************************************)

\* Faulty variant: the client is not looked up again under the lock.
LockedCheckSkipped(t) ==
    /\ stage[t] = "locked"
    /\ stage' = [stage EXCEPT ![t] = "config"]
    /\ UNCHANGED <<got, lock, api, builds, resets, clientFailures, retired, since>>

\* Faulty variant: the lock is released before the client is read back.
ReturnUnlocked(t) ==
    /\ stage[t] = "return"
    /\ \/ /\ lock = t
          /\ lock' = Nobody
          /\ UNCHANGED <<stage, got>>
       \/ /\ lock # t
          /\ got' = [got EXCEPT ![t] = api]
          /\ stage' = [stage EXCEPT ![t] = "idle"]
          /\ UNCHANGED lock
    /\ UNCHANGED <<api, builds, resets, clientFailures, retired, since>>

\* Faulty variant: the reset keeps the client.
ResetKeeps ==
    /\ resets < MaxResets
    /\ lock = Nobody
    /\ resets' = resets + 1
    /\ retired' = builds
    /\ UNCHANGED <<stage, got, lock, api, builds, clientFailures, since>>

(***************************************************************************)
(* get_core_v1_api.                                                        *)
(***************************************************************************)

AskClient(t) ==
    /\ stage[t] = "idle"
    /\ stage' = [stage EXCEPT ![t] = "unlocked"]
    /\ got' = [got EXCEPT ![t] = Pending]
    /\ since' = [since EXCEPT ![t] = retired]
    /\ UNCHANGED <<lock, api, builds, resets, clientFailures, retired>>

\* The read without the lock, into a local variable.
FastPath(t) ==
    /\ stage[t] = "unlocked"
    /\ \/ /\ api # None
          /\ got' = [got EXCEPT ![t] = api]
          /\ stage' = [stage EXCEPT ![t] = "idle"]
       \/ /\ api = None
          /\ stage' = [stage EXCEPT ![t] = "acquire"]
          /\ UNCHANGED got
    /\ UNCHANGED <<lock, api, builds, resets, clientFailures, retired, since>>

Acquire(t) ==
    /\ stage[t] = "acquire"
    /\ lock = Nobody
    /\ lock' = t
    /\ stage' = [stage EXCEPT ![t] = "locked"]
    /\ UNCHANGED <<got, api, builds, resets, clientFailures, retired, since>>

LockedCheck(t) ==
    /\ stage[t] = "locked"
    /\ stage' = [stage EXCEPT ![t] = IF api = None THEN "config" ELSE "return"]
    /\ UNCHANGED <<got, lock, api, builds, resets, clientFailures, retired, since>>

LoadConfig(t) ==
    /\ stage[t] = "config"
    /\ stage' = [stage EXCEPT ![t] = "build"]
    /\ UNCHANGED <<got, lock, api, builds, resets, clientFailures, retired, since>>

Build(t) ==
    /\ stage[t] = "build"
    /\ builds' = builds + 1
    /\ api' = builds + 1
    /\ stage' = [stage EXCEPT ![t] = "return"]
    /\ UNCHANGED <<got, lock, resets, clientFailures, retired, since>>

\* The package is missing, the config cannot be read or the client cannot be
\* built: the `with` block releases the lock and the exception propagates.
Raise(t) ==
    /\ stage[t] \in {"config", "build"}
    /\ clientFailures < MaxClientFailures
    /\ clientFailures' = clientFailures + 1
    /\ got' = [got EXCEPT ![t] = Raised]
    /\ lock' = Nobody
    /\ stage' = [stage EXCEPT ![t] = "idle"]
    /\ UNCHANGED <<api, builds, resets, retired, since>>

Return(t) ==
    /\ stage[t] = "return"
    /\ got' = [got EXCEPT ![t] = api]
    /\ lock' = Nobody
    /\ stage' = [stage EXCEPT ![t] = "idle"]
    /\ UNCHANGED <<api, builds, resets, clientFailures, retired, since>>

\* reset_client_cache, one assignment under the lock.
Reset ==
    /\ resets < MaxResets
    /\ lock = Nobody
    /\ resets' = resets + 1
    /\ api' = None
    /\ retired' = builds
    /\ UNCHANGED <<stage, got, lock, builds, clientFailures, since>>

ClientProceeds(t) ==
    \/ FastPath(t)
    \/ Acquire(t)
    \/ LockedCheck(t)
    \/ LoadConfig(t)
    \/ Build(t)
    \/ Raise(t)
    \/ Return(t)

ClientInit ==
    /\ stage = [t \in Threads |-> "idle"]
    /\ got = [t \in Threads |-> Pending]
    /\ lock = Nobody
    /\ api = None
    /\ builds = 0
    /\ resets = 0
    /\ clientFailures = 0
    /\ retired = 0
    /\ since = [t \in Threads |-> 0]

ClientNext == Reset \/ \E t \in Threads : AskClient(t) \/ ClientProceeds(t)

ClientSpec == ClientInit /\ [][ClientNext]_clientVars

(***************************************************************************)
(* Properties.                                                             *)
(***************************************************************************)

\* Every variable has its type.
ClientTypeOK ==
    /\ stage \in [Threads -> {"idle", "unlocked", "acquire", "locked",
                              "config", "build", "return"}]
    /\ got \in [Threads -> 0 .. builds \cup {Raised, Pending}]
    /\ lock \in Threads \cup {Nobody}
    /\ api \in 0 .. builds
    /\ builds \in Nat
    /\ resets \in 0 .. MaxResets
    /\ clientFailures \in 0 .. MaxClientFailures
    /\ retired \in 0 .. builds
    /\ since \in [Threads -> 0 .. builds]

\* A call that does not raise returns a client, never None, even when a
\* reset drops the client while the call is under way.
NeverReturnsNone == \A t \in Threads : got[t] # None

\* However many threads start at once, and however many loads fail first,
\* one client is built until a reset asks for another: "the first concurrent
\* burst of handler threads loads the config and builds the client exactly
\* once" (get_core_v1_api).
OneBuildPerReset == builds <= resets + 1

\* A call that begins after a reset is not served the client that the reset
\* dropped: "Drop the cached client so the next call rebuilds it"
\* (reset_client_cache).
ResetIsSeen == \A t \in Threads : got[t] > None => got[t] > since[t]

=============================================================================
