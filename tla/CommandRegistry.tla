---------------------------- MODULE CommandRegistry ----------------------------
(***************************************************************************)
(* The one instance per command class and BMC connection that the threads  *)
(* of a fleet share (class Singleton of redfish_api_common.py): a lookup   *)
(* without the lock, a second one under it, and the construction, which    *)
(* runs under the one lock that all classes and connections share.         *)
(***************************************************************************)
EXTENDS Integers, Sequences

CONSTANTS
    Workers,          \* threads of the fleet's pool
    Connections,      \* what _connection_key returns: a class and a connection
    MaxCtorFailures   \* bound: constructors that raise

ASSUME CtorAssumption == MaxCtorFailures \in Nat

VARIABLES
    at,         \* where each worker is in Singleton.__call__
    asked,      \* the key of its call
    gotten,     \* the instance its last call returned, or NoInstance
    registry,   \* _instances: for each key its instance, or NoInstance
    holders,    \* the workers that hold _lock, one at most
    made,       \* for each instance constructed so far, the key it was made for
    ctorFailures

registryVars == <<at, asked, gotten, registry, holders, made, ctorFailures>>

NoInstance == 0

Leave(t, inst) ==
    /\ gotten' = [gotten EXCEPT ![t] = inst]
    /\ at' = [at EXCEPT ![t] = "outside"]

(***************************************************************************)
(* Faulty variants of definitions below.                                   *)
(***************************************************************************)

\* Faulty variant: what another worker registered meanwhile is not looked up.
ConstructAnyway(t) ==
    /\ at[t] = "locked"
    /\ at' = [at EXCEPT ![t] = "constructing"]
    /\ UNCHANGED <<asked, gotten, registry, holders, made, ctorFailures>>

\* Faulty variant: the lock is taken and released without a `with` block, so
\* that a constructor that raises keeps it.
RaiseKeepsLock(t) ==
    /\ at[t] = "constructing"
    /\ ctorFailures < MaxCtorFailures
    /\ ctorFailures' = ctorFailures + 1
    /\ Leave(t, NoInstance)
    /\ UNCHANGED <<asked, registry, holders, made>>

(***************************************************************************)
(* Singleton.__call__.                                                     *)
(***************************************************************************)

\* A worker asks for the command of a connection.
Ask(t, k) ==
    /\ at[t] = "outside"
    /\ at' = [at EXCEPT ![t] = "lookup"]
    /\ asked' = [asked EXCEPT ![t] = k]
    /\ gotten' = [gotten EXCEPT ![t] = NoInstance]
    /\ UNCHANGED <<registry, holders, made, ctorFailures>>

\* The lookup without the lock.
LookUp(t) ==
    /\ at[t] = "lookup"
    /\ IF registry[asked[t]] # NoInstance
       THEN Leave(t, registry[asked[t]])
       ELSE at' = [at EXCEPT ![t] = "queueing"] /\ UNCHANGED gotten
    /\ UNCHANGED <<asked, registry, holders, made, ctorFailures>>

TakeLock(t) ==
    /\ at[t] = "queueing"
    /\ holders = {}
    /\ holders' = {t}
    /\ at' = [at EXCEPT ![t] = "locked"]
    /\ UNCHANGED <<asked, gotten, registry, made, ctorFailures>>

LookAgain(t) ==
    /\ at[t] = "locked"
    /\ IF registry[asked[t]] # NoInstance
       THEN Leave(t, registry[asked[t]]) /\ holders' = {}
       ELSE at' = [at EXCEPT ![t] = "constructing"] /\ UNCHANGED <<gotten, holders>>
    /\ UNCHANGED <<asked, registry, made, ctorFailures>>

\* The constructor returns; its instance is registered and the lock released.
Construct(t) ==
    /\ at[t] = "constructing"
    /\ made' = Append(made, asked[t])
    /\ registry' = [registry EXCEPT ![asked[t]] = Len(made')]
    /\ holders' = {}
    /\ Leave(t, Len(made'))
    /\ UNCHANGED <<asked, ctorFailures>>

\* The constructor raises: the `with` block releases the lock, and nothing is
\* registered.
ConstructRaises(t) ==
    /\ at[t] = "constructing"
    /\ ctorFailures < MaxCtorFailures
    /\ ctorFailures' = ctorFailures + 1
    /\ holders' = {}
    /\ Leave(t, NoInstance)
    /\ UNCHANGED <<asked, registry, made>>

GetsOn(t) ==
    \/ LookUp(t)
    \/ TakeLock(t)
    \/ LookAgain(t)
    \/ Construct(t)
    \/ ConstructRaises(t)

RegistryInit ==
    /\ at = [t \in Workers |-> "outside"]
    /\ asked \in [Workers -> Connections]
    /\ gotten = [t \in Workers |-> NoInstance]
    /\ registry = [k \in Connections |-> NoInstance]
    /\ holders = {}
    /\ made = <<>>
    /\ ctorFailures = 0

RegistryNext ==
    \E t \in Workers :
       \/ \E k \in Connections : Ask(t, k)
       \/ GetsOn(t)

RegistrySpec == RegistryInit /\ [][RegistryNext]_registryVars

(***************************************************************************)
(* Properties.                                                             *)
(***************************************************************************)

\* No connection ever has two instances of a command, whichever workers ask
\* first and whatever constructors raise, and no worker is handed the instance
\* of another connection: "Concurrent first-builds (fleet thread pool) must
\* converge on one instance" (Singleton.__call__).
OneInstancePerConnection ==
    /\ \A m, n \in DOMAIN made : made[m] = made[n] => m = n
    /\ \A t \in Workers : gotten[t] # NoInstance => made[gotten[t]] = asked[t]
=============================================================================
