------------------------------ MODULE MCManager -------------------------------
(***************************************************************************)
(* What a worker of a fleet does with a manager, besides its requests: it  *)
(* looks up the instance of a command for its connection (CommandRegistry) *)
(* and waits for a task, in the standard way (TaskPoll) or in Dell's       *)
(* (DellTaskPoll).  A behaviour is of one of the three, and the variables  *)
(* of the others rest.                                                     *)
(***************************************************************************)
EXTENDS CommandRegistry, TaskPoll, DellTaskPoll

VARIABLE doing

\* A call of fetch_task that is over, or was never made: its arguments say
\* nothing.
PollOver ==
    /\ waitFor = CHOOSE s \in Awaited : TRUE
    /\ limit = "none"
    /\ pc = "returned"
    /\ seen = Unread
    /\ left = 0
    /\ elapsed = 0

DellPollOver ==
    /\ dellWaitFor = CHOOSE s \in DellAwaited : TRUE
    /\ waitCode = CHOOSE c \in Codes : TRUE
    /\ dellPc = "returned"
    /\ dellSeen = "Unknown"

ManagerInit ==
    /\ RegistryInit
    /\ \A t \in Workers : asked[t] = CHOOSE k \in Connections : TRUE
    /\ \/ doing = "lookup" /\ ServiceInit /\ task = "Starting" /\ PollOver /\ DellPollOver
       \/ doing = "fetch_task" /\ Init /\ DellPollOver
       \/ doing = "dell fetch_task" /\ DellInit /\ PollOver

ManagerNext ==
    /\ \/ doing = "lookup" /\ RegistryNext /\ UNCHANGED <<service, poller, dellPoller>>
       \/ doing = "fetch_task" /\ Next /\ UNCHANGED <<registryVars, dellPoller>>
       \/ doing = "dell fetch_task" /\ DellNext /\ UNCHANGED <<registryVars, poller>>
    /\ UNCHANGED doing

managerVars == <<registryVars, service, poller, dellPoller, doing>>

\* The workers are interchangeable, and one stands for the others.
OneWorker == CHOOSE t \in Workers : TRUE

\* A worker inside Singleton.__call__ runs on.  Python's lock is not fair, so a
\* worker is only sure to get it when it is free again and again; only the one
\* that is watched needs to.  The loops of the two polls run on, time passes,
\* and a GET is answered or times out.
ManagerSpec ==
    /\ ManagerInit /\ [][ManagerNext]_managerVars
    /\ \A t \in Workers : WF_registryVars(GetsOn(t))
    /\ SF_registryVars(TakeLock(OneWorker))
    /\ Fairness /\ DellFairness

\* Every call of a command's class ends, whatever the constructors of other
\* workers raise while they hold the lock that all classes and connections
\* share (Singleton.__call__).
EveryCallEnds == at[OneWorker] # "outside" ~> at[OneWorker] = "outside"
=============================================================================
