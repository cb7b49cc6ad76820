----------------------------- MODULE TaskService -----------------------------
(***************************************************************************)
(* The TaskService of a BMC, as the two task pollers use it: one task that *)
(* moves through the DMTF task states until it ends, after which its       *)
(* monitor may be removed, and the answers that a GET of the monitor can   *)
(* get.  The states are those of redfish_ctl/redfish_task_state.py; the    *)
(* service itself is outside of the repository.                            *)
(***************************************************************************)
EXTENDS Integers

CONSTANT
    MaxGlitches   \* bound: answers that do not show the task's state

ASSUME GlitchAssumption == MaxGlitches \in Nat

VARIABLES
    task,      \* TaskState of the task
    monitor,   \* "there", or "gone" once the service has removed it
    glitches,  \* answers that did not show the state, so far
    lived      \* history: the states that the task has been in

service == <<task, monitor, glitches, lived>>

\* New is handled like Starting, Interrupted, Pending and Service like
\* Suspended, Stopping like Cancelling and Killed like Cancelled: no poller
\* tells them apart.
TERMINAL_TASK_STATES == {"Completed", "Cancelled", "Exception"}
TaskState == {"Starting", "Running", "Suspended", "Cancelling"}
             \cup TERMINAL_TASK_STATES

\* The caller has no state yet, or asks for none.
Unread == "none"

\* What a body holds when it holds no task: no JSON, or JSON without the keys.
NoTask == {"nojson", "nokeys"}

ServiceInit ==
    /\ task \in TaskState
    /\ monitor = "there"
    /\ glitches = 0
    /\ lived = {task}

Progress ==
    /\ task \notin TERMINAL_TASK_STATES
    /\ task' \in TaskState \ {task}
    /\ lived' = lived \cup {task'}
    /\ UNCHANGED <<monitor, glitches>>

\* The monitor of a task that has ended is removed at some time.
Reap ==
    /\ task \in TERMINAL_TASK_STATES
    /\ monitor = "there"
    /\ monitor' = "gone"
    /\ UNCHANGED <<task, glitches, lived>>

\* The answers that show the task: 202 or 200 while it runs, 200 when it has
\* ended, 404 or 410 when it is gone.
Plain ==
    IF monitor = "gone" THEN {[code |-> "gone", state |-> "nokeys"]}
    ELSE {[code |-> c, state |-> task] :
             c \in IF task \in TERMINAL_TASK_STATES THEN {"ok"} ELSE {"accepted", "ok"}}

\* The others: no answer at all, 401, a 5xx, a body without a task, or another status code.
Glitch ==
    {[code |-> c, state |-> b] : c \in {"unauthorized", "failure", "lost"}, b \in {"nokeys"}}
    \cup {[code |-> c, state |-> b] : c \in {"accepted", "ok"}, b \in NoTask}
    \cup {[code |-> "other", state |-> b] : b \in NoTask \cup {task}}

\* An answer is r, and the count of glitches follows.
Answers(r) ==
    \/ r \in Plain /\ UNCHANGED service
    \/ /\ glitches < MaxGlitches
       /\ r \in Glitch
       /\ glitches' = glitches + 1
       /\ UNCHANGED <<task, monitor, lived>>

Replies == Plain \cup Glitch

ServiceType ==
    /\ task \in TaskState
    /\ monitor \in {"there", "gone"}
    /\ glitches \in 0 .. MaxGlitches
    /\ lived \subseteq TaskState

=============================================================================
