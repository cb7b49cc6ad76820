------------------------------- MODULE TaskPoll -------------------------------
(***************************************************************************)
(* RedfishManager.fetch_task (redfish_ctl/redfish_manager.py): poll the    *)
(* TaskService until the task has ended, the awaited state is seen, the    *)
(* monitor is gone or failing, or the time is up.                          *)
(***************************************************************************)
EXTENDS TaskService

CONSTANTS
    Awaited,     \* the values of wait_for_state; Unread for None
    Sleep,       \* sleep_time, in ticks
    RetryAfter,  \* the Retry-After values that the service may send
    MaxDelay,    \* the longest of these and Sleep
    Timeout,     \* timeout, in ticks, of the calls that have one
    PollTime     \* longest GET, in ticks: http_timeout() bounds it

ASSUME PollAssumption ==
    /\ Awaited \subseteq TaskState \cup {Unread} /\ Awaited # {}
    /\ {Sleep, PollTime, MaxDelay} \cup RetryAfter \subseteq Nat
    /\ \A d \in RetryAfter \cup {Sleep} : d <= MaxDelay
    /\ Timeout \in Nat

VARIABLES
    waitFor,  \* wait_for_state of this call
    limit,    \* "timed", or "none" for a call without timeout
    pc,       \* "poll", "sleep", "returned" or "raised"
    seen,     \* task_state
    left,     \* ticks that the current sleep or GET may still take
    elapsed   \* ticks since the call, up to Horizon

args == <<waitFor, limit>>
poller == <<args, pc, seen, left, elapsed>>
vars == <<service, poller>>

Horizon == Timeout + MaxDelay + 2 * PollTime + 1

(***************************************************************************)
(* Faulty variants of definitions below.                                   *)
(***************************************************************************)

\* Faulty variant: an answer without a task is taken for its end.
NoTaskIsDone(old, r) == IF r.state \in NoTask THEN "Completed" ELSE r.state

\* Faulty variant: the service is asked to wait on top of the sleep.
DelayAdded(retry) == Sleep + retry

\* Faulty variant: a task that failed is not an end.
OnlyCompleted(s) == s = "Completed" \/ (waitFor # Unread /\ s = waitFor)

(***************************************************************************)
(* The loop.                                                               *)
(***************************************************************************)

\* get_task_state: a state that cannot be read leaves the last one.
get_task_state(old, r) == IF r.state \in NoTask THEN old ELSE r.state

Stops(s) == s \in TERMINAL_TASK_STATES \/ (waitFor # Unread /\ s = waitFor)

Delay(retry) == IF retry > Sleep THEN retry ELSE Sleep

TimeIsUp == limit = "timed" /\ elapsed >= Timeout

Ends(how) ==
    /\ pc' = how
    /\ left' = 0

Poll(r) ==
    /\ pc = "poll"
    /\ Answers(r)
    /\ UNCHANGED <<args, elapsed>>
    /\ \/ /\ r.code \in {"unauthorized", "lost"}
          /\ Ends("raised")
          /\ UNCHANGED seen
       \/ /\ r.code \in {"gone", "failure"}
          /\ Ends("returned")
          /\ UNCHANGED seen
       \/ /\ r.code \in {"accepted", "ok", "other"}
          /\ seen' = get_task_state(seen, r)
          /\ \/ (Stops(seen') \/ TimeIsUp) /\ Ends("returned")
             \/ /\ ~ Stops(seen') /\ ~ TimeIsUp
                /\ pc' = "sleep"
                /\ \E retry \in RetryAfter : left' = Delay(retry)

Wake ==
    /\ pc = "sleep"
    /\ left = 0
    /\ pc' = "poll"
    /\ left' = PollTime
    /\ UNCHANGED <<service, args, seen, elapsed>>

\* A tick of the sleep, or of a GET that has not been answered yet.
Tick ==
    /\ pc \in {"poll", "sleep"}
    /\ left > 0
    /\ left' = left - 1
    /\ elapsed' = IF elapsed < Horizon THEN elapsed + 1 ELSE elapsed
    /\ UNCHANGED <<service, args, pc, seen>>

Init ==
    /\ ServiceInit
    /\ waitFor \in Awaited
    /\ limit \in {"timed", "none"}
    /\ pc = "poll"
    /\ seen = Unread
    /\ left = PollTime
    /\ elapsed = 0

Next ==
    \/ \E r \in Replies : Poll(r)
    \/ Wake
    \/ Tick
    \/ (Progress \/ Reap) /\ UNCHANGED poller

Spec == Init /\ [][Next]_vars

\* The loop runs on, time passes and a GET is answered or times out.
Fairness == WF_vars(\E r \in Replies : Poll(r)) /\ WF_vars(Wake) /\ WF_vars(Tick)

(***************************************************************************)
(* Properties.                                                             *)
(***************************************************************************)

\* Every variable has its type, and the sleep is never longer than what was
\* asked for.
TypeOK ==
    /\ ServiceType
    /\ waitFor \in Awaited
    /\ limit \in {"timed", "none"}
    /\ pc \in {"poll", "sleep", "returned", "raised"}
    /\ seen \in TaskState \cup {Unread}
    /\ left \in 0 .. (IF pc = "poll" THEN PollTime ELSE MaxDelay)
    /\ elapsed \in 0 .. Horizon

\* What fetch_task returns is a state that the task has been in, and a
\* terminal state is the one it ended in, however answers were lost and
\* though the monitor may be gone by now.
ReturnIsTrue ==
    /\ seen \in lived \cup {Unread}
    /\ seen \in TERMINAL_TASK_STATES => seen = task

\* With a timeout the call is over after the budget, one delay and one GET:
\* time is only looked at after a poll (fetch_task).
LateByOneDelay == limit = "timed" => elapsed <= Timeout + MaxDelay + PollTime

\* A task that has ended ends the call, whatever its last state and whatever
\* glitches came before: "Poll the generic DMTF TaskService until a task
\* finishes" (fetch_task).
EndIsNoticed == task \in TERMINAL_TASK_STATES ~> pc \in {"returned", "raised"}

=============================================================================
