----------------------------- MODULE DellTaskPoll -----------------------------
(***************************************************************************)
(* IDracManager.fetch_task (redfish_ctl/idrac_manager.py): read the Dell   *)
(* job once, return at once unless it is scheduled or running, and         *)
(* otherwise poll the TaskService.  There is no timeout.                   *)
(***************************************************************************)
EXTENDS TaskService

CONSTANTS
    DellAwaited,  \* the values of wait_for_state; "Unknown" is the default
    Codes         \* the values of wait_for, classes of codes; Unread for 0

ASSUME DellAssumption ==
    /\ DellAwaited \subseteq TaskState \cup {"Unknown"} /\ DellAwaited # {}
    /\ Codes \subseteq {Unread, "accepted", "ok", "other"} /\ Codes # {}

VARIABLES
    dellWaitFor,   \* wait_for_state of this call
    waitCode,      \* wait_for of this call
    dellPc,        \* "job", "poll", "sleep", "returned" or "raised"
    dellSeen       \* task_state, or the job state that was returned

dellArgs == <<dellWaitFor, waitCode>>
dellPoller == <<dellArgs, dellPc, dellSeen>>
dellVars == <<service, dellPoller>>

(***************************************************************************)
(* The Dell job of a task, and how the two vocabularies are mapped.        *)
(***************************************************************************)

NoState == "nostate"

\* JobState is a view of its own on the task, one name for each way that
\* fetch_task treats it.  RebootCompleted and CompletedWithErrors are like
\* Completed, RebootFailed like Failed, Scheduling like Scheduled, and the
\* other names like Downloading.
JobNames ==
    CASE task = "Completed" -> {"Completed"}
      [] task \in {"Cancelled", "Exception"} -> {"Failed"}
      [] task = "Starting" -> {"New", "Downloading", "Scheduled"}
      [] OTHER -> {"Scheduled", "JobRunning", "Downloading", "Paused"}

\* The body of the job may also lack the key.
JobViews == JobNames \cup {NoState}

\* DellJobState has two names that _job_state_mapping lacks.
Mapped(j) == j \notin {"New", "Paused"}

WorthWaiting(j) == j \in {"Scheduled", "JobRunning", NoState}

\* Faulty variant: a task that was suspended is told as completed.
TaskStateMixed(s) == IF s = "Suspended" THEN "Completed" ELSE s

\* _task_state_mapping: Running is told as Starting, and the spelling of the
\* standard, Cancelling, is not there.
Known(s) == s # "Cancelling"
TaskStateOf(s) == IF s = "Running" THEN "Starting" ELSE s

(***************************************************************************)
(* The steps.                                                              *)
(***************************************************************************)

Returns(s) == dellPc' = "returned" /\ dellSeen' = s
Raises == dellPc' = "raised" /\ UNCHANGED dellSeen

\* get_task_state raises for a body without the keys and for a state that it
\* does not know; a body that is not JSON is Unknown with status Warning.
Parses(r) == r.state = "nojson" \/ (r.state \in TaskState /\ Known(r.state))
Parsed(r) == IF r.state = "nojson" THEN "Unknown" ELSE TaskStateOf(r.state)

\* Faulty variant: a 200 is slept over like a 202.
LoopsOn200(r) == dellSeen' = dellSeen /\ dellPc' = "sleep"

\* get_job, and the early return.
ReadJob(j) ==
    /\ dellPc = "job"
    /\ j \in JobViews
    /\ \/ ~ Mapped(j) /\ Raises
       \/ Mapped(j) /\ WorthWaiting(j) /\ dellPc' = "poll" /\ UNCHANGED dellSeen
       \/ Mapped(j) /\ ~ WorthWaiting(j) /\ Returns(j)
    /\ UNCHANGED <<service, dellArgs>>

\* get_job fails: base_query raises.
JobFails ==
    /\ dellPc = "job"
    /\ glitches < MaxGlitches
    /\ glitches' = glitches + 1
    /\ Raises
    /\ UNCHANGED <<task, monitor, lived, dellArgs>>

\* 202: keep the state; a status that is not OK ends the wait.  resp.json()
\* is called before get_task_state and raises where there is no JSON.
Accepted(r) ==
    \/ (r.state = "nojson" \/ ~ Parses(r)) /\ Raises
    \/ /\ r.state # "nojson" /\ Parses(r)
       /\ dellSeen' = Parsed(r)
       /\ dellPc' \in {"sleep", "returned"}

\* wait_for's own code, and 200.
Final(r) ==
    \/ ~ Parses(r) /\ Raises
    \/ Parses(r) /\ Returns(Parsed(r))

\* Any other code: wait_for_state is looked at here and nowhere else.
Other(r) ==
    \/ ~ Parses(r) /\ Raises
    \/ /\ Parses(r)
       /\ IF dellSeen = dellWaitFor THEN Returns(Parsed(r))
          ELSE dellSeen' = Parsed(r) /\ dellPc' = "sleep"

DellPoll(r) ==
    /\ dellPc = "poll"
    /\ Answers(r)
    /\ UNCHANGED dellArgs
    /\ CASE r.code \in {"unauthorized", "lost"} -> Raises
         [] r.code \in {"failure", "gone"} -> Returns(dellSeen)
         [] r.code = waitCode -> Final(r)
         [] r.code = "accepted" /\ waitCode # "accepted" -> Accepted(r)
         [] r.code = "ok" /\ waitCode # "ok" -> Final(r)
         [] OTHER -> Other(r)

\* int() raises for a Retry-After that is a date.
DatedRetry ==
    /\ dellPc = "poll"
    /\ glitches < MaxGlitches
    /\ glitches' = glitches + 1
    /\ Raises
    /\ UNCHANGED <<task, monitor, lived, dellArgs>>

\* time.sleep is over.
DellWake ==
    /\ dellPc = "sleep"
    /\ dellPc' = "poll"
    /\ UNCHANGED <<service, dellArgs, dellSeen>>

DellInit ==
    /\ ServiceInit
    /\ dellWaitFor \in DellAwaited
    /\ waitCode \in Codes
    /\ dellPc = "job"
    /\ dellSeen = "Unknown"

DellNext ==
    \/ \E j \in JobViews : ReadJob(j)
    \/ JobFails
    \/ \E r \in Replies : DellPoll(r)
    \/ DatedRetry
    \/ DellWake
    \/ (Progress \/ Reap) /\ UNCHANGED dellPoller

DellSpec == DellInit /\ [][DellNext]_dellVars

\* The loop runs on and a GET is answered or times out.
DellFairness ==
    /\ WF_dellVars(\E j \in JobViews : ReadJob(j))
    /\ WF_dellVars(\E r \in Replies : DellPoll(r))
    /\ WF_dellVars(DellWake)

(***************************************************************************)
(* Properties.                                                             *)
(***************************************************************************)

\* An end that fetch_task reports, from the job or from the task, is the end
\* the task had, though the job is read once before the polls and the monitor
\* may be gone by now.
EndIsTrue ==
    /\ dellSeen \in TERMINAL_TASK_STATES => dellSeen = task
    /\ dellSeen = "Failed" => task \in TERMINAL_TASK_STATES \ {"Completed"}

\* A task that has ended ends the call: "wait for job completion"
\* (fetch_task).
DellEndIsNoticed == task \in TERMINAL_TASK_STATES ~> dellPc \in {"returned", "raised"}

=============================================================================
