---------------------------- MODULE TaskPollProofs ----------------------------
(***************************************************************************)
(* What the two task polls report and how long the standard one may take,  *)
(* for every sleep, timeout and Retry-After, every wait_for and            *)
(* wait_for_state, and any number of answers that do not show the task.    *)
(***************************************************************************)
EXTENDS TaskPoll, DellTaskPoll, TLAPS

(***************************************************************************)
(* What has been seen is a state the task was in, and the states of lived  *)
(* that are terminal are the present one, because a task does not leave    *)
(* such a state.  Neither follows from ReturnIsTrue alone: Poll copies     *)
(* task into seen, so lived must hold task.                                *)
(***************************************************************************)
SeenInv ==
    /\ task \in lived
    /\ lived \cap TERMINAL_TASK_STATES \subseteq {task}
    /\ seen \in lived \cup {Unread}

(***************************************************************************)
(* LateByOneDelay with the time that the current sleep or GET may still    *)
(* take: time is only compared before a sleep, so the sleep and the GET    *)
(* that follows it come on top of the budget.                              *)
(***************************************************************************)
TimeInv ==
    limit = "timed" =>
        /\ pc = "sleep" => elapsed + left <= Timeout + MaxDelay
        /\ elapsed + left <= Timeout + MaxDelay + PollTime

\* The durations are natural numbers, and so is their sum.
LEMMA Durations ==
    /\ Sleep \in Nat /\ PollTime \in Nat /\ MaxDelay \in Nat /\ Timeout \in Nat
    /\ Horizon \in Nat
    /\ Horizon > Timeout + MaxDelay + PollTime
<1>1. Sleep \in Nat /\ PollTime \in Nat /\ MaxDelay \in Nat /\ Timeout \in Nat
  BY PollAssumption
<1> QED
  BY <1>1 DEF Horizon

\* What TypeOK says of the clock.
LEMMA ClockTypes ==
    TypeOK => /\ left \in Nat /\ elapsed \in Nat
              /\ pc = "poll" => left <= PollTime
              /\ pc # "poll" => left <= MaxDelay
BY Durations DEF TypeOK

\* The arguments of the call do not change.
LEMMA ArgsAreFixed == [Next]_vars => waitFor' = waitFor /\ limit' = limit
BY DEF Next, Poll, Wake, Tick, vars, poller, args

\* Every step keeps the types: the delay is at most MaxDelay (fetch_task's
\* max of sleep_time and Retry-After) and left only runs down.
LEMMA TypePreserved == TypeOK /\ [Next]_vars => TypeOK'
<1> SUFFICES ASSUME TypeOK, [Next]_vars PROVE TypeOK'
  OBVIOUS
<1> USE PollAssumption, GlitchAssumption, ArgsAreFixed
<1>1. ASSUME NEW r \in Replies, Poll(r) PROVE TypeOK'
  <2>1. ServiceType' /\ r.state \in TaskState \cup NoTask
    BY <1>1 DEF Poll, Answers, Replies, Plain, Glitch, TypeOK, ServiceType, service, NoTask
  <2>2. CASE r.code \in {"unauthorized", "lost"}
    BY <1>1, <2>1, <2>2 DEF Poll, Ends, TypeOK, Horizon
  <2>3. CASE r.code \in {"gone", "failure"}
    BY <1>1, <2>1, <2>3 DEF Poll, Ends, TypeOK, Horizon
  <2>4. CASE r.code \in {"accepted", "ok", "other"}
    <3>1. seen' \in TaskState \cup {Unread}
      BY <1>1, <2>1, <2>4 DEF Poll, get_task_state, TypeOK
    <3>2. \A d \in RetryAfter : Delay(d) \in 0 .. MaxDelay
      BY DEF Delay
    <3>3. elapsed' = elapsed
      BY <1>1 DEF Poll
    <3>4. \/ Ends("returned")
          \/ (pc' = "sleep" /\ left' \in 0 .. MaxDelay)
      BY <1>1, <2>4, <3>2 DEF Poll
    <3> QED
      BY <2>1, <3>1, <3>3, <3>4 DEF Ends, TypeOK
  <2> QED
    BY <1>1, <2>2, <2>3, <2>4 DEF Poll
<1>2. CASE Wake
  BY <1>2 DEF Wake, TypeOK, ServiceType, service
<1>3. CASE Tick
  <2>1. ServiceType' /\ UNCHANGED <<pc, seen>>
    BY <1>3 DEF Tick, TypeOK, ServiceType, service
  <2>2. left' \in 0 .. (IF pc = "poll" THEN PollTime ELSE MaxDelay)
    BY <1>3, Durations, ClockTypes DEF Tick
  <2>3. elapsed' \in 0 .. Horizon
    BY <1>3, Durations DEF Tick, TypeOK
  <2> QED
    BY <2>1, <2>2, <2>3 DEF TypeOK
<1>4. CASE (Progress \/ Reap) /\ UNCHANGED poller
  BY <1>4 DEF Progress, Reap, poller, args, TypeOK, ServiceType
<1>5. CASE UNCHANGED vars
  BY <1>5 DEF vars, service, poller, args, TypeOK, ServiceType
<1> QED
  BY <1>1, <1>2, <1>3, <1>4, <1>5 DEF Next

\* Every step keeps what is known of the states seen: an answer with a task
\* shows the present state, and any other leaves the last one.
LEMMA SeenPreserved == TypeOK /\ SeenInv /\ [Next]_vars => SeenInv'
<1> SUFFICES ASSUME TypeOK, SeenInv, [Next]_vars PROVE SeenInv'
  OBVIOUS
<1>1. ASSUME NEW r \in Replies, Poll(r) PROVE SeenInv'
  <2>1. UNCHANGED <<task, lived>> /\ r.state \in {task} \cup NoTask
    BY <1>1 DEF Poll, Answers, Replies, Plain, Glitch, service, NoTask
  <2>2. seen' \in {seen, task}
    BY <1>1, <2>1 DEF Poll, get_task_state
  <2> QED
    BY <2>1, <2>2 DEF SeenInv
<1>2. CASE Wake \/ Tick
  BY <1>2 DEF Wake, Tick, SeenInv, service
<1>3. CASE Progress /\ UNCHANGED poller
  BY <1>3 DEF Progress, poller, SeenInv
<1>4. CASE Reap /\ UNCHANGED poller
  BY <1>4 DEF Reap, poller, SeenInv
<1>5. CASE UNCHANGED vars
  BY <1>5 DEF vars, service, poller, SeenInv
<1> QED
  BY <1>1, <1>2, <1>3, <1>4, <1>5 DEF Next

\* Every step keeps the bound on the time: a sleep starts only while there is
\* time left (fetch_task's comparison before time.sleep).
LEMMA TimePreserved == TypeOK /\ TimeInv /\ [Next]_vars => TimeInv'
<1> SUFFICES ASSUME TypeOK, TimeInv, [Next]_vars, limit' = "timed" PROVE TimeInv'
  BY DEF TimeInv
<1> USE Durations, ClockTypes, ArgsAreFixed
<1>1. ASSUME NEW r \in Replies, Poll(r) PROVE TimeInv'
  <2>1. elapsed' = elapsed
    BY <1>1 DEF Poll
  <2>2. CASE left' = 0 /\ pc' \in {"returned", "raised"}
    BY <2>1, <2>2 DEF TimeInv
  <2>3. CASE pc' = "sleep" /\ ~ TimeIsUp /\ \E d \in RetryAfter : left' = Delay(d)
    <3>1. left' \in Nat /\ left' <= MaxDelay
      BY <2>3, PollAssumption DEF Delay
    <3>2. elapsed < Timeout
      BY <2>3 DEF TimeIsUp
    <3> QED
      BY <2>1, <3>1, <3>2 DEF TimeInv
  <2> QED
    BY <1>1, <2>2, <2>3 DEF Poll, Ends
<1>2. CASE Wake
  BY <1>2 DEF Wake, TimeInv
<1>3. CASE Tick
  BY <1>3 DEF Tick, TimeInv
<1>4. CASE (Progress \/ Reap) /\ UNCHANGED poller
  BY <1>4 DEF poller, TimeInv
<1>5. CASE UNCHANGED vars
  BY <1>5 DEF vars, poller, TimeInv
<1> QED
  BY <1>1, <1>2, <1>3, <1>4, <1>5 DEF Next

\* The inductive invariant holds in every run of a poll.
THEOREM PollInvariant == Spec => [](TypeOK /\ SeenInv /\ TimeInv)
<1>1. Init => TypeOK /\ SeenInv /\ TimeInv
  <2> SUFFICES ASSUME Init PROVE TypeOK /\ SeenInv /\ TimeInv
    OBVIOUS
  <2>1. TypeOK
    <3>1. ServiceType
      BY GlitchAssumption DEF Init, ServiceInit, ServiceType
    <3>2. left \in 0 .. (IF pc = "poll" THEN PollTime ELSE MaxDelay)
      BY Durations DEF Init
    <3>3. elapsed \in 0 .. Horizon
      BY Durations DEF Init
    <3> QED
      BY <3>1, <3>2, <3>3 DEF Init, TypeOK
  <2>2. SeenInv
    BY DEF Init, ServiceInit, SeenInv
  <2>3. TimeInv
    BY Durations DEF Init, TimeInv
  <2> QED
    BY <2>1, <2>2, <2>3
<1>2. (TypeOK /\ SeenInv /\ TimeInv) /\ [Next]_vars => (TypeOK /\ SeenInv /\ TimeInv)'
  BY TypePreserved, SeenPreserved, TimePreserved
<1> QED
  BY <1>1, <1>2, PTL DEF Spec

\* fetch_task only ever reports a state that the task was in, and an end only
\* if it is the end the task had, whatever answers were lost.
THEOREM PollIsTrue == Spec => []ReturnIsTrue
<1>1. SeenInv => ReturnIsTrue
  BY DEF SeenInv, ReturnIsTrue, TERMINAL_TASK_STATES, Unread
<1> QED
  BY PollInvariant, <1>1, PTL

\* fetch_task is over at most one delay and one GET after its timeout,
\* whatever Retry-After the service sends.
THEOREM PollIsBounded == Spec => []LateByOneDelay
<1>1. TypeOK /\ TimeInv => LateByOneDelay
  BY Durations, ClockTypes DEF TimeInv, LateByOneDelay
<1> QED
  BY PollInvariant, <1>1, PTL

-----------------------------------------------------------------------------
(***************************************************************************)
(* IDracManager.fetch_task.  EndIsTrue is not inductive alone: DellPoll    *)
(* copies the task's state into dellSeen, and only because "Failed" is a   *)
(* name of jobs and not of tasks does that never look like a failed job.   *)
(***************************************************************************)
DellInv == task \in TaskState /\ EndIsTrue

\* An answer that parses shows the present state, with Running told as
\* Starting, or nothing at all (get_task_state).
LEMMA ParsedIsPresent ==
    ASSUME NEW r \in Replies, Parses(r)
    PROVE  Parsed(r) \in {task, "Starting", "Unknown"}
<1>1. r.state \in {task, "nojson", "nokeys"}
  BY DEF Replies, Plain, Glitch, NoTask
<1>2. "nokeys" \notin TaskState
  BY DEF TaskState, TERMINAL_TASK_STATES
<1> QED
  BY <1>1, <1>2 DEF Parses, Parsed, TaskStateOf

\* A poll leaves the last state, or takes what its answer shows.
LEMMA PollShows ==
    ASSUME NEW r \in Replies, DellPoll(r)
    PROVE  task' = task /\ dellSeen' \in {dellSeen, task, "Starting", "Unknown"}
<1>1. task' = task
  BY DEF DellPoll, Answers, service
<1>2. \/ Raises \/ Returns(dellSeen) \/ Final(r) \/ Accepted(r) \/ Other(r)
  BY Zenon DEF DellPoll
<1>3. dellSeen' = dellSeen \/ (Parses(r) /\ dellSeen' = Parsed(r))
  BY <1>2 DEF Raises, Returns, Final, Accepted, Other
<1> QED
  BY <1>1, <1>3, ParsedIsPresent

\* The early return of fetch_task tells the end of the job only when the task
\* has ended that way.
LEMMA JobShows ==
    ASSUME NEW j, ReadJob(j), task \in TaskState
    PROVE  /\ task' = task
           /\ \/ dellSeen' = dellSeen
              \/ dellSeen' = "Completed" /\ task = "Completed"
              \/ dellSeen' = "Failed" /\ task \in {"Cancelled", "Exception"}
              \/ dellSeen' = "Downloading"
<1>1. task' = task /\ j \in JobViews
  BY DEF ReadJob, service
<1>2. dellSeen' = dellSeen \/ (dellSeen' = j /\ Mapped(j) /\ ~ WorthWaiting(j))
  BY DEF ReadJob, Raises, Returns
<1>3. ASSUME Mapped(j), ~ WorthWaiting(j)
      PROVE  \/ j = "Completed" /\ task = "Completed"
             \/ j = "Failed" /\ task \in {"Cancelled", "Exception"}
             \/ j = "Downloading"
  <2>1. j # NoState /\ j \notin {"New", "Paused", "Scheduled", "JobRunning"}
    BY <1>3 DEF Mapped, WorthWaiting
  <2>2. j \in JobNames
    BY <1>1, <2>1 DEF JobViews
  <2>3. CASE task = "Completed"
    BY <2>2, <2>3 DEF JobNames
  <2>4. CASE task \in {"Cancelled", "Exception"}
    BY <2>2, <2>4 DEF JobNames
  <2>5. CASE task \notin {"Completed", "Cancelled", "Exception"}
    BY <2>1, <2>2, <2>5 DEF JobNames
  <2> QED BY <2>3, <2>4, <2>5
<1> QED BY <1>1, <1>2, <1>3

\* Every step keeps the end true: a task does not leave its end, and what a
\* poll or the job shows is the task's own.
LEMMA NextDellInv == DellInv /\ [DellNext]_dellVars => DellInv'
<1> SUFFICES ASSUME DellInv, [DellNext]_dellVars PROVE DellInv'
  OBVIOUS
<1> USE DEF DellInv, EndIsTrue, TERMINAL_TASK_STATES, TaskState
<1>1. ASSUME NEW j \in JobViews, ReadJob(j) PROVE DellInv'
  BY <1>1, JobShows
<1>2. ASSUME NEW r \in Replies, DellPoll(r) PROVE DellInv'
  BY <1>2, PollShows
<1>3. CASE JobFails \/ DatedRetry
  BY <1>3 DEF JobFails, DatedRetry, Raises
<1>4. CASE DellWake
  BY <1>4 DEF DellWake, service
<1>5. CASE Progress /\ UNCHANGED dellPoller
  BY <1>5 DEF Progress, dellPoller
<1>6. CASE Reap /\ UNCHANGED dellPoller
  BY <1>6 DEF Reap, dellPoller
<1>7. CASE UNCHANGED dellVars
  BY <1>7 DEF dellVars, service, dellPoller
<1> QED
  BY <1>1, <1>2, <1>3, <1>4, <1>5, <1>6, <1>7 DEF DellNext

\* For every wait_for and wait_for_state, an end that fetch_task reports is the
\* end the task had, though the job is read before the polls and the monitor
\* may have been removed.
THEOREM DellEndIsTrue == DellSpec => []EndIsTrue
<1>1. DellInit => DellInv
  BY DEF DellInit, ServiceInit, DellInv, EndIsTrue, TERMINAL_TASK_STATES
<1>2. DellInv => EndIsTrue
  BY DEF DellInv
<1> QED
  BY <1>1, <1>2, NextDellInv, PTL DEF DellSpec

=============================================================================
