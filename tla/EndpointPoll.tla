----------------------------- MODULE EndpointPoll -----------------------------
(***************************************************************************)
(* The RedfishEndpoint controller (k8s/controller/                         *)
(* redfish_endpoint_controller.py) for one resource.  kopf calls           *)
(* poll_redfish_endpoint from a timer, which poll_due may skip, and        *)
(* poll_on_change after an edit of the spec, which always polls.  A poll   *)
(* takes time: it works on the spec and the status it was given, stamps    *)
(* what it writes with the time at which it began, and its status patch is *)
(* merged into whatever the status has become.                             *)
(*                                                                         *)
(* The clock counts ticks, TicksPerSecond of them to the second, because   *)
(* _rfc3339 drops the fraction of a second from every stored time.         *)
(***************************************************************************)
EXTENDS Integers

CONSTANTS
    TicksPerSecond,  \* resolution of the clock
    Base,            \* base_interval_seconds(), in ticks
    Interval,        \* spec.pollInterval, in ticks
    Cap,             \* MAX_BACKOFF_SECONDS, in ticks
    MaxExponent,     \* largest power of two that a float holds (1023)
    MaxPoll,         \* longest poll, in ticks: the HTTP timeouts bound it
    Health,          \* outcomes that polls of the BMC can have
    MaxTime,         \* bound: ticks
    MaxEdits,        \* bound: edits of the spec
    MaxChanges       \* bound: changes of the BMC's health

ASSUME TimingAssumption ==
    /\ {TicksPerSecond, Base, Interval, Cap} \subseteq Nat \ {0}
    /\ {MaxExponent, MaxPoll, MaxTime, MaxEdits, MaxChanges} \subseteq Nat
    /\ Health # {}

VARIABLES
    clock,    \* ticks since the resource was created
    spec,     \* generation of the spec: the number of edits
    pending,  \* "yes" while kopf owes poll_on_change a call
    nextFire, \* when the timer is to fire
    status,   \* .status of the resource
    poll,     \* the poll that each handler is in
    bmc,      \* what a read of the BMC would meet
    changes,  \* changes of the BMC's health so far
    ledger    \* history, for the properties

vars == <<clock, spec, pending, nextFire, status, poll, bmc, changes, ledger>>

Handlers == {"timer", "change"}
Never == -1
Conditions == {"Reachable", "Authenticated", "ProfileResolved", "Ready"}

\* How a poll can end: with readings, with readings but no network firmware,
\* with an error of POLL_ERRORS as _classify_poll_error sorts them (Timeout
\* counts as BMCUnreachable and ResourceNotFound as PollFailed, whose
\* conditions they share), or with any other exception.
Successes == {"readings", "no firmware"}
PollErrors == {"AuthenticationFailed", "BMCUnreachable", "PollFailed"}
Outcomes == Successes \cup PollErrors \cup {"exception"}

POLL_DUE_TOLERANCE == TicksPerSecond

Smaller(a, b) == IF a < b THEN a ELSE b
Larger(a, b) == IF a < b THEN b ELSE a

(***************************************************************************)
(* Faulty variants of definitions below.                                   *)
(***************************************************************************)

\* Faulty variant: the stored transition time is always the new one.
MergeConditionsAnew(prior, desired, at) ==
    [c \in Conditions |-> [status |-> desired[c],
                           since |-> at - (at % TicksPerSecond)]]

\* Faulty variant: the deadline survives a successful poll.
SuccessKeepsBackoff(prior, outcome, gen, at) ==
    [lastPolled |-> at - (at % TicksPerSecond),
     failures |-> 0,
     nextPollAfter |-> prior.nextPollAfter,
     readings |-> gen,
     firmware |-> gen,
     conditions |-> [c \in Conditions |->
        IF prior.conditions[c].status = "True" THEN prior.conditions[c]
        ELSE [status |-> "True", since |-> at - (at % TicksPerSecond)]]]

\* Faulty variant: only the interval is looked at.
DueByInterval(s, now) ==
    \/ s.lastPolled = Never
    \/ now - s.lastPolled + TicksPerSecond >= Interval

\* Faulty variant: a resource that was never polled is not due.
NeverPolledWaits(s, now) ==
    /\ s.nextPollAfter = Never \/ now >= s.nextPollAfter
    /\ s.lastPolled # Never
    /\ now - s.lastPolled + TicksPerSecond >= Interval

(***************************************************************************)
(* The status.                                                             *)
(***************************************************************************)

\* _rfc3339: stored times are cut to the second.
Stored(t) == t - (t % TicksPerSecond)

\* _merge_conditions: a condition whose status is unchanged keeps its time.
merge_conditions(prior, desired, at) ==
    [c \in Conditions |->
        IF prior[c].status = desired[c] THEN prior[c]
        ELSE [status |-> desired[c], since |-> Stored(at)]]

backoff_seconds(n) == IF n < 1 THEN Base ELSE Smaller(Base * 2 ^ (n - 1), Cap)

\* The conditions of build_error_status, and those of build_success_status.
Desired(outcome) ==
    [c \in Conditions |->
        CASE c = "Reachable" ->
                IF outcome = "BMCUnreachable" THEN "False" ELSE "True"
          [] c = "Authenticated" ->
                IF outcome = "AuthenticationFailed" THEN "False"
                ELSE IF outcome = "BMCUnreachable" THEN "Unknown" ELSE "True"
          [] c = "ProfileResolved" -> IF outcome \in Successes THEN "True" ELSE "Unknown"
          [] c = "Ready" -> IF outcome \in Successes THEN "True" ELSE "False"]

\* Computing the delay overflows the float, and OverflowError is raised.
Overflows(prior) == prior.failures > MaxExponent

poll_due(s, now) ==
    /\ s.nextPollAfter = Never \/ now >= s.nextPollAfter
    /\ s.lastPolled = Never
       \/ now - s.lastPolled + POLL_DUE_TOLERANCE >= Interval

\* build_status and build_success_status.  Firmware that could not be read
\* is left out of the patch.
build_success_status(prior, outcome, gen, at) ==
    [lastPolled |-> Stored(at),
     failures |-> 0,
     nextPollAfter |-> Never,
     readings |-> gen,
     firmware |-> IF outcome = "readings" THEN gen ELSE Never,
     conditions |-> merge_conditions(prior.conditions, Desired(outcome), at)]

\* build_error_status: counted from the status that the poll was given.
build_error_status(prior, outcome, at) ==
    [failures |-> prior.failures + 1,
     nextPollAfter |-> Stored(at + backoff_seconds(prior.failures + 1)),
     conditions |-> merge_conditions(prior.conditions, Desired(outcome), at)]

\* The merge patches: a successful poll may leave the firmware, a failed one
\* leaves lastPolled and all the readings.
MergeSuccess(s, patch) ==
    [patch EXCEPT !.firmware = IF @ = Never THEN s.firmware ELSE @]

MergeError(s, patch) ==
    [lastPolled |-> s.lastPolled,
     readings |-> s.readings,
     firmware |-> s.firmware,
     failures |-> patch.failures,
     nextPollAfter |-> patch.nextPollAfter,
     conditions |-> patch.conditions]

(***************************************************************************)
(* The handlers.                                                           *)
(***************************************************************************)

Idle == [phase |-> "idle", at |-> Never, gen |-> Never, health |-> "readings",
         seen |-> [lastPolled |-> Never, failures |-> 0, nextPollAfter |-> Never,
                   readings |-> Never, firmware |-> Never,
                   conditions |-> [c \in Conditions |->
                                     [status |-> "", since |-> Never]]]]

\* kopf runs a handler once at a time, but the timer beside the change handler.
Free(h) == poll[h] = Idle

Begin(h) ==
    /\ poll' = [poll EXCEPT ![h] =
                   [phase |-> "polling", at |-> clock, gen |-> spec,
                    health |-> bmc, seen |-> status]]
    /\ ledger' = [ledger EXCEPT !.overlap =
                     IF \A g \in Handlers : Free(g) THEN @ ELSE "yes"]

\* The timer fires and the poll is not due.
FireSkips ==
    /\ Free("timer")
    /\ clock >= nextFire
    /\ ~ poll_due(status, clock)
    /\ nextFire' = clock + Base
    /\ UNCHANGED <<clock, spec, pending, status, poll, bmc, changes, ledger>>

\* The timer fires and the poll is due.
FirePolls ==
    /\ Free("timer")
    /\ clock >= nextFire
    /\ poll_due(status, clock)
    /\ nextFire' = clock + Base
    /\ Begin("timer")
    /\ UNCHANGED <<clock, spec, pending, status, bmc, changes>>

\* poll_on_change: the spec was created or edited.
ChangePolls ==
    /\ Free("change")
    /\ pending = "yes"
    /\ pending' = "no"
    /\ Begin("change")
    /\ UNCHANGED <<clock, spec, nextFire, status, bmc, changes>>

\* The poll meets what the BMC was when it began or what it is now.
Meets(h, outcome) == outcome \in {poll[h].health, bmc}

PollSucceeds(h) ==
    \E outcome \in Successes :
        /\ poll[h] # Idle
        /\ Meets(h, outcome)
        /\ status' = MergeSuccess(status,
              build_success_status(poll[h].seen, outcome, poll[h].gen, poll[h].at))
        /\ ledger' = [ledger EXCEPT !.streak = 0, !.goodAt = poll[h].at,
                                    !.recorded = poll[h].gen]
        /\ poll' = [poll EXCEPT ![h] = Idle]
        /\ UNCHANGED <<clock, spec, pending, nextFire, bmc, changes>>

PollFails(h) ==
    \E outcome \in PollErrors :
        /\ poll[h] # Idle
        /\ Meets(h, outcome)
        /\ ~ Overflows(poll[h].seen)
        /\ status' = MergeError(status,
              build_error_status(poll[h].seen, outcome, poll[h].at))
        /\ ledger' = [ledger EXCEPT !.streak = @ + 1, !.failedAt = poll[h].at,
                                    !.recorded = poll[h].gen]
        /\ poll' = [poll EXCEPT ![h] = Idle]
        /\ UNCHANGED <<clock, spec, pending, nextFire, bmc, changes>>

\* An exception that is not one of POLL_ERRORS, or the OverflowError of the
\* delay: nothing is written and kopf calls a change handler again.
PollRaises(h) ==
    /\ poll[h] # Idle
    /\ \/ Meets(h, "exception")
       \/ Overflows(poll[h].seen) /\ \E e \in PollErrors : Meets(h, e)
    /\ pending' = IF h = "change" THEN "yes" ELSE pending
    /\ poll' = [poll EXCEPT ![h] = Idle]
    /\ ledger' = IF Meets(h, "exception") THEN ledger
                 ELSE [ledger EXCEPT !.streak = @ + 1, !.failedAt = poll[h].at]
    /\ UNCHANGED <<clock, spec, nextFire, status, bmc, changes>>

(***************************************************************************)
(* The surroundings.                                                       *)
(***************************************************************************)

EditSpec ==
    /\ spec < MaxEdits
    /\ spec' = spec + 1
    /\ pending' = "yes"
    /\ ledger' = [ledger EXCEPT !.steadySince = clock]
    /\ UNCHANGED <<clock, nextFire, status, poll, bmc, changes>>

HealthChanges(outcome) ==
    /\ changes < MaxChanges
    /\ outcome # bmc
    /\ bmc' = outcome
    /\ changes' = changes + 1
    /\ ledger' = [ledger EXCEPT !.steadySince = clock]
    /\ UNCHANGED <<clock, spec, pending, nextFire, status, poll>>

\* Time passes unless a handler is due to start or a poll has to end.
Tick ==
    /\ clock < MaxTime
    /\ ~ (Free("timer") /\ clock >= nextFire)
    /\ ~ (Free("change") /\ pending = "yes")
    /\ \A h \in Handlers : poll[h] # Idle => clock < poll[h].at + MaxPoll
    /\ clock' = clock + 1
    /\ UNCHANGED <<spec, pending, nextFire, status, poll, bmc, changes, ledger>>

Init ==
    /\ clock = 0
    /\ spec = 0
    /\ pending = "yes"
    /\ nextFire = 0
    /\ status = Idle.seen
    /\ poll = [h \in Handlers |-> Idle]
    /\ bmc \in Health
    /\ changes = 0
    /\ ledger = [goodAt |-> Never, failedAt |-> Never, streak |-> 0,
                 recorded |-> Never, steadySince |-> 0, overlap |-> "no"]

Next ==
    \/ FireSkips
    \/ FirePolls
    \/ ChangePolls
    \/ \E h \in Handlers : PollSucceeds(h) \/ PollFails(h) \/ PollRaises(h)
    \/ EditSpec
    \/ \E outcome \in Health : HealthChanges(outcome)
    \/ Tick

Spec == Init /\ [][Next]_vars

(***************************************************************************)
(* Properties.                                                             *)
(***************************************************************************)

\* What kubectl shows is one story: Ready exactly when the other conditions
\* hold, no failure is counted and no backoff is running, even when two
\* polls overlap and their patches merge.
ReadyAgrees ==
    status.conditions["Ready"].status # "" =>
        LET ready == status.conditions["Ready"].status = "True"
        IN  /\ ready <=> \A c \in Conditions : status.conditions[c].status = "True"
            /\ ready <=> status.failures = 0
            /\ ready <=> status.nextPollAfter = Never

\* As long as no two polls have overlapped, the timer leaves the BMC alone:
\* after consecutive failures, counted one by one, for the delay that the
\* count calls for, up to the second that the stored deadline loses ("an
\* unreachable BMC is not hammered on every base-cadence timer fire"), and
\* after a successful poll for the interval, up to the tolerance and the
\* second that the stored time loses ("lets an endpoint poll slower than the
\* base cadence", poll_due).
TimerKeepsItsDistance ==
    [][FirePolls /\ ledger.overlap = "no" =>
         /\ ledger.streak > 0 =>
              clock > ledger.failedAt + backoff_seconds(ledger.streak) - TicksPerSecond
         /\ ledger.goodAt # Never =>
              clock > ledger.goodAt + Interval - POLL_DUE_TOLERANCE - TicksPerSecond]_vars

\* As long as no two polls have overlapped, a condition's time moves exactly
\* when its status changes, and then to the poll that found it:
\* "lastTransitionTime changes only when a condition's status changes"
\* (_merge_conditions).
TransitionTimesAreReal ==
    [][ledger.overlap = "no" => \A c \in Conditions :
         LET old == status.conditions[c]
             new == status'.conditions[c]
         IN  IF new.status = old.status THEN new.since = old.since
             ELSE new.since > clock - MaxPoll - TicksPerSecond]_vars

\* How long the status may lag behind: the longest wait that poll_due can
\* impose, one firing of the timer, the poll itself and one it had to wait
\* for.
Lag == Larger(Cap, Interval) + Base + 2 * MaxPoll

\* Once the BMC has answered and the spec has rested for that long, the
\* status is Ready and shows this BMC: no backoff, skipped firing, raised
\* exception or late patch of an older poll keeps an endpoint out for good.
RecoversInTime ==
    bmc \in Successes /\ clock > ledger.steadySince + Lag =>
        /\ status.conditions["Ready"].status = "True"
        /\ status.readings = spec

\* A poll of an older spec never overwrites the result of a newer one: "the
\* last committed spec wins" (tests/k8s/test_k8s_controller_concurrency.py).
LatestSpecWins == [][ledger'.recorded >= ledger.recorded]_vars

=============================================================================
