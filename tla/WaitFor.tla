-------------------------------- MODULE WaitFor --------------------------------
(***************************************************************************)
(* The wait command (cmd_wait.py): wait_for polls the ServiceRoot until it *)
(* answers or a deadline passes, after a first loop, with --reboot-cycle,  *)
(* in which it waits for the BMC to go down.  The BMC goes up and down     *)
(* meanwhile, and a probe takes time, so that its answer may be old.       *)
(***************************************************************************)
EXTENDS Integers

CONSTANTS
    Timeout,    \* --timeout, in ticks: the deadline, as the wait begins at 0
    Interval,   \* --interval: the sleep between two probes
    MaxProbe,   \* the longest probe, given the timeouts of its request
    MaxTurns    \* bound: times the BMC goes up or down

ASSUME WaitAssumption == Timeout \in Nat /\ Interval \in Nat /\ MaxProbe \in Nat /\ MaxTurns \in Nat

VARIABLES
    doing,     \* "probe", "sleep", "over", or "unused" when another command runs
    loop,      \* the loop wait_for is in: "down" or "up"
    cycle,     \* --reboot-cycle
    clock,     \* ticks since the wait began
    begun,     \* when the probe or the sleep began
    wentDown,  \* precondition_met
    reachable, \* satisfied
    answers,   \* whether the BMC answers
    turns,     \* how often that has changed
    lastUp,    \* history: when it last was up, and
    lastDown,  \* history: down, up to now
    firstDown  \* history: when it first was down

bmcVars == <<answers, turns, lastUp, lastDown, firstDown>>
waitVars == <<doing, loop, cycle, clock, begun, wentDown, reachable, bmcVars>>

Never == -100

NoWait ==
    /\ doing = "unused" /\ loop = "up" /\ cycle = FALSE
    /\ clock = 0 /\ begun = 0 /\ wentDown = FALSE /\ reachable = FALSE
    /\ answers = TRUE /\ turns = 0 /\ lastUp = 0 /\ lastDown = Never /\ firstDown = Never

\* The BMC may be down, though the handshake found it up a moment ago.
WaitInit ==
    /\ doing = "probe"
    /\ cycle \in BOOLEAN
    /\ loop = IF cycle THEN "down" ELSE "up"
    /\ clock = 0 /\ begun = 0 /\ wentDown = FALSE /\ reachable = FALSE
    /\ answers \in BOOLEAN
    /\ turns = 0
    /\ lastUp = IF answers THEN 0 ELSE Never
    /\ lastDown = IF answers THEN Never ELSE 0
    /\ firstDown = lastDown

\* The BMC is up, or down, at a time.
Observe(is, t) ==
    /\ answers' = is
    /\ lastUp' = IF is THEN t ELSE lastUp
    /\ lastDown' = IF is THEN lastDown ELSE t
    /\ firstDown' = IF ~is /\ firstDown = Never THEN t ELSE firstDown

\* The BMC goes down or comes back; time passes.
BmcTurns ==
    /\ doing \in {"probe", "sleep"}
    /\ turns < MaxTurns
    /\ turns' = turns + 1
    /\ Observe(~answers, clock)
    /\ UNCHANGED <<doing, loop, cycle, clock, begun, wentDown, reachable>>

ClockTicks ==
    /\ \/ doing = "probe" /\ clock < begun + MaxProbe
       \/ doing = "sleep" /\ clock < begun + Interval
    /\ clock' = clock + 1
    /\ Observe(answers, clock + 1)
    /\ UNCHANGED <<doing, loop, cycle, begun, wentDown, reachable, turns>>

\* probe_reachable: any answer is a yes, and only a BMC that was up at some time
\* of the probe can give one; a refused connection or a timeout is a no.
ProbeSays(yes) == IF yes THEN lastUp >= begun ELSE lastDown >= begun

(***************************************************************************)
(* Faulty variant of the definition below.                                 *)
(***************************************************************************)

\* Faulty variant: the deadline is looked at before the probe, not after it.
DeadlineFirst ==
    /\ doing = "probe"
    /\ begun' = clock
    /\ \/ clock >= Timeout /\ doing' = "over" /\ UNCHANGED <<loop, wentDown, reachable>>
       \/ /\ clock < Timeout
          /\ \E yes \in BOOLEAN :
             /\ ProbeSays(yes)
             /\ IF loop = "down"
                THEN /\ loop' = (IF yes THEN loop ELSE "up")
                     /\ wentDown' = ~yes
                     /\ doing' = (IF yes THEN "sleep" ELSE "probe")
                     /\ UNCHANGED reachable
                ELSE /\ reachable' = yes
                     /\ doing' = (IF yes THEN "over" ELSE "sleep")
                     /\ UNCHANGED <<loop, wentDown>>
    /\ UNCHANGED <<cycle, clock, bmcVars>>

\* The probe ends, and the deadline is looked at.  The first loop ends with the
\* BMC down, or past the deadline; the second one, which probes at least once,
\* with the BMC up, or past the deadline.
ProbeEnds ==
    /\ doing = "probe"
    /\ begun' = clock
    /\ \E yes \in BOOLEAN :
          /\ ProbeSays(yes)
          /\ IF loop = "down"
             THEN /\ wentDown' = ~yes
                  /\ loop' = IF ~yes \/ clock >= Timeout THEN "up" ELSE "down"
                  /\ doing' = IF loop' = "up" THEN "probe" ELSE "sleep"
                  /\ UNCHANGED reachable
             ELSE /\ reachable' = yes
                  /\ doing' = IF yes \/ clock >= Timeout THEN "over" ELSE "sleep"
                  /\ UNCHANGED <<loop, wentDown>>
    /\ UNCHANGED <<cycle, clock, bmcVars>>

SleepEnds ==
    /\ doing = "sleep"
    /\ clock = begun + Interval
    /\ doing' = "probe"
    /\ begun' = clock
    /\ UNCHANGED <<loop, cycle, clock, wentDown, reachable, bmcVars>>

WaitNext ==
    \/ BmcTurns
    \/ ClockTicks
    \/ ProbeEnds
    \/ SleepEnds

(***************************************************************************)
(* Properties.                                                             *)
(***************************************************************************)

\* What wait reports is true, however the BMC turns up and down between and
\* during the probes.  Reachable: it was up within the last probe, and with
\* went_down after it had been down.  Not reachable: it was down within a
\* probe that ended at the deadline or later; a BMC that comes back while
\* wait_for sleeps across the deadline is still found.  And the wait outlasts
\* its timeout by no more than a sleep and a probe for each loop.
WaitReportIsTrue ==
    /\ clock <= Timeout + Interval + (IF cycle THEN MaxProbe + MaxProbe ELSE MaxProbe)
    /\ doing = "over" =>
          IF reachable
          THEN /\ lastUp >= clock - MaxProbe
               /\ wentDown => firstDown # Never /\ firstDown <= lastUp
          ELSE clock >= Timeout /\ lastDown >= clock - MaxProbe
=============================================================================
