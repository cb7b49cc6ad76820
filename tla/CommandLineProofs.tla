-------------------------- MODULE CommandLineProofs ---------------------------
(***************************************************************************)
(* What one run of redfish_ctl keeps of the invariants of its parts: the   *)
(* commands that end in invoke_action (GuardedProofs), those that write    *)
(* themselves (DirectWriteProofs), and wait, for any resources, any        *)
(* timeout, interval and length of a probe, and however often the BMC      *)
(* turns up and down.                                                      *)
(***************************************************************************)
EXTENDS CommandLine, GuardedProofs, DirectWriteProofs

-----------------------------------------------------------------------------
(* wait reports the truth in time. *)

\* What is known of the times of the BMC.
Dated ==
    /\ lastUp \in Int /\ lastDown \in Int /\ firstDown \in Int
    /\ lastUp <= clock /\ lastDown <= clock
    /\ firstDown = Never \/ (0 <= firstDown /\ firstDown <= clock)
    /\ lastDown >= 0 => firstDown # Never

\* The latest time at which a probe begins: after a sleep, which begins before
\* the deadline, or in the second loop right after a probe of the first one.
LatestProbe == Timeout + Interval + (IF cycle /\ loop = "up" THEN MaxProbe ELSE 0)

\* The inductive invariant.
WaitInv ==
    /\ doing \in {"probe", "sleep", "over", "unused"}
    /\ loop \in {"down", "up"}
    /\ clock \in Nat /\ begun \in Nat
    /\ begun <= clock
    /\ loop = "down" => cycle
    /\ Dated
    /\ wentDown => firstDown # Never /\ firstDown <= begun
    /\ doing = "unused" => clock = 0
    /\ doing = "probe" => clock <= begun + MaxProbe /\ begun <= LatestProbe
    /\ doing = "sleep" => clock <= begun + Interval /\ begun < Timeout
    /\ WaitReportIsTrue

\* The wait begins with a probe, or is not used.
LEMMA WaitInvInit == WaitInit \/ NoWait => WaitInv
<1> USE WaitAssumption DEF WaitInv, Dated, LatestProbe, WaitReportIsTrue, Never
<1>1. CASE WaitInit
  BY <1>1 DEF WaitInit
<1>2. CASE NoWait
  BY <1>2 DEF NoWait
<1>3. QED  BY <1>1, <1>2

\* Every probe and every sleep of wait_for keeps the dates of what it saw.
LEMMA WaitInvStep == WaitInv /\ [WaitNext]_waitVars => WaitInv'
<1> SUFFICES ASSUME WaitInv, [WaitNext]_waitVars PROVE WaitInv'
  OBVIOUS
<1> USE WaitAssumption DEF WaitInv, Dated, LatestProbe, WaitReportIsTrue, Never
<1>1. CASE BmcTurns
  BY <1>1 DEF BmcTurns, Observe
<1>2. CASE ClockTicks
  BY <1>2, SMTT(60) DEF ClockTicks, Observe
<1>3. CASE ProbeEnds
  <2>1. PICK yes \in BOOLEAN :
           /\ ProbeSays(yes)
           /\ IF loop = "down"
              THEN /\ wentDown' = ~yes
                   /\ loop' = IF ~yes \/ clock >= Timeout THEN "up" ELSE "down"
                   /\ doing' = IF loop' = "up" THEN "probe" ELSE "sleep"
                   /\ UNCHANGED reachable
              ELSE /\ reachable' = yes
                   /\ doing' = IF yes \/ clock >= Timeout THEN "over" ELSE "sleep"
                   /\ UNCHANGED <<loop, wentDown>>
    BY <1>3 DEF ProbeEnds
  <2>2. /\ doing = "probe" /\ begun' = clock
        /\ UNCHANGED <<cycle, clock, lastUp, lastDown, firstDown>>
    BY <1>3, SMTT(60) DEF ProbeEnds, bmcVars
  <2>3. CASE loop = "down"
    <3>1. /\ cycle /\ cycle' = cycle /\ reachable' = reachable
          /\ begun' <= begun + MaxProbe /\ begun' <= Timeout + Interval + MaxProbe
      BY <2>1, <2>2, <2>3, SMTT(60)
    <3>2. CASE yes
      <4>1. ~wentDown'
        BY <2>1, <2>3, <3>2, ZenonT(60)
      <4>2. CASE clock >= Timeout
        BY <2>1, <2>2, <2>3, <3>1, <3>2, <4>1, <4>2
      <4>3. CASE ~(clock >= Timeout)
        BY <2>1, <2>2, <2>3, <3>1, <3>2, <4>1, <4>3
      <4>4. QED  BY <4>2, <4>3
    <3>3. CASE ~yes
      BY <2>1, <2>2, <2>3, <3>1, <3>3 DEF ProbeSays
    <3>4. QED  BY <3>2, <3>3
  <2>4. CASE loop = "up"
    BY <2>1, <2>2, <2>4 DEF ProbeSays
  <2>5. QED  BY <2>3, <2>4
<1>4. CASE SleepEnds
  BY <1>4 DEF SleepEnds, bmcVars
<1>5. CASE UNCHANGED waitVars
  BY <1>5 DEF waitVars, bmcVars
<1>6. QED  BY <1>1, <1>2, <1>3, <1>4, <1>5, Zenon DEF WaitNext

-----------------------------------------------------------------------------
(* The process. *)

\* A step of the process is a step of the command, or leaves it alone.
LEMMA MainSteps ==
    [MainNext]_mainVars => [Next]_vars /\ [DirectNext]_directVars /\ [WaitNext]_waitVars
  BY ZenonT(60)
     DEF MainNext, mainVars, check_api_version, Command, ReadVendor, Report, Exited

\* A process without a guarded command satisfies their invariants.
LEMMA AtRest == NoGuardedCommand => GuardInv /\ AskInv
<1> SUFFICES ASSUME NoGuardedCommand PROVE GuardInv /\ AskInv
  BY Zenon
<1>1. pc = "idle" /\ posts = <<>> /\ result = None
  BY Zenon DEF NoGuardedCommand
<1>2. DOMAIN posts = {} /\ Len(posts) = 0
  BY <1>1, SMTT(60)
<1>3. PostsAreAuthorized /\ NoMaskedPayloadIsSent /\ ReportIsTrue
  BY <1>1, <1>2, SMTT(60)
     DEF PostsAreAuthorized, NoMaskedPayloadIsSent, ReportIsTrue, None
<1>4. GuardInv
  BY <1>1, <1>3, SMTT(60) DEF GuardInv, Unsent
<1>5. AskInv
  BY <1>1 DEF AskInv, None
<1>6. QED  BY <1>4, <1>5

\* The process starts in the invariants of its parts.
LEMMA PartsInit == MainInit => GuardInv /\ AskInv /\ WriteInv /\ WaitInv
<1>1. NoDirectWrite => WriteInv
  BY DEF NoDirectWrite, WriteInv
<1>2. QED
  BY <1>1, AtRest, GuardInvInit, AskInvInit, WriteInvInit, WaitInvInit, ZenonT(60)
     DEF MainInit, create_cmd_tree

\* And it stays in them.
LEMMA PartsHold == MainSpec => [](GuardInv /\ AskInv /\ WriteInv /\ WaitInv)
<1>1. GuardInv /\ AskInv /\ WriteInv /\ WaitInv /\ [MainNext]_mainVars
         => (GuardInv /\ AskInv /\ WriteInv /\ WaitInv)'
  BY MainSteps, GuardInvStep, AskInvStep, WriteInvStep, WaitInvStep, ZenonT(60)
<1>2. QED
  BY PartsInit, <1>1, PTL DEF MainSpec

\* For any resources: invoke_action sends nothing on a dry run, nothing
\* destructive without --confirm and nothing irreversible without the second
\* token, whichever command calls it and whatever the BMC offers on the second
\* read.
THEOREM AuthorizedPosts == MainSpec => []PostsAreAuthorized
<1>1. GuardInv => PostsAreAuthorized
  BY Zenon DEF GuardInv
<1>2. QED
  BY PartsHold, <1>1, PTL

\* For any resources: the payload that DellMetricActions masks for a preview is
\* never POSTed.
THEOREM MaskedPayloadsStay == MainSpec => []NoMaskedPayloadIsSent
<1>1. GuardInv => NoMaskedPayloadIsSent
  BY Zenon DEF GuardInv
<1>2. QED
  BY PartsHold, <1>1, PTL

\* For any resources: a command reports an executed action only if the BMC took
\* the POST; it reports every such action, but for a reboot whose task or wait
\* fails and for a reply that names no job, at which IDracManager throws; and it
\* makes one POST at most.
THEOREM ReportsAreTrue == MainSpec => []ReportIsTrue
<1>1. GuardInv => ReportIsTrue
  BY Zenon DEF GuardInv
<1>2. QED
  BY PartsHold, <1>1, PTL

\* For any resources: a command that ends as a preview, where the BMC offers the
\* action that was asked for, was asked for a preview or lacks a confirmation
\* that it has an option for.
THEOREM PreviewsAreExcused == MainSpec => []ConfirmedRunIsNoPreview
  BY PartsHold, AskInvImplies, PTL

\* For any resources: a POST goes to the resource that was named, and a command
\* that refuses ambiguous selections makes none when several resources fit and
\* all of them could be read.
THEOREM PostsGoWhereAsked == MainSpec => []PostsWhereAsked
  BY PartsHold, AskInvImplies, PTL

\* For any order of the answers and any path through a command: what writes to
\* the BMC has the --confirm that its parser declares, and no command writes on a
\* dry run or when asked to show something only.
THEOREM WritesStayConfirmed == MainSpec => []WritesAreConfirmed
  BY PartsHold, WriteInvImplies, PTL

\* For any order of the answers and any path through a command: where neither
\* --reboot nor --commit_pending was given, the host restarts only behind settings
\* that the BMC took and that were to be committed, two calls deep in job_apply;
\* job-apply itself is apart.
THEOREM RestartsFollowTheirSettings == MainSpec => []RestartsAreEarned
  BY PartsHold, WriteInvImplies, PTL

\* For any order of the answers and any path through a command: a command that
\* ends without an error has had no request refused, its own or one of a command
\* that it runs, but for those of Dropped, whose refusal the code loses.
THEOREM RefusalsAreReported == MainSpec => []RefusalIsReported
  BY PartsHold, WriteInvImplies, PTL

\* For any order of the answers and any path through a command: a medium is not
\* inserted after a refused eject, nor mounted after a refused configuration, a
\* boot override is not set after a refused power-on, and jobs are applied only
\* for settings that were staged, unless the user asked for the pending ones.
THEOREM RefusalsAreHeeded == MainSpec => []NothingOnTopOfARefusal
  BY PartsHold, WriteInvImplies, PTL

\* For any timeout, interval and length of a probe: what wait reports is true,
\* and it is over a sleep and a probe for each loop after its deadline.
THEOREM WaitsAreTrue == MainSpec => []WaitReportIsTrue
<1>1. WaitInv => WaitReportIsTrue
  BY Zenon DEF WaitInv
<1>2. QED
  BY PartsHold, <1>1, PTL
=============================================================================
