----------------------------- MODULE CommandLine ------------------------------
(***************************************************************************)
(* One run of redfish_ctl: the handshake with the BMC, the command, and    *)
(* what the process reports of it.                                         *)
(*                                                                         *)
(* The command is one of GuardedCommands, one of DirectWrites or wait; the *)
(* variables of the other machines stay idle.                              *)
(***************************************************************************)
EXTENDS GuardedCommands, DirectWrites, WaitFor

VARIABLES
    stage,   \* "handshake", "command", "report" or "exited"
    vendor,  \* what the ServiceRoot of the BMC calls its vendor
    exit     \* the exit status of the process

mainVars == <<vars, directVars, waitVars, stage, vendor, exit>>

\* The machines at rest.
NoGuardedCommand ==
    /\ cmd = None /\ args = None /\ pc = "idle" /\ call = NoCall /\ rivals = {}
    /\ missed = FALSE /\ full = None /\ posts = <<>> /\ result = None
NoDirectWrite ==
    /\ command = Nothing /\ options = {} /\ todo = <<>> /\ answer = Nothing
    /\ fault = FALSE /\ taken = {} /\ refused = {} /\ outcome = "idle"

\* --vendor selects the manager, whose registry has the shared commands, wait
\* among them, and its own ones.
create_cmd_tree ==
    \/ Init /\ NoDirectWrite /\ NoWait
    \/ DirectInit /\ NoGuardedCommand /\ NoWait
    \/ WaitInit /\ NoGuardedCommand /\ NoDirectWrite /\ manager \in Managers

MainInit ==
    /\ create_cmd_tree
    /\ stage = "handshake"
    /\ vendor = None
    /\ exit = None

Exit(status) == stage' = "exited" /\ exit' = status

\* An exception is printed by one of the except clauses of _run and of
\* redfish_main_ctl, and the process ends normally; or no clause names it.
Throw == \E status \in {0, 1} : Exit(status)

\* check_api_version
check_api_version ==
    /\ stage = "handshake"
    /\ \/ stage' = "command" /\ UNCHANGED exit
       \/ Throw
    /\ UNCHANGED <<vars, directVars, waitVars, vendor>>

Command ==
    /\ stage = "command"
    /\ \/ Next /\ UNCHANGED <<directVars, waitVars>>
       \/ DirectNext /\ UNCHANGED <<vars, waitVars>>
       \/ WaitNext /\ UNCHANGED <<vars, directVars>>
    /\ UNCHANGED <<stage, vendor, exit>>

Returned == outcome \notin {Nothing, "idle"} \/ pc = "done" \/ doing = "over"

\* What the command came to, in its machine.
CameTo ==
    IF pc = "done" THEN result
    ELSE IF doing = "over" THEN IF reachable THEN "executed" ELSE "failed"
    ELSE outcome

\* The command has thrown; or the vendor is read from the ServiceRoot.
ReadVendor ==
    /\ stage = "command" /\ Returned
    /\ IF CameTo = "raised" THEN Throw /\ UNCHANGED vendor
       ELSE \/ stage' = "report" /\ vendor' \in {"Dell", "another"} /\ UNCHANGED exit
            \/ Throw /\ UNCHANGED vendor
    /\ UNCHANGED <<vars, directVars, waitVars>>

\* The result of a Dell gets the version of the iDRAC if its data is a dict: an
\* attribute of IDracManager which is read from the BMC, and missing in the other
\* manager.  Then the result is printed, and an error ends the process the same
\* way as a success.
Report ==
    /\ stage = "report"
    /\ \/ vendor = "Dell" /\ manager = "IDracManager" /\ Throw
       \/ vendor = "Dell" /\ manager = "RedfishManager" /\ Exit(1)
       \/ Exit(0)
    /\ UNCHANGED <<vars, directVars, waitVars, vendor>>

Exited == stage = "exited" /\ UNCHANGED mainVars

MainNext ==
    \/ check_api_version
    \/ Command
    \/ ReadVendor
    \/ Report
    \/ Exited

MainSpec == MainInit /\ [][MainNext]_mainVars
-----------------------------------------------------------------------------
(* Properties.                                                             *)

\* Statement of a test: a command that returns an error makes the process end
\* with a status other than 0.  The error is reported, and the process ends with
\* 0, as after a success.
ErrorExitsNonZero ==
    stage = "exited" /\ vendor # None /\ CameTo = "failed" => exit # 0
=============================================================================
