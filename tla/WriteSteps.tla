------------------------------ MODULE WriteSteps ------------------------------
(***************************************************************************)
(* The vocabulary of the commands that write to the BMC themselves, with   *)
(* base_patch, base_post and base_delete, instead of going through         *)
(* invoke_action.                                                          *)
(*                                                                         *)
(* The execute() of such a command is a program: a sequence of steps,      *)
(* written here as a function of the options given on the command line.    *)
(* A step may end the command, send a request, or run another command.     *)
(* What a program reads and validates is abstracted to the ways in which   *)
(* that may end it.                                                        *)
(***************************************************************************)
EXTENDS Integers, Sequences, Transport

Nothing == "nothing"

\* do      the kind of the step
\* what    the request that it sends
\* when    the endings, the answers, the reader of answers or the manager that
\*         it is about
\* steps   the steps that it contains
\* heed    what a caller makes of a command that failed
\* fault   the fault of a caller, kept while the called command runs
Step(do, what, when, steps, heed) ==
    [do |-> do, what |-> what, when |-> when, steps |-> steps, heed |-> heed,
     fault |-> FALSE]

-----------------------------------------------------------------------------
(* Endings: "raised" is an exception, "failed" a CommandResult with an     *)
(* error, "shown" one without and with nothing sent, "preview" the same    *)
(* for a dry run.                                                          *)

\* Reads and checks, of which each may end the command in one of these ways.
Might(endings) == Step("might", Nothing, endings, <<>>, Nothing)

\* The command ends here.
Ends(ending) == <<Step("end", Nothing, {ending}, <<>>, Nothing)>>

\* The return statements that hand an error on as soon as it is seen.
ReturnIfError == Step("return_if_error", Nothing, {}, <<>>, Nothing)

-----------------------------------------------------------------------------
(* Requests, and what a command makes of the reply.                        *)

\* EventService subscriptions are sent without a manager, and every exception
\* is caught.
_subscription_mutation(r) == IF Success(r.status) THEN "ok" ELSE "error"

\* The upload of a firmware image is as well: read_api_respond is a method of
\* IDracManager only, every exception is an error, and a status for which it
\* returns Error instead of throwing passes for a success.  The id of the job
\* and api_success_msg are read after that, and may throw as above.
_push_result(m, r) ==
    IF m = "RedfishManager" THEN "error"
    ELSE CASE read_api_respond(r) = "raised" -> "error"
           [] read_api_respond(r) = "error" -> "ok"
           [] read_api_respond(r) = "accepted" /\ ~r.location -> "raised"
           [] read_api_respond(r) = "created" -> "raised"
           [] OTHER -> read_api_respond(r)

\* bios-snapshot reads the attributes, and returns an empty restore point but
\* no error where they cannot be read.
_current_attributes(r) == IF Success(r.status) THEN "ok" ELSE "error"

\* What a command makes of a reply.
Answer(by, m, r) ==
    CASE by = "manager" -> base_request_respond(m, r)
      [] by = "read_api_respond" -> read_api_respond(r)
      [] by = "_subscription_mutation" -> _subscription_mutation(r)
      [] by = "_current_attributes" -> _current_attributes(r)
      [] by = "_push_result" -> _push_result(m, r)

Request(what, by, heed) == Step("write", what, {by}, <<>>, heed)

\* The error of the answer becomes the error of the command.
Write(what) == Request(what, "manager", "report")

\* The error of the answer is kept in the data, or dropped.
WriteUnheeded(what) == Request(what, "manager", "ignore")

\* An accepted request is followed through its task, which may throw.
FetchTask == Step("task", Nothing, {"accepted"}, <<>>, Nothing)

WriteAndWatch(what) == <<Write(what), FetchTask>>

-----------------------------------------------------------------------------
(* Control.                                                                *)

\* Steps taken if the last request or the last command called came to this.
After(answers, steps) == Step("after", Nothing, answers, steps, Nothing)

\* Steps taken or not, as the BMC has it.
Maybe(steps) == Step("maybe", Nothing, {}, steps, Nothing)

\* Steps taken if the option was given.
If(option, options, steps) == IF option \in options THEN steps ELSE <<>>
Unless(option, options, steps) == IF option \in options THEN <<>> ELSE steps

\* Another command runs.  Its error becomes that of the caller ("report") or
\* is dropped ("ignore"); its exception leaves the caller, or is turned into
\* an error where it is of a kind that the caller names ("catch").
Run(steps, heed) == Step("call", Nothing, {}, steps, heed)

\* IDracManager.reboot reads the power state first, and leaves a host alone
\* that is off; RedfishManager.reboot does not.
IDracManager_reboot == <<Might({"raised", "failed", "shown"}), Write("reboot")>>
RedfishManager_reboot == <<Write("reboot")>>
reboot(m) ==
    IF m = "IDracManager" THEN IDracManager_reboot ELSE RedfishManager_reboot

\* self.reboot(), and steps taken with one manager only.
Reboot(heed) == Step("reboot", Nothing, {}, <<>>, heed)
By(m, steps) == Step("by", Nothing, {m}, steps, Nothing)

\* A confirmation that the parser declares: without it, a preview.
Confirmed(options) == Unless("confirm", options, Ends("preview"))
\* Faulty variant: --dry_run gives way to --confirm.
ConfirmedOnly(options) == Unless("confirm", options, Ends("preview"))
ConfirmedAndNotDry(options) ==
    IF "dry" \in options \/ "confirm" \notin options THEN Ends("preview") ELSE <<>>
=============================================================================
