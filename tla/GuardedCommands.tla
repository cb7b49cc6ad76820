--------------------------- MODULE GuardedCommands --------------------------
(***************************************************************************)
(* One run of a command that ends in RedfishManager.invoke_action.         *)
(*                                                                         *)
(* The command discovers the resources it may act on, decides on a call    *)
(* (the modules extended here) and makes it.  invoke_action reads the      *)
(* resource again, resolves the target of the action, validates the        *)
(* payload, asks the policy whether the call may go out, and POSTs.        *)
(* Between the two reads the BMC may change, and every read may fail.      *)
(***************************************************************************)
EXTENDS Sequences, Transport, ActionPolicy, RaidActions, LifecycleActions,
        CardActions, StandardActions, ResourceActions

VARIABLES
    cmd,      \* the command
    args,     \* its arguments
    pc,       \* "start", "read", "gate", "post", "follow" or "done"
    call,     \* the arguments of invoke_action
    rivals,   \* resources that offered the action and fit the selection
    missed,   \* some read of the discovery failed
    full,     \* the type of the action invoke_action resolved
    posts,    \* the POSTs that went out: type, payload masked, whether the BMC took
              \* it and whether its reply names what became of it
    result    \* what the user is told

vars == <<manager, cmd, args, pc, call, rivals, missed, full, posts, result>>

\* The registered commands, with the arguments their parsers admit.
Commands ==
    RaidCommands \cup LifecycleCommands \cup CardCommands \cup StandardCommands
    \cup ResourceCommands
ArgsOf == [c \in Commands |->
    CASE c \in RaidCommands -> RaidArgs(c)
      [] c \in LifecycleCommands -> LifecycleArgs(c)
      [] c \in CardCommands -> CardArgs(c)
      [] c \in StandardCommands -> StandardArgs(c)
      [] c \in ResourceCommands -> ResourceArgs(c)]

\* The guarded commands that are registered with a vendor's manager.
HpeAndSmcActions ==
    {"HpeChassisActions", "HpeKerberosKeytabImport", "HpeTestActions", "NvidiaDebugToken",
     "SmcNodeManagerClearPolicies", "WorkloadPower", "PowerSmoothingAction"}
SharedActions ==
    {"BiosResetDefault", "CertificateGenerateCSR", "ControlResetDefaults", "EventSubmitTest",
     "LicenseInstall", "LogClear", "LogCollectDiagnosticData", "NetworkAdapterReset",
     "RebootHost", "SecureBootResetKeys", "SpdmMeasurements", "SystemReset",
     "TelemetryClearReports", "TelemetryResetMetricDefinitions", "TelemetrySubmitTest"}
DellActions == Commands \ (HpeAndSmcActions \cup SharedActions)
ManagersOf(c) ==
    (IF c \in HpeAndSmcActions THEN {} ELSE {"IDracManager"})
    \cup (IF c \in DellActions THEN {} ELSE {"RedfishManager"})

\* What the discovery of a command returns.
RowsOf(c, a, site, lost) ==
    CASE c \in RaidCommands -> RaidRows(c, a, site, lost)
      [] c \in LifecycleCommands -> LifecycleRows(c, a, site, lost)
      [] c \in CardCommands -> CardRows(c, a, site, lost)
      [] c \in StandardCommands -> StandardRows(c, a, site, lost)
      [] c \in ResourceCommands -> ResourceRows(c, a, site, lost)

\* What execute() comes to.
OutcomeOf(c, a, seen) ==
    CASE c \in RaidCommands -> RaidOutcome(c, a, seen)
      [] c \in LifecycleCommands -> LifecycleOutcome(c, a, seen)
      [] c \in CardCommands -> CardOutcome(c, a, seen)
      [] c \in StandardCommands -> StandardOutcome(c, a, seen)
      [] c \in ResourceCommands -> ResourceOutcome(c, a, seen)

-----------------------------------------------------------------------------
\* The actions that a command knows of.
ActionsOf(c) == {a.op : a \in ArgsOf[c]} \ {None, Unknown}

\* A resource may offer none of them, the one selected, the others, or all.
SitesOf(c, a) ==
    [Services -> {{}, ActionsOf(c), ActionsOf(c) \ {a.op}, ActionsOf(c) \cap {a.op}}]

\* An action of another type whose name after the dot is the same.
Homonym == "#Oem.Homonym"

Init ==
    /\ cmd \in Commands
    /\ args \in ArgsOf[cmd]
    /\ manager \in ManagersOf(cmd)
    /\ pc = "start"
    /\ call = NoCall
    /\ rivals = {}
    /\ missed = FALSE
    /\ full = None
    /\ posts = <<>>
    /\ result = None

Finish(outcome) == pc' = "done" /\ result' = outcome

\* execute() up to invoke_action.
Execute ==
    /\ pc = "start"
    /\ \E site \in SitesOf(cmd, args), lost \in SUBSET (Services \cup {Root}) :
          LET outcome == OutcomeOf(cmd, args, RowsOf(cmd, args, site, lost)) IN
          /\ call' = outcome.call
          /\ rivals' = {s \in Services : args.op \in site[s] /\ args.pick \in {None, s}}
          /\ missed' = (lost # {})
          /\ IF outcome.kind = "call"
             THEN pc' = "read" /\ UNCHANGED result
             ELSE Finish(outcome.kind)
    /\ UNCHANGED <<manager, cmd, args, full, posts>>

\* invoke_action reads the resource and looks for the exact type of the action,
\* then for the short name.
ResolveTarget ==
    /\ pc = "read"
    /\ \/ \E type \in {call.op, Homonym} : full' = type /\ pc' = "gate" /\ UNCHANGED result
       \/ Finish("failed") /\ UNCHANGED full
    /\ UNCHANGED <<manager, cmd, args, call, rivals, missed, posts>>

RejectPayload ==
    /\ pc = "gate"
    /\ Finish("failed")
    /\ UNCHANGED <<manager, cmd, args, call, rivals, missed, full, posts>>

\* Faulty variant: --confirm is enough for an irreversible action.
BlockedByOneWord(type) ==
    classify(type) \in {"irreversible", "destructive"} /\ ~call.confirm

\* The fail-safe gate; a probe is a call that is always dry.
Blocked(type) ==
    \/ classify(type) = "irreversible" /\ ~(call.confirm /\ call.token)
    \/ classify(type) = "destructive" /\ ~call.confirm

\* Faulty variant: only --dry_run makes a preview.
DryAsAsked(type) == call.dry \/ call.probe

effective_dry(type) == call.dry \/ call.probe \/ Blocked(type)

LetThrough ==
    /\ pc = "gate"
    /\ ~effective_dry(full)
    /\ pc' = "post"
    /\ UNCHANGED <<manager, cmd, args, call, rivals, missed, full, posts, result>>

Preview ==
    /\ pc = "gate"
    /\ effective_dry(full)
    /\ ~call.probe \/ call.dry
    /\ Finish("preview")
    /\ UNCHANGED <<manager, cmd, args, call, rivals, missed, full, posts>>

\* DellRaidCheckValues goes on from its preview: through invoke_action again
\* on the asynchronous path, and else straight to the target of the preview,
\* which it refuses if the preview does not call it read-only.
FollowPreview ==
    /\ pc = "gate"
    /\ call.probe /\ ~call.dry
    /\ IF args.async
       THEN pc' = "read" /\ call' = [call EXCEPT !.probe = FALSE] /\ UNCHANGED result
       ELSE IF classify(full) # "read_only"
       THEN Finish("failed") /\ UNCHANGED call
       ELSE pc' = "post" /\ UNCHANGED <<call, result>>
    /\ UNCHANGED <<manager, cmd, args, rivals, missed, full, posts>>

\* DellRaidCheckValues reads the reply to its own POST: it turns the exceptions
\* of read_api_respond into an error, and not that of a job without an id.
_invoke_sync(r) ==
    IF r.status # 0 /\ read_api_respond(r) = "raised" THEN "error" ELSE IDracManager_respond(r)

\* What the command learns: an accepted action, an error, or an exception.
Heard(r) ==
    IF cmd = "DellRaidCheckValues" /\ ~args.async
    THEN _invoke_sync(r)
    ELSE base_request_respond(manager, r)

Record(r) ==
    posts' = Append(posts,
        [type |-> full, masked |-> call.masked, taken |-> Success(r.status),
         named |-> r.status \in {201, 202} => r.location \/ r.job])

\* Faulty variant: an error that base_post returns is not looked at.
PostUnchecked ==
    /\ pc = "post"
    /\ \E r \in Replies : Record(r) /\ Finish(IF Heard(r) = "raised" THEN "raised" ELSE "executed")
    /\ UNCHANGED <<manager, cmd, args, call, rivals, missed, full>>

\* base_post, whose error is returned and whose exception is not caught.
Post ==
    /\ pc = "post"
    /\ \E r \in Replies :
          /\ Record(r)
          /\ CASE Heard(r) = "raised" -> Finish("raised")
               [] Heard(r) = "error" -> Finish("failed")
               [] OTHER -> IF cmd = "RebootHost"
                           THEN pc' = "follow" /\ UNCHANGED result
                           ELSE Finish("executed")
    /\ UNCHANGED <<manager, cmd, args, call, rivals, missed, full>>

\* The reboot command fetches the task, which may throw, and waits if asked
\* to, which may end in an error.
FollowReboot ==
    /\ pc = "follow"
    /\ \E outcome \in {"executed", "failed", "raised"} : Finish(outcome)
    /\ UNCHANGED <<manager, cmd, args, call, rivals, missed, full, posts>>

Next ==
    \/ Execute
    \/ ResolveTarget
    \/ RejectPayload
    \/ LetThrough
    \/ Preview
    \/ FollowPreview
    \/ Post
    \/ FollowReboot
-----------------------------------------------------------------------------
(* Properties.                                                             *)

TypeOK ==
    /\ cmd \in Commands /\ args \in ArgsOf[cmd]
    /\ pc \in {"start", "read", "gate", "post", "follow", "done"}
    /\ call.svc \in Services \cup {None}
    /\ rivals \subseteq Services /\ missed \in BOOLEAN
    /\ full \in ActionsOf(cmd) \cup {None, Homonym}
    /\ result \in {None, "shown", "preview", "executed", "failed", "raised"}

\* What the user has to say before an action of a level goes out.
Authorized(type) ==
    /\ ~args.dry
    /\ classify(type) \in {"destructive", "irreversible"} =>
          args.confirm \/ cmd = "RebootHost"
    /\ classify(type) = "irreversible" => args.token

\* Nothing goes out on a dry run, nothing destructive without --confirm on the
\* command line (the reboot command excepted, which is a confirmation itself)
\* and nothing irreversible without the second token.  The level is that of the
\* action POSTed, which is not the one asked for when invoke_action falls back
\* to the short name; several commands pass confirm=True themselves and rely
\* on their preview flag instead.
PostsAreAuthorized == \A i \in DOMAIN posts : Authorized(posts[i].type)

\* DellMetricActions replaces the share password in the payload whenever it
\* expects a preview.  A payload masked that way never goes out: where the
\* command expects a preview, the gate of invoke_action makes one.
NoMaskedPayloadIsSent == \A i \in DOMAIN posts : ~posts[i].masked

HasOption(name) == \E a \in ArgsOf[cmd] : a[name]

\* A run with every confirmation that its command can take, and no --dry_run,
\* does not end as a preview without an error, unless the BMC offered another
\* action of that name: each command has the options that the policy asks for
\* its actions, and hands them on.
ConfirmedRunIsNoPreview ==
    result = "preview" /\ full = call.op =>
       \/ args.dry
       \/ HasOption("confirm") /\ ~args.confirm
       \/ HasOption("token") /\ ~args.token

\* The user is told that an action was executed only when the BMC took its POST.
\* An action that the BMC took is not told as such in two cases: the task or the
\* wait of a reboot fails afterwards; or IDracManager throws, because the reply
\* (202, or 201) names neither a job nor a Location.  A listing or a preview has
\* sent nothing; and the preview that DellRaidCheckValues makes first and its
\* second call never add up to two POSTs.
ReportIsTrue ==
    LET Taken == {i \in DOMAIN posts : posts[i].taken} IN
    /\ result = "executed" => Taken # {}
    /\ pc = "done" /\ Taken # {} =>
          \/ result = "executed"
          \/ cmd = "RebootHost"
          \/ /\ result = "raised" /\ manager = "IDracManager"
             /\ \A i \in Taken : ~posts[i].named
    /\ result \in {"shown", "preview"} => posts = <<>>
    /\ Len(posts) <= 1

\* The commands whose execute() refuses a selection that fits several resources.
Discerning ==
    {"DellRaidBlink", "DellRaidCancelActions", "DellLcIsmInstaller",
     "DellLcOsHealthUpdate", "DellLcSupportAssistStatus",
     "DellCardCertExport", "DellCardCsr", "DellCardGroupActions",
     "DellCardHwProof", "DellCardKeyManagement", "DellCardSekmTest",
     "DellCardTestActions", "HpeChassisActions", "HpeTestActions",
     "NvidiaDebugToken", "SmcNodeManagerClearPolicies",
     "DellMetricActions", "DellSwitchPortRefresh", "NetworkAdapterReset",
     "SecureBootResetKeys", "LogClear", "LogCollectDiagnosticData",
     "ControlResetDefaults", "SpdmMeasurements", "DellBiosDeviceRecovery",
     "DellSoftwareUpdateSchedule"}

\* A POST goes to the resource the user named, and a command that refuses
\* ambiguous selections sends nothing when several resources fit, provided that
\* no read of its discovery failed: a resource whose read is skipped is no
\* candidate.
PostsWhereAsked ==
    posts # <<>> =>
       /\ args.pick \in {None, call.svc}
       /\ cmd \in Discerning /\ ~missed => Cardinality(rivals) <= 1
=============================================================================
