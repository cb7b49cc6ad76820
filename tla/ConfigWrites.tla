----------------------------- MODULE ConfigWrites -----------------------------
(***************************************************************************)
(* The commands that write configuration themselves: the job queue, BIOS   *)
(* settings and profiles, boot order and boot sources, attributes,         *)
(* accounts and system configurations.  For each command: the options that *)
(* its parser declares (_options) and its execute() (_execute).            *)
(***************************************************************************)
EXTENDS WriteSteps

-----------------------------------------------------------------------------
(* jobs/                                                                   *)

\* A restart for each scheduled job (two of them, at most), until one fails.
JobApply_options == {"async", "reboot"}
JobApply_execute(options) ==
    LET restart == Reboot("ignore")
        watch == Might({"raised"})
        next == After({"ok"},
                      Unless("async", options,
                             <<watch, Maybe(<<restart, After({"ok"}, <<watch>>)>>)>>))
    IN <<Might({"raised", "failed"}), Maybe(<<restart, next>>)>> \o WriteAndWatch("commit")

JobDel_options == {}
JobDel_execute(options) == WriteAndWatch("delete")

JobRmDellServices_options == {}
JobRmDellServices_execute(options) == <<Might({"raised"})>> \o WriteAndWatch("post")

JobWatch_options == {}
JobWatch_execute(options) == <<Might({"raised"})>> \o Ends("shown")

GetTask_options == {}
GetTask_execute(options) == <<Might({"raised"})>> \o Ends("shown")

\* sync_invoke of job_apply, which no other manager knows.
InvokeJobApply(heed) ==
    <<By("IDracManager", <<Run(JobApply_execute({}), heed)>>),
      By("RedfishManager", Ends("raised"))>>

\* Faulty variant: the jobs are applied whatever the answer to the write.
CommitAnyway(options) ==
    If("commit", options, InvokeJobApply("report") \o <<ReturnIfError>>)

\* The last part of a command that stages settings: the jobs are applied if
\* the write was carried out at once, and the host restarts if asked to,
\* whatever came of the write.
Commit(options) ==
    If("commit", options, <<After({"ok"}, InvokeJobApply("report") \o <<ReturnIfError>>)>>)

-----------------------------------------------------------------------------
(* bios/                                                                   *)

\* On a Dell, pending changes are in the way: they are applied first, or the
\* command gives up.
BiosChangeSettings_options == {"show", "commit", "commit_pending", "reboot"}
BiosChangeSettings_execute(options) ==
    <<Might({"raised", "shown"})>>
    \o If("show", options, Ends("shown"))
    \o <<By("IDracManager",
            <<Might({"raised"}),
              Maybe(IF "commit_pending" \in options THEN InvokeJobApply("ignore")
                    ELSE Ends("raised"))>>)>>
    \o WriteAndWatch("patch")
    \o Commit(options)
    \o If("reboot", options, <<Reboot("ignore")>>)

ChangeBootOrder_options == {"commit", "commit_pending", "reboot"}
ChangeBootOrder_execute(options) ==
    <<Might({"raised", "failed"})>>
    \o If("commit_pending", options, InvokeJobApply("ignore"))
    \o WriteAndWatch("patch")
    \o Commit(options)
    \o If("reboot", options, <<Reboot("ignore")>>)

BiosClearPending_options == {}
BiosClearPending_execute(options) == <<Might({"raised", "failed"})>> \o WriteAndWatch("post")

\* bios-snapshot, as called from a profile.
BiosSnapshot_execute == <<Request("snapshot", "_current_attributes", "ignore")>>

\* `bios-profile apply`: a restore point, then bios-change, which only shows
\* the payload unless the run is confirmed.
_apply_profile(options) ==
    LET preview == "dry" \in options \/ "confirm" \notin options IN
    <<Might({"failed"}),
      Run(BiosSnapshot_execute, "report"),
      Run(BiosChangeSettings_execute(IF preview THEN {"show"} ELSE {}), "report")>>
    \o (IF preview THEN <<ReturnIfError>> \o Ends("preview") ELSE <<>>)

\* list, show and diff read only.
BiosProfile_options == {"apply", "confirm", "dry"}
BiosProfile_execute(options) ==
    <<Might({"raised", "failed"})>>
    \o (IF "apply" \in options THEN _apply_profile(options) ELSE Ends("shown"))

-----------------------------------------------------------------------------
(* boot_source/                                                            *)

BootSourceUpdate_options == {"show", "commit", "reboot"}
BootSourceUpdate_execute(options) ==
    <<Might({"raised", "shown"})>>
    \o If("show", options, Ends("shown"))
    \o WriteAndWatch("patch")
    \o Commit(options)
    \o If("reboot", options, <<Reboot("ignore")>>)

EnableBootOptions_options == {"reboot"}
EnableBootOptions_execute(options) ==
    <<Might({"raised", "shown"})>>
    \o WriteAndWatch("patch")
    \o If("reboot", options, <<Reboot("ignore")>>)

BootOptionsClearPending_options == {}
BootOptionsClearPending_execute(options) == WriteAndWatch("post")

\* ChassisReset, also called by boot-one-shot to power the host on.
ChassisReset_options == {}
ChassisReset_execute(options) == <<Might({"raised"})>> \o WriteAndWatch("power_on")

\* No --confirm: its parameter is TRUE by default.  The exceptions of
\* _RESET_ERRORS are caught.
BootOneShot_options == {"dry", "power_on", "reboot"}
BootOneShot_execute(options) ==
    <<Might({"raised"})>>
    \o If("dry", options, Ends("preview"))
    \o If("power_on", options, <<Run(ChassisReset_execute({}), "catch"), ReturnIfError>>)
    \o WriteAndWatch("patch")
    \o If("reboot", options, <<Reboot("catch"), ReturnIfError>>)

-----------------------------------------------------------------------------
(* attribute/, dell_lc/, accounts/                                         *)

AttributeClearPending_options == {}
AttributeClearPending_execute(options) == <<Might({"raised", "failed"})>> \o WriteAndWatch("post")

AttributesUpdate_options == {}
AttributesUpdate_execute(options) == <<Might({"raised"})>> \o WriteAndWatch("patch")

GetRemoteServicesAPIStatus_options == {}
GetRemoteServicesAPIStatus_execute(options) == WriteAndWatch("post")

GetRemoteRssAPIStatus_options == {}
GetRemoteRssAPIStatus_execute(options) == WriteAndWatch("post")

AccountCreate_options == {"confirm"}
AccountCreate_execute(options) == Confirmed(options) \o <<Write("post")>>

AccountUpdate_options == {"confirm"}
AccountUpdate_execute(options) ==
    <<Might({"raised", "failed"})>> \o Confirmed(options) \o <<Write("patch")>>

\* The account that is logged in is refused as well.
AccountDelete_options == {"confirm"}
AccountDelete_execute(options) ==
    <<Might({"raised", "failed"})>> \o Confirmed(options) \o <<Write("delete")>>

AccountImportSSHKey_options == {"confirm"}
AccountImportSSHKey_execute(options) ==
    <<Might({"raised", "failed"})>> \o Confirmed(options) \o <<Write("patch")>>

-----------------------------------------------------------------------------
(* system/                                                                 *)

\* Both hand a whole URL to base_post, which puts the scheme and the address
\* in front of it once more: the request never leaves.
MalformedUrl == Ends("raised")

ExportSystemConfig_options == {}
ExportSystemConfig_execute(options) == MalformedUrl

ImportSystemConfig_options == {"reboot"}
ImportSystemConfig_execute(options) == <<Might({"raised"})>> \o MalformedUrl

\* The POST is made without base_post, and an error that is returned goes
\* unnoticed.  After the restart, the result of reboot() is merged into a dict
\* as if it were one, which throws.
ImportOneTimeBoot_options == {"reboot"}
ImportOneTimeBoot_execute(options) ==
    <<Might({"raised"}), Request("post", "read_api_respond", "ignore"), Might({"raised"})>>
    \o If("reboot", options, <<Reboot("ignore")>> \o Ends("raised"))
=============================================================================
