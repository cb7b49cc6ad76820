----------------------------- MODULE DirectWrites -----------------------------
(***************************************************************************)
(* One run of a command that writes to the BMC itself: the programs of     *)
(* ConfigWrites and DeviceWrites, the managers that they are composed      *)
(* with, and what their execution must keep.                               *)
(***************************************************************************)
EXTENDS ConfigWrites, DeviceWrites, WriteMachine

OptionsOf ==
    [JobApply |-> JobApply_options,
     JobDel |-> JobDel_options,
     JobRmDellServices |-> JobRmDellServices_options,
     JobWatch |-> JobWatch_options,
     GetTask |-> GetTask_options,
     BiosChangeSettings |-> BiosChangeSettings_options,
     ChangeBootOrder |-> ChangeBootOrder_options,
     BiosClearPending |-> BiosClearPending_options,
     BiosProfile |-> BiosProfile_options,
     BootSourceUpdate |-> BootSourceUpdate_options,
     EnableBootOptions |-> EnableBootOptions_options,
     BootOptionsClearPending |-> BootOptionsClearPending_options,
     ChassisReset |-> ChassisReset_options,
     BootOneShot |-> BootOneShot_options,
     AttributeClearPending |-> AttributeClearPending_options,
     AttributesUpdate |-> AttributesUpdate_options,
     GetRemoteServicesAPIStatus |-> GetRemoteServicesAPIStatus_options,
     GetRemoteRssAPIStatus |-> GetRemoteRssAPIStatus_options,
     AccountCreate |-> AccountCreate_options,
     AccountUpdate |-> AccountUpdate_options,
     AccountDelete |-> AccountDelete_options,
     AccountImportSSHKey |-> AccountImportSSHKey_options,
     ExportSystemConfig |-> ExportSystemConfig_options,
     ImportSystemConfig |-> ImportSystemConfig_options,
     ImportOneTimeBoot |-> ImportOneTimeBoot_options,
     ChassisUpdate |-> ChassisUpdate_options,
     AssetTagSet |-> AssetTagSet_options,
     IdentifyLed |-> IdentifyLed_options,
     DnsSet |-> DnsSet_options,
     NtpSet |-> NtpSet_options,
     ManagerTime |-> ManagerTime_options,
     ManagerReset |-> ManagerReset_options,
     DellNetworkAttributes |-> DellNetworkAttributes_options,
     SerialConsoleConfig |-> SerialConsoleConfig_options,
     DellOemAttach |-> DellOemAttach_options,
     DellOemNetIsoBoot |-> DellOemNetIsoBoot_options,
     DellOemDetach |-> DellOemDetach_options,
     DellOemDisconnect |-> DellOemDisconnect_options,
     GetAttachStatus |-> GetAttachStatus_options,
     GetNetworkIsoAttachStatus |-> GetNetworkIsoAttachStatus_options,
     VirtualMediaEject |-> VirtualMediaEject_options,
     VirtualMediaInsert |-> VirtualMediaInsert_options,
     MountCdrom |-> MountCdrom_options,
     SmcVirtualMediaMount |-> SmcVirtualMediaMount_options,
     ConvertNoneRaid |-> ConvertNoneRaid_options,
     ConvertToRaid |-> ConvertToRaid_options,
     VolumeInit |-> VolumeInit_options,
     VolumeCreate |-> VolumeCreate_options,
     VolumeDelete |-> VolumeDelete_options,
     FirmwareUpdate |-> FirmwareUpdate_options,
     SubscriptionCreate |-> SubscriptionCreate_options,
     SubscriptionDelete |-> SubscriptionDelete_options]

DirectCommands == DOMAIN OptionsOf

ProgramOf(c, chosen) ==
    CASE c = "JobApply" -> JobApply_execute(chosen)
      [] c = "JobDel" -> JobDel_execute(chosen)
      [] c = "JobRmDellServices" -> JobRmDellServices_execute(chosen)
      [] c = "JobWatch" -> JobWatch_execute(chosen)
      [] c = "GetTask" -> GetTask_execute(chosen)
      [] c = "BiosChangeSettings" -> BiosChangeSettings_execute(chosen)
      [] c = "ChangeBootOrder" -> ChangeBootOrder_execute(chosen)
      [] c = "BiosClearPending" -> BiosClearPending_execute(chosen)
      [] c = "BiosProfile" -> BiosProfile_execute(chosen)
      [] c = "BootSourceUpdate" -> BootSourceUpdate_execute(chosen)
      [] c = "EnableBootOptions" -> EnableBootOptions_execute(chosen)
      [] c = "BootOptionsClearPending" -> BootOptionsClearPending_execute(chosen)
      [] c = "ChassisReset" -> ChassisReset_execute(chosen)
      [] c = "BootOneShot" -> BootOneShot_execute(chosen)
      [] c = "AttributeClearPending" -> AttributeClearPending_execute(chosen)
      [] c = "AttributesUpdate" -> AttributesUpdate_execute(chosen)
      [] c = "GetRemoteServicesAPIStatus" -> GetRemoteServicesAPIStatus_execute(chosen)
      [] c = "GetRemoteRssAPIStatus" -> GetRemoteRssAPIStatus_execute(chosen)
      [] c = "AccountCreate" -> AccountCreate_execute(chosen)
      [] c = "AccountUpdate" -> AccountUpdate_execute(chosen)
      [] c = "AccountDelete" -> AccountDelete_execute(chosen)
      [] c = "AccountImportSSHKey" -> AccountImportSSHKey_execute(chosen)
      [] c = "ExportSystemConfig" -> ExportSystemConfig_execute(chosen)
      [] c = "ImportSystemConfig" -> ImportSystemConfig_execute(chosen)
      [] c = "ImportOneTimeBoot" -> ImportOneTimeBoot_execute(chosen)
      [] c = "ChassisUpdate" -> ChassisUpdate_execute(chosen)
      [] c = "AssetTagSet" -> AssetTagSet_execute(chosen)
      [] c = "IdentifyLed" -> IdentifyLed_execute(chosen)
      [] c = "DnsSet" -> DnsSet_execute(chosen)
      [] c = "NtpSet" -> NtpSet_execute(chosen)
      [] c = "ManagerTime" -> ManagerTime_execute(chosen)
      [] c = "ManagerReset" -> ManagerReset_execute(chosen)
      [] c = "DellNetworkAttributes" -> DellNetworkAttributes_execute(chosen)
      [] c = "SerialConsoleConfig" -> SerialConsoleConfig_execute(chosen)
      [] c = "DellOemAttach" -> DellOemAttach_execute(chosen)
      [] c = "DellOemNetIsoBoot" -> DellOemNetIsoBoot_execute(chosen)
      [] c = "DellOemDetach" -> DellOemDetach_execute(chosen)
      [] c = "DellOemDisconnect" -> DellOemDisconnect_execute(chosen)
      [] c = "GetAttachStatus" -> GetAttachStatus_execute(chosen)
      [] c = "GetNetworkIsoAttachStatus" -> GetNetworkIsoAttachStatus_execute(chosen)
      [] c = "VirtualMediaEject" -> VirtualMediaEject_execute(chosen)
      [] c = "VirtualMediaInsert" -> VirtualMediaInsert_execute(chosen)
      [] c = "MountCdrom" -> MountCdrom_execute(chosen)
      [] c = "SmcVirtualMediaMount" -> SmcVirtualMediaMount_execute(chosen)
      [] c = "ConvertNoneRaid" -> ConvertNoneRaid_execute(chosen)
      [] c = "ConvertToRaid" -> ConvertToRaid_execute(chosen)
      [] c = "VolumeInit" -> VolumeInit_execute(chosen)
      [] c = "VolumeCreate" -> VolumeCreate_execute(chosen)
      [] c = "VolumeDelete" -> VolumeDelete_execute(chosen)
      [] c = "FirmwareUpdate" -> FirmwareUpdate_execute(chosen)
      [] c = "SubscriptionCreate" -> SubscriptionCreate_execute(chosen)
      [] c = "SubscriptionDelete" -> SubscriptionDelete_execute(chosen)

\* The commands registered with IDracManager, which only --vendor dell knows,
\* and those registered with IloManager and SupermicroManager, which inherit
\* the transport of RedfishManager.
DellCommands ==
    {"JobApply", "JobDel", "JobRmDellServices", "JobWatch", "GetTask",
     "ChangeBootOrder", "BiosClearPending", "BootSourceUpdate",
     "EnableBootOptions", "BootOptionsClearPending", "AttributeClearPending",
     "AttributesUpdate", "GetRemoteServicesAPIStatus",
     "GetRemoteRssAPIStatus", "ExportSystemConfig", "ImportSystemConfig",
     "ImportOneTimeBoot", "DellNetworkAttributes", "SerialConsoleConfig",
     "DellOemAttach", "DellOemNetIsoBoot", "DellOemDetach",
     "DellOemDisconnect", "GetAttachStatus", "GetNetworkIsoAttachStatus",
     "ConvertNoneRaid", "ConvertToRaid", "VolumeCreate", "VolumeDelete"}
VendorCommands == {"AccountImportSSHKey", "SmcVirtualMediaMount"}

\* A shared command is composed with the manager selected; a command that is
\* registered with a vendor's manager inherits from it.
_runtime_command_class(c) ==
    CASE c \in DellCommands -> {"IDracManager"}
      [] c \in VendorCommands -> {"RedfishManager"}
      [] OTHER -> {"RedfishManager", "IDracManager"}

-----------------------------------------------------------------------------
DirectInit ==
    /\ command \in DirectCommands
    /\ manager \in _runtime_command_class(command)
    /\ options \in SUBSET OptionsOf[command]
    /\ todo = ProgramOf(command, options)
    /\ answer = Nothing
    /\ fault = FALSE
    /\ taken = {}
    /\ refused = {}
    /\ outcome = Nothing

-----------------------------------------------------------------------------
(* Properties.                                                             *)

\* A command that has a --confirm writes nothing without it, and none writes on
\* a dry run or when asked to show something only, wherever in the command the
\* check is made, and whatever other commands it runs.  The restore point of a
\* BIOS profile is a read.
WritesAreConfirmed ==
    Sent \ {"snapshot"} # {} =>
       /\ "confirm" \in OptionsOf[command] => "confirm" \in options
       /\ options \cap {"dry", "show", "status"} = {}

\* The commands that keep the error of a write in their data, or drop it.
Unheeding ==
    {"IdentifyLed", "DnsSet", "ManagerTime", "SerialConsoleConfig",
     "ConvertNoneRaid", "ConvertToRaid", "VolumeInit", "ImportOneTimeBoot"}

\* The requests whose refusal a command drops: it is not in the error of its
\* result.
Dropped ==
    (IF command = "BootOneShot" THEN {} ELSE {"reboot"})
    \cup {"snapshot", "upload"}
    \cup (IF "commit_pending" \in options THEN {"commit"} ELSE {})
    \cup (IF command \in Unheeding THEN Sent ELSE {})

\* "Failed writes must never be treated as success", says a test of the write
\* commands.  The refusals that are, are those of Dropped, and no others: a command
\* that ends without an error has had no other request refused, whether it made
\* the request itself or a command that it runs did.
RefusalIsReported == outcome = "ended" => refused \subseteq Dropped

\* Statement of the docstring of _push_result: the result is an error when the
\* upload of a firmware image fails.  A status for which read_api_respond returns
\* Error (405, 409) passes for an upload that was executed.
UploadFailureIsReported == outcome = "ended" => "upload" \notin refused

\* A request that needs an earlier one is not made once that was refused: a
\* medium is not inserted into a drive that did not eject, nor mounted from a
\* share that was not configured; a boot override is not set on a host that was
\* to be powered on first and was not; jobs are not applied for settings that
\* were not staged.
NothingOnTopOfARefusal ==
    /\ "insert" \in Sent => "eject" \notin refused
    /\ "mount" \in Sent => "configure" \notin refused
    /\ command = "BootOneShot" /\ "patch" \in Sent => "power_on" \notin refused
    /\ "commit" \in Sent /\ "commit_pending" \notin options /\ command # "JobApply" =>
          "patch" \in taken

\* Without --reboot and --commit_pending the host restarts only for settings that
\* the BMC has taken: a command that was given --commit restarts it through
\* job_apply, which comes after the answer to the write and only if that is good.
\* `job-apply` itself, whose restarts need no option, stages nothing.
RestartsAreEarned ==
    "reboot" \in Sent /\ options \cap {"reboot", "commit_pending"} = {} /\ command # "JobApply" =>
       "commit" \in options /\ "patch" \in taken
=============================================================================
