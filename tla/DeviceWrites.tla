----------------------------- MODULE DeviceWrites -----------------------------
(***************************************************************************)
(* The commands that write to devices and services themselves: chassis,    *)
(* managers, network settings, virtual media, storage, firmware and event  *)
(* subscriptions.  Same form as in ConfigWrites.                           *)
(***************************************************************************)
EXTENDS WriteSteps

-----------------------------------------------------------------------------
(* chassis/                                                                *)

ChassisUpdate_options == {"reboot"}
ChassisUpdate_execute(options) ==
    <<Might({"raised"})>>
    \o WriteAndWatch("patch")
    \o If("reboot", options, <<Reboot("ignore")>>)

\* The tag is read back, which may throw.
AssetTagSet_options == {"tag", "confirm"}
AssetTagSet_execute(options) ==
    <<Might({"raised"})>>
    \o Unless("tag", options, Ends("shown"))
    \o Confirmed(options)
    \o <<Write("patch"), ReturnIfError, Might({"raised"})>>

\* The error of the PATCH stays in the data.
IdentifyLed_options == {"state", "confirm"}
IdentifyLed_execute(options) ==
    <<Might({"raised"})>>
    \o Unless("state", options, Ends("shown"))
    \o Confirmed(options)
    \o <<WriteUnheeded("patch"), Might({"raised"})>>

-----------------------------------------------------------------------------
(* manager/, network/, serial_console/: up to two managers or interfaces   *)

DnsSet_options == {"confirm"}
DnsSet_execute(options) ==
    <<Might({"raised"})>>
    \o Confirmed(options)
    \o <<WriteUnheeded("patch"), Maybe(<<WriteUnheeded("patch")>>)>>

\* Every target of the plan is tried; one failure is the failure of all.
NtpSet_options == {"confirm"}
NtpSet_execute(options) ==
    <<Might({"raised"})>>
    \o Confirmed(options)
    \o <<Write("patch"), Maybe(<<Write("patch")>>)>>

\* For each manager the clock is read, set and read again.
ManagerTime_options == {"set"}
ManagerTime_execute(options) ==
    LET each == <<Might({"raised"})>>
                \o If("set", options, <<WriteUnheeded("patch"), Might({"raised"})>>)
    IN <<Might({"failed"})>> \o each \o <<Maybe(each)>>
       \o Unless("set", options, Ends("shown"))

\* The wait at the end has no error of its own.
ManagerReset_options == {"wait"}
ManagerReset_execute(options) == WriteAndWatch("post")

DellNetworkAttributes_options == {"target", "spec", "confirm", "dry"}
DellNetworkAttributes_execute(options) ==
    <<Might({"raised"})>>
    \o (IF {"target", "spec"} \subseteq options THEN <<Might({"raised"})>> ELSE Ends("shown"))
    \o ConfirmedAndNotDry(options)
    \o <<Write("patch"), ReturnIfError, Might({"raised"})>>

\* The BIOS attribute first, then the consoles that are not enabled yet; no
\* error is looked at.
SerialConsoleConfig_options == {"enable", "confirm"}
SerialConsoleConfig_execute(options) ==
    Unless("enable", options, Ends("shown"))
    \o <<Might({"raised"})>>
    \o Confirmed(options)
    \o <<WriteUnheeded("patch"),
         Maybe(<<WriteUnheeded("patch"), Maybe(<<WriteUnheeded("patch")>>)>>)>>

-----------------------------------------------------------------------------
(* delloem/: the target of each action is discovered, and a missing one    *)
(* throws                                                                  *)

DellOemAttach_options == {}
DellOemAttach_execute(options) == <<Might({"raised"})>> \o WriteAndWatch("post")

DellOemNetIsoBoot_options == {}
DellOemNetIsoBoot_execute(options) == <<Might({"raised"})>> \o WriteAndWatch("post")

DellOemDetach_options == {}
DellOemDetach_execute(options) == <<Might({"raised"})>> \o WriteAndWatch("post")

DellOemDisconnect_options == {}
DellOemDisconnect_execute(options) == <<Might({"raised"})>> \o WriteAndWatch("post")

GetAttachStatus_options == {}
GetAttachStatus_execute(options) == <<Might({"raised"}), Write("post"), ReturnIfError>>

GetNetworkIsoAttachStatus_options == {"reboot"}
GetNetworkIsoAttachStatus_execute(options) ==
    <<Might({"raised"})>>
    \o WriteAndWatch("post")
    \o If("reboot", options, <<Reboot("ignore")>>)

-----------------------------------------------------------------------------
(* virtual_media/                                                          *)

\* A device with no medium in it is left alone.
VirtualMediaEject_options == {}
VirtualMediaEject_execute(options) ==
    <<Might({"raised", "failed", "shown"})>> \o WriteAndWatch("eject")

\* The device is ejected if asked to, and must be empty otherwise.
VirtualMediaInsert_options == {"eject"}
\* Faulty variant: the result of the eject is not looked at.
VirtualMediaInsert_anyway(options) ==
    <<Might({"raised", "failed"})>>
    \o If("eject", options, <<Run(VirtualMediaEject_execute({}), "report")>>)
    \o WriteAndWatch("insert")
VirtualMediaInsert_execute(options) ==
    <<Might({"raised", "failed"})>>
    \o (IF "eject" \in options
        THEN <<Run(VirtualMediaEject_execute({}), "report"), ReturnIfError, Might({"raised"})>>
        ELSE <<>>)
    \o WriteAndWatch("insert")

\* The same, with a preview, and with the device ejected only if it must be.
MountCdrom_options == {"eject", "confirm"}
MountCdrom_execute(options) ==
    <<Might({"raised", "failed"})>>
    \o Confirmed(options)
    \o (IF "eject" \in options
        THEN <<Maybe(<<Run(VirtualMediaEject_execute({}), "report"), ReturnIfError>>)>>
        ELSE <<Might({"failed"})>>)
    \o WriteAndWatch("insert")

\* The share is configured, then mounted.
SmcVirtualMediaMount_options == {"status", "unmount", "share"}
SmcVirtualMediaMount_execute(options) ==
    IF "status" \in options THEN Ends("shown")
    ELSE IF "unmount" \in options THEN <<Write("unmount"), ReturnIfError>>
    ELSE IF "share" \notin options THEN Ends("shown")
    ELSE <<Write("configure"), ReturnIfError, Write("mount"), ReturnIfError>>

-----------------------------------------------------------------------------
(* storage/, volumes/                                                      *)

ConvertNoneRaid_options == {}
ConvertNoneRaid_execute(options) == <<Might({"raised", "shown"}), WriteUnheeded("post")>>

ConvertToRaid_options == {}
ConvertToRaid_execute(options) == <<Might({"raised", "shown"}), WriteUnheeded("post")>>

VolumeInit_options == {}
VolumeInit_execute(options) == <<Might({"raised"}), WriteUnheeded("post")>>

VolumeCreate_options == {"confirm", "dry"}
VolumeCreate_execute(options) ==
    <<Might({"raised"})>> \o ConfirmedAndNotDry(options) \o <<Write("post")>>

\* --confirm_volume_id repeats the id of the volume that goes.
VolumeDelete_options == {"confirm", "dry", "confirm_volume_id"}
VolumeDelete_execute(options) ==
    <<Might({"raised"})>>
    \o ConfirmedAndNotDry(options)
    \o Unless("confirm_volume_id", options, Ends("failed"))
    \o <<Write("delete")>>

-----------------------------------------------------------------------------
(* firmware/, events/                                                      *)

\* SimpleUpdate where the UpdateService offers it, otherwise an upload of the
\* image, of which every exception is caught.
FirmwareUpdate_options == {"file", "confirm", "dry"}
FirmwareUpdate_execute(options) ==
    LET upload == Unless("file", options, Ends("failed"))
                  \o ConfirmedAndNotDry(options)
                  \o <<Might({"failed"}), Request("upload", "_push_result", "report")>>
    IN <<Might({"failed"}), Maybe(upload \o <<ReturnIfError>> \o Ends("ended"))>>
       \o ConfirmedAndNotDry(options)
       \o <<Write("post")>>

SubscriptionCreate_options == {"confirm"}
SubscriptionCreate_execute(options) ==
    <<Might({"raised"})>> \o Confirmed(options)
    \o <<Request("post", "_subscription_mutation", "report")>>

SubscriptionDelete_options == {"confirm"}
SubscriptionDelete_execute(options) ==
    <<Might({"raised"})>> \o Confirmed(options)
    \o <<Request("delete", "_subscription_mutation", "report")>>
=============================================================================
