--------------------------- MODULE ResourceActions --------------------------
(***************************************************************************)
(* Commands that end in invoke_action over controls, component integrity,  *)
(* drives, volumes, BIOS, systems, job queues, updates, events and         *)
(* telemetry.                                                              *)
(***************************************************************************)
EXTENDS Invocation

\* A control is named by its URI (pick) or by an Id that several share; --filled
\* is FALSE for a URI that is not one of a control, or a --chassis without one.
ControlResetDefaults_args ==
    Arguments({"#Control.ResetToDefaults"}, {"given", "filled", "pick", "confirm", "dry"})
ControlResetDefaults_rows(a, site, lost) ==
    IF a.pick # None
    THEN (IF a.pick \in lost \/ a.pick \notin DOMAIN site
          THEN Threw ELSE Found(Rows(site, {a.pick})))
    ELSE AllUnderRoot(site, lost)
ControlResetDefaults_execute(a, seen) ==
    LET rows == Offering(seen.rows, a.op) IN
    IF ~a.filled \/ seen.st = "threw" THEN Raised
    ELSE IF ~a.given /\ a.pick = None THEN Shown
    ELSE IF ~Single(rows) THEN Failed
    ELSE Invoke(TheResource(rows), a)

SpdmMeasurements_args ==
    Requiring(Arguments({"#ComponentIntegrity.SPDMGetSignedMeasurements"},
                        {"given", "filled", "pick", "dry"}))
SpdmMeasurements_rows(a, site, lost) == AllStrict(site, lost)
SpdmMeasurements_execute(a, seen) ==
    LET matches == Picked(Offering(seen.rows, a.op), a.pick) IN
    IF seen.st = "threw" THEN Raised
    ELSE IF ~a.given THEN Shown
    ELSE IF ~Single(matches) \/ ~a.filled THEN Raised
    ELSE InvokeFreely(TheResource(matches), a)

\* A drive is named by its URI (pick), or by a controller and an Id.
DriveSecureErase_args ==
    Arguments({"#Drive.SecureErase"},
              {"given", "filled", "pick", "confirm", "token", "dry"})
DriveSecureErase_rows(a, site, lost) ==
    IF a.pick # None THEN NoDiscovery ELSE AllStrict(site, lost)
\* Faulty variant: the second token is not handed on.
DriveSecureErase_tokenless(a, seen) ==
    IF a.pick # None
    THEN (IF ~a.filled THEN Raised ELSE Invoke(a.pick, a))
    ELSE IF seen.st = "threw" \/ ~a.filled THEN Raised
    ELSE IF ~a.given THEN Shown
    ELSE Invoke(Primary, a)
DriveSecureErase_execute(a, seen) ==
    IF a.pick # None
    THEN (IF ~a.filled THEN Raised ELSE InvokeWithToken(a.pick, a))
    ELSE IF seen.st = "threw" \/ ~a.filled THEN Raised
    ELSE IF ~a.given THEN Shown
    ELSE InvokeWithToken(Primary, a)

DellSystemLcdErrors_args ==
    Arguments({"#DellSystemManagementService.ShowErrorsOnLCD"}, {"pick", "confirm", "dry"})
DellSystemLcdErrors_rows(a, site, lost) == FirstOffering(a.pick, site, lost)
DellSystemLcdErrors_execute(a, seen) ==
    IF seen.rows = {} THEN Failed ELSE Invoke(TheResource(seen.rows), a)

\* Several systems and none named is reported as blocked, without an error.
DellBiosDeviceRecovery_args ==
    Arguments({"#DellBIOSService.DeviceRecovery"}, {"given", "pick", "confirm", "dry"})
DellBiosDeviceRecovery_rows(a, site, lost) == NamedOrAll(a.pick, site, lost)
DellBiosDeviceRecovery_execute(a, seen) ==
    IF seen.rows = {} THEN Failed
    ELSE IF ~a.given THEN Shown
    ELSE IF ~Single(seen.rows) /\ a.pick = None THEN Shown
    ELSE Invoke(TheResource(seen.rows), a)

\* The system is read outside any handler.
BiosResetDefault_args == Arguments({"#Bios.ResetBios"}, {"confirm", "dry"})
BiosResetDefault_rows(a, site, lost) == OneStrict(site, lost)
BiosResetDefault_execute(a, seen) ==
    IF seen.st = "threw" THEN Raised ELSE Invoke(Primary, a)

DellSoftwareUpdateSchedule_args ==
    Arguments({None, "#DellSoftwareInstallationService.SetUpdateSchedule",
               "#DellSoftwareInstallationService.ClearUpdateSchedule"},
              {"filled", "pick", "confirm", "dry"})
DellSoftwareUpdateSchedule_rows(a, site, lost) == NamedOrAll(a.pick, site, lost)
DellSoftwareUpdateSchedule_execute(a, seen) ==
    LET rows == Offering(seen.rows, a.op) IN
    IF a.op = None THEN Shown
    ELSE IF ~Single(rows) THEN Failed
    ELSE IF a.op = "#DellSoftwareInstallationService.SetUpdateSchedule" /\ ~a.filled
    THEN Raised
    ELSE Invoke(TheResource(rows), a)

\* The volume is resolved by strict reads; what it offers is not looked at.
VolumeCheckConsistency_args ==
    Arguments({"#Volume.CheckConsistency"}, {"filled", "confirm", "dry"})
VolumeCheckConsistency_rows(a, site, lost) == AllStrict(site, lost)
VolumeCheckConsistency_execute(a, seen) ==
    IF seen.st = "threw" \/ ~a.filled THEN Raised ELSE Invoke(Primary, a)

-----------------------------------------------------------------------------
(* Commands that call invoke_action on a fixed resource.                   *)

DellJobQueueSetup_args == Arguments({"#DellJobService.SetupJobQueue"}, {"confirm", "dry"})
DellJobQueueSetup_execute(a, seen) == Invoke(Primary, a)

SystemReset_args == Arguments({"#ComputerSystem.Reset"}, {"confirm", "dry"})
SystemReset_execute(a, seen) == Invoke(Primary, a)

\* The reboot command confirms by itself.
RebootHost_args == Arguments({"#ComputerSystem.Reset"}, {"dry"})
RebootHost_execute(a, seen) == Call(Primary, a.op, a.dry, TRUE, FALSE)

UpdateStart_args == Arguments({"#UpdateService.StartUpdate"}, {"confirm", "dry"})
UpdateStart_execute(a, seen) == Invoke(Primary, a)

EventSubmitTest_args == Arguments({"#EventService.SubmitTestEvent"}, {"dry"})
EventSubmitTest_execute(a, seen) == InvokeFreely(Primary, a)

TelemetryClearReports_args ==
    Arguments({"#TelemetryService.ClearMetricReports"}, {"confirm", "dry"})
TelemetryClearReports_execute(a, seen) == Invoke(Primary, a)

TelemetryResetMetricDefinitions_args ==
    Arguments({"#TelemetryService.ResetMetricReportDefinitionsToDefaults"},
              {"confirm", "dry"})
TelemetryResetMetricDefinitions_execute(a, seen) == Invoke(Primary, a)

TelemetrySubmitTest_args ==
    Arguments({"#TelemetryService.SubmitTestMetricReport"}, {"confirm", "dry"})
TelemetrySubmitTest_execute(a, seen) ==
    Call(Primary, a.op, a.dry \/ ~a.confirm, TRUE, FALSE)
-----------------------------------------------------------------------------
\* The commands of this module.
ResourceCommands ==
    {"ControlResetDefaults", "SpdmMeasurements", "DriveSecureErase",
     "DellSystemLcdErrors", "DellBiosDeviceRecovery", "BiosResetDefault",
     "DellSoftwareUpdateSchedule", "VolumeCheckConsistency", "DellJobQueueSetup",
     "SystemReset", "RebootHost", "UpdateStart", "EventSubmitTest",
     "TelemetryClearReports", "TelemetryResetMetricDefinitions", "TelemetrySubmitTest"}
ResourceArgs(c) ==
    CASE c = "ControlResetDefaults" -> ControlResetDefaults_args
      [] c = "SpdmMeasurements" -> SpdmMeasurements_args
      [] c = "DriveSecureErase" -> DriveSecureErase_args
      [] c = "DellSystemLcdErrors" -> DellSystemLcdErrors_args
      [] c = "DellBiosDeviceRecovery" -> DellBiosDeviceRecovery_args
      [] c = "BiosResetDefault" -> BiosResetDefault_args
      [] c = "DellSoftwareUpdateSchedule" -> DellSoftwareUpdateSchedule_args
      [] c = "VolumeCheckConsistency" -> VolumeCheckConsistency_args
      [] c = "DellJobQueueSetup" -> DellJobQueueSetup_args
      [] c = "SystemReset" -> SystemReset_args
      [] c = "RebootHost" -> RebootHost_args
      [] c = "UpdateStart" -> UpdateStart_args
      [] c = "EventSubmitTest" -> EventSubmitTest_args
      [] c = "TelemetryClearReports" -> TelemetryClearReports_args
      [] c = "TelemetryResetMetricDefinitions" -> TelemetryResetMetricDefinitions_args
      [] c = "TelemetrySubmitTest" -> TelemetrySubmitTest_args
\* The ones left out read nothing.
ResourceRows(c, a, site, lost) ==
    CASE c = "ControlResetDefaults" -> ControlResetDefaults_rows(a, site, lost)
      [] c = "SpdmMeasurements" -> SpdmMeasurements_rows(a, site, lost)
      [] c = "DriveSecureErase" -> DriveSecureErase_rows(a, site, lost)
      [] c = "DellSystemLcdErrors" -> DellSystemLcdErrors_rows(a, site, lost)
      [] c = "DellBiosDeviceRecovery" -> DellBiosDeviceRecovery_rows(a, site, lost)
      [] c = "BiosResetDefault" -> BiosResetDefault_rows(a, site, lost)
      [] c = "DellSoftwareUpdateSchedule" -> DellSoftwareUpdateSchedule_rows(a, site, lost)
      [] c = "VolumeCheckConsistency" -> VolumeCheckConsistency_rows(a, site, lost)
      [] OTHER -> NoDiscovery
ResourceOutcome(c, a, seen) ==
    CASE c = "ControlResetDefaults" -> ControlResetDefaults_execute(a, seen)
      [] c = "SpdmMeasurements" -> SpdmMeasurements_execute(a, seen)
      [] c = "DriveSecureErase" -> DriveSecureErase_execute(a, seen)
      [] c = "DellSystemLcdErrors" -> DellSystemLcdErrors_execute(a, seen)
      [] c = "DellBiosDeviceRecovery" -> DellBiosDeviceRecovery_execute(a, seen)
      [] c = "BiosResetDefault" -> BiosResetDefault_execute(a, seen)
      [] c = "DellSoftwareUpdateSchedule" -> DellSoftwareUpdateSchedule_execute(a, seen)
      [] c = "VolumeCheckConsistency" -> VolumeCheckConsistency_execute(a, seen)
      [] c = "DellJobQueueSetup" -> DellJobQueueSetup_execute(a, seen)
      [] c = "SystemReset" -> SystemReset_execute(a, seen)
      [] c = "RebootHost" -> RebootHost_execute(a, seen)
      [] c = "UpdateStart" -> UpdateStart_execute(a, seen)
      [] c = "EventSubmitTest" -> EventSubmitTest_execute(a, seen)
      [] c = "TelemetryClearReports" -> TelemetryClearReports_execute(a, seen)
      [] c = "TelemetryResetMetricDefinitions" -> TelemetryResetMetricDefinitions_execute(a, seen)
      [] c = "TelemetrySubmitTest" -> TelemetrySubmitTest_execute(a, seen)
=============================================================================
