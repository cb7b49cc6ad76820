-------------------------- MODULE LifecycleActions --------------------------
(***************************************************************************)
(* The commands over DellLCService (redfish_ctl/dell_lc).                  *)
(***************************************************************************)
EXTENDS Invocation

DellLcAutoDiscovery_args ==
    Arguments({"#DellLCService.ReInitiateAutoDiscovery", "#DellLCService.ReInitiateDHS"},
              {"given", "pick", "confirm", "dry"})
DellLcAutoDiscovery_rows(a, site, lost) == FirstOffering(a.pick, site, lost)
DellLcAutoDiscovery_execute(a, seen) ==
    IF seen.rows = {} THEN Failed
    ELSE IF ~a.given THEN Shown
    ELSE Invoke(TheResource(seen.rows), a)

DellLcClearProvisioningServer_args ==
    Arguments({"#DellLCService.ClearProvisioningServer"}, {"pick", "confirm", "dry"})
DellLcClearProvisioningServer_rows(a, site, lost) == FirstOffering(a.pick, site, lost)
DellLcClearProvisioningServer_execute(a, seen) ==
    IF seen.rows = {} THEN Failed
    ELSE InvokeIfConfirmed(TheResource(seen.rows), a)

\* The call passes confirm=True and lets only the preview flag hold it back.  Of
\* the nine exports, which only differ in their payloads, two stand for all.
DellLcExport_args ==
    Arguments({None, "#DellLCService.ExportLCLog", "#DellLCService.ExportHWInventory"},
              {"filled", "confirm", "dry"})
DellLcExport_rows(a, site, lost) == FirstOffering(None, site, lost)
DellLcExport_execute(a, seen) ==
    IF seen.rows = {} THEN Failed
    ELSE IF a.op = None THEN Shown
    ELSE IF ~Offers(seen.rows, a.op) \/ ~a.filled THEN Raised
    ELSE Call(TheResource(seen.rows), a.op, a.dry \/ ~a.confirm, TRUE, FALSE)

DellLcIsmInstaller_args ==
    Arguments({"#DellLCService.ExposeiSMInstallerToHostOS"}, {"pick", "confirm", "dry"})
DellLcIsmInstaller_rows(a, site, lost) == NamedOrAll(a.pick, site, lost)
DellLcIsmInstaller_execute(a, seen) ==
    IF ~Single(Offering(seen.rows, a.op)) THEN Failed
    ELSE Invoke(TheResource(Offering(seen.rows, a.op)), a)

DellLcLogComment_args ==
    Requiring(Arguments({"#DellLCService.InsertCommentInLCLog"},
                        {"given", "filled", "confirm", "dry"}))
DellLcLogComment_rows(a, site, lost) == OneOrError(site, lost)
DellLcLogComment_execute(a, seen) ==
    IF ~Offers(seen.rows, a.op) THEN Failed
    ELSE IF ~a.given THEN Shown
    ELSE IF ~a.filled THEN Raised
    ELSE Invoke(Primary, a)

DellLcNetworkShareTest_args ==
    Requiring(Arguments({"#DellLCService.TestNetworkShare"},
                        {"given", "filled", "confirm", "dry"}))
DellLcNetworkShareTest_rows(a, site, lost) ==
    IF Root \in lost THEN Threw ELSE FirstOffering(None, site, lost)
DellLcNetworkShareTest_execute(a, seen) ==
    IF seen.st = "threw" THEN Raised
    ELSE IF seen.rows = {} THEN Failed
    ELSE IF ~a.given THEN Shown
    ELSE IF ~a.filled THEN Raised
    ELSE InvokeIfConfirmed(TheResource(seen.rows), a)

DellLcOsHealthUpdate_args ==
    Arguments({"#DellLCService.UpdateOSAppHealthData"}, {"given", "pick", "confirm", "dry"})
DellLcOsHealthUpdate_rows(a, site, lost) == NamedOrAll(a.pick, site, lost)
DellLcOsHealthUpdate_execute(a, seen) ==
    LET rows == Offering(seen.rows, a.op) IN
    IF ~a.given THEN Shown
    ELSE IF ~Single(rows) THEN Failed
    ELSE InvokeIfConfirmed(TheResource(rows), a)

\* Any share option, --confirm or --dry_run asks for the export.
DellLcSupportAssistExport_args ==
    Arguments({"#DellLCService.SupportAssistExportLastCollection"},
              {"given", "filled", "confirm", "dry"})
DellLcSupportAssistExport_rows(a, site, lost) == FirstOffering(None, site, lost)
DellLcSupportAssistExport_execute(a, seen) ==
    IF seen.rows = {} THEN Failed
    ELSE IF ~(a.given \/ a.confirm \/ a.dry) THEN Shown
    ELSE IF a.given /\ ~a.filled THEN Raised
    ELSE InvokeIfConfirmed(TheResource(seen.rows), a)

DellLcSupportAssistSchedule_args ==
    Arguments({None, Unknown, "#DellLCService.SupportAssistClearAutoCollectSchedule",
               "#DellLCService.SupportAssistSetAutoCollectSchedule"},
              {"filled", "pick", "confirm", "dry"})
DellLcSupportAssistSchedule_rows(a, site, lost) == NamedOrAll(a.pick, site, lost)
DellLcSupportAssistSchedule_execute(a, seen) ==
    IF a.op = None THEN Shown
    ELSE IF ~Offers(seen.rows, a.op) THEN Failed
    ELSE IF a.op = "#DellLCService.SupportAssistSetAutoCollectSchedule" /\ ~a.filled
         THEN Failed
    ELSE InvokeIfConfirmed(TheResource(Offering(seen.rows, a.op)), a)

DellLcSupportAssistStatus_args ==
    Arguments({None, "#DellLCService.SupportAssistGetAutoCollectSchedule",
               "#DellLCService.SupportAssistGetEULAStatus"}, {"pick", "dry"})
DellLcSupportAssistStatus_rows(a, site, lost) == AllUnderRoot(site, lost)
DellLcSupportAssistStatus_execute(a, seen) ==
    LET matches == Picked(Offering(seen.rows, a.op), a.pick) IN
    IF seen.st = "threw" THEN Raised
    ELSE IF a.op = None THEN Shown
    ELSE IF ~Single(matches) THEN Failed
    ELSE InvokeFreely(TheResource(matches), a)
-----------------------------------------------------------------------------
\* The commands of this module.
LifecycleCommands ==
    {"DellLcAutoDiscovery", "DellLcClearProvisioningServer", "DellLcExport",
     "DellLcIsmInstaller", "DellLcLogComment", "DellLcNetworkShareTest",
     "DellLcOsHealthUpdate", "DellLcSupportAssistExport",
     "DellLcSupportAssistSchedule", "DellLcSupportAssistStatus"}
LifecycleArgs(c) ==
    CASE c = "DellLcAutoDiscovery" -> DellLcAutoDiscovery_args
      [] c = "DellLcClearProvisioningServer" -> DellLcClearProvisioningServer_args
      [] c = "DellLcExport" -> DellLcExport_args
      [] c = "DellLcIsmInstaller" -> DellLcIsmInstaller_args
      [] c = "DellLcLogComment" -> DellLcLogComment_args
      [] c = "DellLcNetworkShareTest" -> DellLcNetworkShareTest_args
      [] c = "DellLcOsHealthUpdate" -> DellLcOsHealthUpdate_args
      [] c = "DellLcSupportAssistExport" -> DellLcSupportAssistExport_args
      [] c = "DellLcSupportAssistSchedule" -> DellLcSupportAssistSchedule_args
      [] c = "DellLcSupportAssistStatus" -> DellLcSupportAssistStatus_args
LifecycleRows(c, a, site, lost) ==
    CASE c = "DellLcAutoDiscovery" -> DellLcAutoDiscovery_rows(a, site, lost)
      [] c = "DellLcClearProvisioningServer" -> DellLcClearProvisioningServer_rows(a, site, lost)
      [] c = "DellLcExport" -> DellLcExport_rows(a, site, lost)
      [] c = "DellLcIsmInstaller" -> DellLcIsmInstaller_rows(a, site, lost)
      [] c = "DellLcLogComment" -> DellLcLogComment_rows(a, site, lost)
      [] c = "DellLcNetworkShareTest" -> DellLcNetworkShareTest_rows(a, site, lost)
      [] c = "DellLcOsHealthUpdate" -> DellLcOsHealthUpdate_rows(a, site, lost)
      [] c = "DellLcSupportAssistExport" -> DellLcSupportAssistExport_rows(a, site, lost)
      [] c = "DellLcSupportAssistSchedule" -> DellLcSupportAssistSchedule_rows(a, site, lost)
      [] c = "DellLcSupportAssistStatus" -> DellLcSupportAssistStatus_rows(a, site, lost)
LifecycleOutcome(c, a, seen) ==
    CASE c = "DellLcAutoDiscovery" -> DellLcAutoDiscovery_execute(a, seen)
      [] c = "DellLcClearProvisioningServer" -> DellLcClearProvisioningServer_execute(a, seen)
      [] c = "DellLcExport" -> DellLcExport_execute(a, seen)
      [] c = "DellLcIsmInstaller" -> DellLcIsmInstaller_execute(a, seen)
      [] c = "DellLcLogComment" -> DellLcLogComment_execute(a, seen)
      [] c = "DellLcNetworkShareTest" -> DellLcNetworkShareTest_execute(a, seen)
      [] c = "DellLcOsHealthUpdate" -> DellLcOsHealthUpdate_execute(a, seen)
      [] c = "DellLcSupportAssistExport" -> DellLcSupportAssistExport_execute(a, seen)
      [] c = "DellLcSupportAssistSchedule" -> DellLcSupportAssistSchedule_execute(a, seen)
      [] c = "DellLcSupportAssistStatus" -> DellLcSupportAssistStatus_execute(a, seen)
=============================================================================
