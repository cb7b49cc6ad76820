--------------------------- MODULE StandardActions --------------------------
(***************************************************************************)
(* Commands that end in invoke_action over licenses, metrics, the network, *)
(* GPU power, certificates, secure boot and logs.                          *)
(***************************************************************************)
EXTENDS Invocation

DellLicenseActions_args ==
    Arguments({None, Unknown, "#DellLicenseManagementService.DeleteLicense",
               "#DellLicenseManagementService.ImportLicense"}, {"filled", "confirm", "dry"})
DellLicenseActions_rows(a, site, lost) == OneOrError(site, lost)
DellLicenseActions_execute(a, seen) ==
    IF a.op = None THEN (IF seen.st = "unavailable" THEN Failed ELSE Shown)
    ELSE IF a.op = Unknown THEN Raised
    ELSE IF ~Offers(seen.rows, a.op) THEN Failed
    ELSE IF ~a.filled THEN Raised
    ELSE InvokeIfConfirmed(Primary, a)

LicenseInstall_args ==
    Requiring(Arguments({"#LicenseService.Install"}, {"given", "filled", "confirm", "dry"}))
LicenseInstall_rows(a, site, lost) ==
    IF a.given THEN NoDiscovery ELSE OneOrError(site, lost)
LicenseInstall_execute(a, seen) ==
    IF ~a.given THEN (IF Offers(seen.rows, a.op) THEN Shown ELSE Failed)
    ELSE IF ~a.filled THEN Raised
    ELSE Invoke(Primary, a)

\* The payload is built with its password masked when the command expects the
\* call to be a preview.
DellMetricActions_args ==
    Arguments({None, "#DellMetricService.ControlMetrics",
               "#DellMetricService.ExportThermalHistory"},
              {"filled", "pick", "confirm", "dry"})
DellMetricActions_rows(a, site, lost) == AllWithFallback(site, lost)
DellMetricActions_execute(a, seen) ==
    LET matches == Picked(Offering(seen.rows, a.op), a.pick) IN
    IF a.op = None THEN Shown
    ELSE IF ~Single(matches) THEN Failed
    ELSE IF ~a.filled THEN Raised
    ELSE [kind |-> "call",
          call |-> [Invoke(TheResource(matches), a).call EXCEPT !.masked = a.dry \/ ~a.confirm]]

DellSwitchPortRefresh_args ==
    Arguments({"#DellSwitchConnectionService.ServerPortConnectionRefresh"},
              {"pick", "confirm", "dry"})
DellSwitchPortRefresh_rows(a, site, lost) == AllWithFallback(site, lost)
DellSwitchPortRefresh_execute(a, seen) ==
    LET rows == Picked(Offering(seen.rows, a.op), a.pick) IN
    IF a.pick # None /\ rows = {} THEN Raised
    ELSE IF rows = {} THEN Failed
    ELSE IF ~a.confirm /\ ~a.dry THEN Shown
    ELSE IF ~Single(rows) THEN Failed
    ELSE Invoke(TheResource(rows), a)

\* An adapter is named by its URI (pick) or by an Id that several share.
NetworkAdapterReset_args ==
    Arguments({"#NetworkAdapter.Reset"}, {"given", "filled", "pick", "confirm", "dry"})
NetworkAdapterReset_rows(a, site, lost) ==
    IF a.pick # None
    THEN (IF a.pick \in lost \/ a.pick \notin DOMAIN site
          THEN Unavailable ELSE Found(Rows(site, {a.pick})))
    ELSE IF Root \in lost THEN Unavailable
    ELSE AllTolerant(site, lost)
NetworkAdapterReset_execute(a, seen) ==
    LET rows == Offering(seen.rows, a.op) IN
    IF seen.st = "unavailable" THEN Failed
    ELSE IF ~a.given /\ a.pick = None THEN Shown
    ELSE IF ~Single(rows) \/ ~a.filled THEN Raised
    ELSE Invoke(TheResource(rows), a)

\* The first resource with the GPU's Id is taken, whatever it offers.
FirstGpu(site, lost) ==
    LET gpus == Reachable(None, site, lost, {}) IN
    Found({<<s, "gpu">> : s \in {s \in gpus : Primary \in gpus => s = Primary}})

WorkloadPower_args ==
    Arguments({Unknown, "#NvidiaWorkloadPower.EnableProfiles",
               "#NvidiaWorkloadPower.DisableProfiles"}, {"filled", "confirm", "dry"})
WorkloadPower_rows(a, site, lost) == FirstGpu(site, lost)
WorkloadPower_execute(a, seen) ==
    IF a.op = Unknown \/ seen.rows = {} \/ ~a.filled THEN Raised
    ELSE InvokeIfConfirmed(TheResource(seen.rows), a)

PowerSmoothingAction_args ==
    Arguments({Unknown, "#NvidiaPowerSmoothing.ActivatePresetProfile",
               "#NvidiaPowerSmoothing.ApplyAdminOverrides"}, {"filled", "confirm", "dry"})
PowerSmoothingAction_rows(a, site, lost) == FirstGpu(site, lost)
PowerSmoothingAction_execute(a, seen) ==
    IF a.op = Unknown \/ seen.rows = {} THEN Raised
    ELSE IF a.op = "#NvidiaPowerSmoothing.ActivatePresetProfile" /\ ~a.filled THEN Raised
    ELSE InvokeIfConfirmed(TheResource(seen.rows), a)

\* A collection URI that cannot be read or is no collection is an error.
CertificateGenerateCSR_args ==
    Arguments({"#CertificateService.GenerateCSR"}, {"filled", "dry"})
CertificateGenerateCSR_rows(a, site, lost) == NoDiscovery
CertificateGenerateCSR_execute(a, seen) ==
    IF ~a.filled THEN Failed ELSE InvokeFreely(Primary, a)

SecureBootResetKeys_args ==
    Requiring(Arguments({"#SecureBoot.ResetKeys", "#SecureBootDatabase.ResetKeys"},
                        {"given", "filled", "pick", "confirm", "dry"}))
\* The SecureBoot resource and its collection are read outside any handler, the
\* databases inside one.
SecureBootResetKeys_rows(a, site, lost) ==
    IF Root \in lost THEN Found({})
    ELSE IF Primary \in lost THEN Threw
    ELSE AllTolerant(site, lost)
SecureBootResetKeys_execute(a, seen) ==
    LET matches == Picked(Offering(seen.rows, a.op), a.pick) IN
    IF seen.st = "threw" THEN Raised
    ELSE IF ~a.given THEN Shown
    ELSE IF ~Single(matches) \/ ~a.filled THEN Raised
    ELSE Invoke(TheResource(matches), a)

\* A log service is named by its URI (pick) or by an Id that several share.
LogClear_args == Arguments({"#LogService.ClearLog"}, {"given", "pick", "confirm", "dry"})
LogClear_rows(a, site, lost) == AllTolerant(site, lost)
LogClear_execute(a, seen) ==
    LET matches == Picked(Offering(seen.rows, a.op), a.pick) IN
    IF ~a.given /\ a.pick = None THEN Shown
    ELSE IF ~Single(matches) THEN Raised
    ELSE Invoke(TheResource(matches), a)

LogCollectDiagnosticData_args ==
    Arguments({"#LogService.CollectDiagnosticData"}, {"given", "pick", "confirm", "dry"})
LogCollectDiagnosticData_rows(a, site, lost) == AllTolerant(site, lost)
LogCollectDiagnosticData_execute(a, seen) ==
    LET matches == Picked(Offering(seen.rows, a.op), a.pick) IN
    IF ~a.given /\ a.pick = None THEN Shown
    ELSE IF ~Single(matches) THEN Raised
    ELSE Call(TheResource(matches), a.op, a.dry \/ ~a.confirm, TRUE, FALSE)
-----------------------------------------------------------------------------
\* The commands of this module.
StandardCommands ==
    {"DellLicenseActions", "LicenseInstall", "DellMetricActions",
     "DellSwitchPortRefresh", "NetworkAdapterReset", "WorkloadPower",
     "PowerSmoothingAction", "CertificateGenerateCSR", "SecureBootResetKeys",
     "LogClear", "LogCollectDiagnosticData"}
StandardArgs(c) ==
    CASE c = "DellLicenseActions" -> DellLicenseActions_args
      [] c = "LicenseInstall" -> LicenseInstall_args
      [] c = "DellMetricActions" -> DellMetricActions_args
      [] c = "DellSwitchPortRefresh" -> DellSwitchPortRefresh_args
      [] c = "NetworkAdapterReset" -> NetworkAdapterReset_args
      [] c = "WorkloadPower" -> WorkloadPower_args
      [] c = "PowerSmoothingAction" -> PowerSmoothingAction_args
      [] c = "CertificateGenerateCSR" -> CertificateGenerateCSR_args
      [] c = "SecureBootResetKeys" -> SecureBootResetKeys_args
      [] c = "LogClear" -> LogClear_args
      [] c = "LogCollectDiagnosticData" -> LogCollectDiagnosticData_args
StandardRows(c, a, site, lost) ==
    CASE c = "DellLicenseActions" -> DellLicenseActions_rows(a, site, lost)
      [] c = "LicenseInstall" -> LicenseInstall_rows(a, site, lost)
      [] c = "DellMetricActions" -> DellMetricActions_rows(a, site, lost)
      [] c = "DellSwitchPortRefresh" -> DellSwitchPortRefresh_rows(a, site, lost)
      [] c = "NetworkAdapterReset" -> NetworkAdapterReset_rows(a, site, lost)
      [] c = "WorkloadPower" -> WorkloadPower_rows(a, site, lost)
      [] c = "PowerSmoothingAction" -> PowerSmoothingAction_rows(a, site, lost)
      [] c = "CertificateGenerateCSR" -> CertificateGenerateCSR_rows(a, site, lost)
      [] c = "SecureBootResetKeys" -> SecureBootResetKeys_rows(a, site, lost)
      [] c = "LogClear" -> LogClear_rows(a, site, lost)
      [] c = "LogCollectDiagnosticData" -> LogCollectDiagnosticData_rows(a, site, lost)
StandardOutcome(c, a, seen) ==
    CASE c = "DellLicenseActions" -> DellLicenseActions_execute(a, seen)
      [] c = "LicenseInstall" -> LicenseInstall_execute(a, seen)
      [] c = "DellMetricActions" -> DellMetricActions_execute(a, seen)
      [] c = "DellSwitchPortRefresh" -> DellSwitchPortRefresh_execute(a, seen)
      [] c = "NetworkAdapterReset" -> NetworkAdapterReset_execute(a, seen)
      [] c = "WorkloadPower" -> WorkloadPower_execute(a, seen)
      [] c = "PowerSmoothingAction" -> PowerSmoothingAction_execute(a, seen)
      [] c = "CertificateGenerateCSR" -> CertificateGenerateCSR_execute(a, seen)
      [] c = "SecureBootResetKeys" -> SecureBootResetKeys_execute(a, seen)
      [] c = "LogClear" -> LogClear_execute(a, seen)
      [] c = "LogCollectDiagnosticData" -> LogCollectDiagnosticData_execute(a, seen)
=============================================================================
