---------------------------- MODULE ActionPolicy ----------------------------
(***************************************************************************)
(* The destructiveness of Redfish actions (actions/action_policy.py): the  *)
(* table ACTION_POLICY as one set per level, and classify().  An action is *)
(* named by its full type; what the table does not name is destructive.    *)
(***************************************************************************)

READ_ONLY ==
    {"#ComponentIntegrity.SPDMGetSignedMeasurements",
     "#ComponentIntegrity.TPMGetSignedMeasurements",
     "#DellLCService.SupportAssistGetAutoCollectSchedule",
     "#DellLCService.SupportAssistGetEULAStatus",
     "#DelliDRACCardService.ExportCertificate",
     "#DelliDRACCardService.ExportSSLCertificate",
     "#DelliDRACCardService.FactoryIdentityExportCertificate",
     "#DelliDRACCardService.VerifyHWProofOfPossession",
     "#DellRaidService.CheckVDValues"}

REVERSIBLE ==
    {"#EventService.SubmitTestEvent",
     "#DelliDRACCardService.TestSEKMServerConnection",
     "#HpeDirectoryTest.StartTest", "#HpeDirectoryTest.StopTest",
     "#HpeiLOSnmpService.SendSNMPTestAlert",
     "#HpeiLOManagerNetworkService.SendTestAlertMail",
     "#HpeiLOManagerNetworkService.SendTestSyslog",
     "#DellLCService.TestNetworkShare",
     "#DelliDRACCardService.SendTestEmailAlert",
     "#DelliDRACCardService.SendTestSNMPTrap",
     "#DelliDRACCardService.TestRsyslogServerConnection",
     "#TelemetryService.SubmitTestMetricReport", "#VirtualMedia.InsertMedia",
     "#VirtualMedia.EjectMedia", "#CertificateService.GenerateCSR",
     "#DelliDRACCardService.FactoryIdentityCertificateGenerateCSR",
     "#DelliDRACCardService.GenerateSEKMCSR",
     "#LogService.CollectDiagnosticData",
     "#NvidiaPowerSmoothing.ActivatePresetProfile",
     "#NvidiaPowerSmoothing.ApplyAdminOverrides",
     "#NvidiaWorkloadPower.EnableProfiles",
     "#NvidiaWorkloadPower.DisableProfiles",
     "#NvidiaDebugToken.GenerateToken", "#NvidiaDebugToken.DisableToken",
     "#DellSwitchConnectionService.ServerPortConnectionRefresh",
     "#DellRaidService.BlinkTarget", "#DellRaidService.UnBlinkTarget",
     "#DellLCService.UpdateOSAppHealthData",
     "#DellRaidService.StartPatrolRead", "#DellRaidService.StopPatrolRead",
     "#DellLCService.SupportAssistClearAutoCollectSchedule",
     "#DellLCService.SupportAssistSetAutoCollectSchedule"}

IRREVERSIBLE ==
    {"#DellRaidService.ClearControllerPreservedCache",
     "#DellRaidService.ClearForeignConfig", "#Drive.SecureErase",
     "#DellRaidService.ImportForeignConfig",
     "#DellRaidService.UnLockSecureForeignConfig", "#Manager.ResetToDefaults",
     "#HpeServerChassis.FactoryResetMCTP",
     "#NvidiaRoTProtectedComponent.RevokeKeys",
     "#NvidiaRoTProtectedComponent.UpdateMinimumSecurityVersion",
     "#DellPersistentStorageService.DeletePartition",
     "#DellPersistentStorageService.FormatPartition",
     "#DellPersistentStorageService.InitializeMedia"}

\* The default level is the one that needs a confirmation.
classify(type) ==
    IF type \in READ_ONLY THEN "read_only"
    ELSE IF type \in REVERSIBLE THEN "reversible"
    ELSE IF type \in IRREVERSIBLE THEN "irreversible"
    ELSE "destructive"
=============================================================================
