---------------------------- MODULE GuardedProofs -----------------------------
(***************************************************************************)
(* Proofs about the commands that end in invoke_action, for any set of     *)
(* resources: what goes out was authorised, a masked payload never does,   *)
(* what the user is told is true (GuardInv); a preview is one that the     *)
(* user's options account for, and a POST goes where it was asked to       *)
(* (AskInv).  What execute() hands to invoke_action is settled command by  *)
(* command and without the state, and carried to the POST by the machine.  *)
(***************************************************************************)
EXTENDS GuardedCommands, FiniteSetTheorems, TLAPS

\* The arguments of invoke_action that a command may pass, given its own: no
\* flag is stronger than what the user said, and a payload is masked only where
\* invoke_action makes a preview.
Faithful(c, a, k) ==
    /\ k.dry \/ ~a.dry
    /\ k.token => a.token
    /\ k.confirm => k.dry \/ a.confirm \/ c = "RebootHost"
    /\ k.masked => k.dry \/ (~k.confirm /\ classify(k.op) = "destructive")

\* The commands without --confirm, and those with a second token.
Unconfirmed ==
    {"DellRaidCheckValues", "DellLcSupportAssistStatus", "CertificateGenerateCSR",
     "SpdmMeasurements", "RebootHost", "EventSubmitTest"}
Tokened ==
    {"DellRaidClearActions", "DellRaidForeignConfigActions",
     "DellPersistentInitializeMedia", "DellPersistentPartitionActions", "DriveSecureErase"}

\* The other direction: what the user said is handed on, and the command holds
\* nothing back that it has no option for.
Generous(c, a, k) ==
    /\ k.op = a.op
    /\ k.dry => a.dry \/ (~a.confirm /\ c \notin Unconfirmed)
    /\ a.confirm => k.confirm \/ c \in Unconfirmed \cup {"DellCardCertExport"}
    /\ c = "RebootHost" => k.confirm
    /\ a.token /\ c \in Tokened => k.token

IsCall(k) ==
    \E svc, op, dry, confirm, token, probe, masked :
       k = [svc |-> svc, op |-> op, dry |-> dry, confirm |-> confirm,
            token |-> token, probe |-> probe, masked |-> masked]

Honest(c, a, o) ==
    \/ o.kind \in {"shown", "failed", "raised"}
    \/ o.kind = "call" /\ IsCall(o.call) /\ Faithful(c, a, o.call) /\ Generous(c, a, o.call)

\* The ways in which the commands end, or call invoke_action.
LEMMA HonestOutcomes ==
    ASSUME NEW c, NEW a
    PROVE  /\ Honest(c, a, Shown) /\ Honest(c, a, Failed) /\ Honest(c, a, Raised)
           /\ c \notin Unconfirmed /\ c \notin Tokened =>
                /\ \A s : Honest(c, a, Invoke(s, a))
                /\ \A s : Honest(c, a, InvokeIfConfirmed(s, a))
                /\ \A s : Honest(c, a, Call(s, a.op, a.dry \/ ~a.confirm, TRUE, FALSE))
           /\ c \notin Unconfirmed => \A s : Honest(c, a, InvokeWithToken(s, a))
           /\ c \in Unconfirmed \ {"RebootHost"} => \A s : Honest(c, a, InvokeFreely(s, a))
<1> USE DEF Honest, Faithful, Generous, IsCall
<1>1. Honest(c, a, Shown) /\ Honest(c, a, Failed) /\ Honest(c, a, Raised)
  BY DEF Shown, Failed, Raised, Ended
<1>2. ASSUME c \notin Unconfirmed, c \notin Tokened, NEW s
      PROVE  /\ Honest(c, a, Invoke(s, a))
             /\ Honest(c, a, InvokeIfConfirmed(s, a))
             /\ Honest(c, a, Call(s, a.op, a.dry \/ ~a.confirm, TRUE, FALSE))
  <2>0. c # "RebootHost"
    BY <1>2, Zenon DEF Unconfirmed
  <2>1. Honest(c, a, Invoke(s, a))
    BY <1>2, <2>0, Zenon DEF Invoke, Call
  <2>2. Honest(c, a, InvokeIfConfirmed(s, a))
    BY <1>2, <2>0, Zenon DEF InvokeIfConfirmed, Call
  <2>3. Honest(c, a, Call(s, a.op, a.dry \/ ~a.confirm, TRUE, FALSE))
    BY <1>2, <2>0, Zenon DEF Call
  <2> QED BY <2>1, <2>2, <2>3, Zenon
<1>3. ASSUME c \notin Unconfirmed, NEW s PROVE Honest(c, a, InvokeWithToken(s, a))
  <2>0. c # "RebootHost"
    BY <1>3, Zenon DEF Unconfirmed
  <2> QED BY <1>3, <2>0, Zenon DEF InvokeWithToken, Call
<1>4. ASSUME c \in Unconfirmed \ {"RebootHost"}, NEW s
      PROVE  Honest(c, a, InvokeFreely(s, a))
  <2>0. c \notin Tokened
    BY <1>4 DEF Unconfirmed, Tokened
  <2> QED BY <1>4, <2>0, Zenon DEF InvokeFreely, Call
<1> QED  BY <1>1, <1>2, <1>3, <1>4, Zenon

\* The three commands that call invoke_action in a way of their own.
LEMMA OddCallsAreHonest ==
    ASSUME NEW a, NEW s
    PROVE  /\ Honest("RebootHost", a, Call(s, a.op, a.dry, TRUE, FALSE))
           /\ Honest("DellCardCertExport", a,
                     Call(s, a.op, a.dry \/ ~a.confirm, FALSE, FALSE))
           /\ Honest("DellRaidCheckValues", a,
                     [kind |-> "call",
                      call |-> [InvokeFreely(s, a).call EXCEPT !.probe = TRUE]])
<1> USE DEF Honest, Faithful, Generous, IsCall
<1>0. /\ {"RebootHost", "DellCardCertExport", "DellRaidCheckValues"} \cap Tokened = {}
      /\ "DellCardCertExport" \notin Unconfirmed
      /\ "DellRaidCheckValues" \in Unconfirmed
      /\ "RebootHost" \in Unconfirmed
  BY DEF Tokened, Unconfirmed
<1>1. Honest("RebootHost", a, Call(s, a.op, a.dry, TRUE, FALSE))
  BY <1>0, Zenon DEF Call
<1>2. Honest("DellCardCertExport", a, Call(s, a.op, a.dry \/ ~a.confirm, FALSE, FALSE))
  BY <1>0, Zenon DEF Call
<1>3. Honest("DellRaidCheckValues", a,
             [kind |-> "call", call |-> [InvokeFreely(s, a).call EXCEPT !.probe = TRUE]])
  BY <1>0, Zenon DEF InvokeFreely, Call
<1> QED  BY <1>1, <1>2, <1>3, Zenon

\* The actions of DellMetricActions are not in the table, and so destructive:
\* where the command masks its payload, invoke_action makes a preview.
LEMMA MaskIsHonest ==
    ASSUME NEW a \in DellMetricActions_args, a.op # None, NEW s
    PROVE  Honest("DellMetricActions", a,
              [kind |-> "call",
               call |-> [Invoke(s, a).call EXCEPT !.masked = a.dry \/ ~a.confirm]])
<1>1. a.op \in {"#DellMetricService.ControlMetrics", "#DellMetricService.ExportThermalHistory"}
  BY DEF DellMetricActions_args, Arguments
<1>2. classify(a.op) = "destructive"
  BY <1>1 DEF classify, READ_ONLY, REVERSIBLE, IRREVERSIBLE
<1>3. QED
  BY <1>2, ZenonT(60)
     DEF Honest, Faithful, Generous, IsCall, Invoke, Call, Unconfirmed, Tokened

\* execute() of the commands of the Dell RAID service.
LEMMA RaidActionsAreHonest ==
    ASSUME NEW a, NEW seen
    PROVE  /\ Honest("DellRaidBlink", a, DellRaidBlink_execute(a, seen))
           /\ Honest("DellRaidCancelActions", a, DellRaidCancelActions_execute(a, seen))
           /\ Honest("DellRaidCheckValues", a, DellRaidCheckValues_execute(a, seen))
           /\ Honest("DellRaidClearActions", a, DellRaidClearActions_execute(a, seen))
           /\ Honest("DellRaidConfigActions", a, DellRaidConfigActions_execute(a, seen))
           /\ Honest("DellRaidForeignConfigActions", a,
                     DellRaidForeignConfigActions_execute(a, seen))
           /\ Honest("DellRaidRenameVD", a, DellRaidRenameVD_execute(a, seen))
           /\ Honest("DellRaidSpareActions", a, DellRaidSpareActions_execute(a, seen))
           /\ Honest("DellRaidPhysicalDiskActions", a, DellRaidPhysicalDiskActions_execute(a, seen))
           /\ Honest("DellRaidPatrolRead", a, DellRaidPatrolRead_execute(a, seen))
<1>1. Honest("DellRaidBlink", a, DellRaidBlink_execute(a, seen))
  BY HonestOutcomes, Zenon DEF DellRaidBlink_execute, Unconfirmed, Tokened
<1>2. Honest("DellRaidCancelActions", a, DellRaidCancelActions_execute(a, seen))
  BY HonestOutcomes, Zenon DEF DellRaidCancelActions_execute, Unconfirmed, Tokened
<1>3. Honest("DellRaidCheckValues", a, DellRaidCheckValues_execute(a, seen))
  BY HonestOutcomes, OddCallsAreHonest, Zenon DEF DellRaidCheckValues_execute
<1>4. Honest("DellRaidClearActions", a, DellRaidClearActions_execute(a, seen))
  BY HonestOutcomes, Zenon DEF DellRaidClearActions_execute, Unconfirmed, Tokened
<1>5. Honest("DellRaidConfigActions", a, DellRaidConfigActions_execute(a, seen))
  BY HonestOutcomes, Zenon DEF DellRaidConfigActions_execute, Unconfirmed, Tokened
<1>6. Honest("DellRaidForeignConfigActions", a, DellRaidForeignConfigActions_execute(a, seen))
  BY HonestOutcomes, Zenon
     DEF DellRaidForeignConfigActions_execute, Unconfirmed, Tokened
<1>7. Honest("DellRaidRenameVD", a, DellRaidRenameVD_execute(a, seen))
  BY HonestOutcomes, Zenon DEF DellRaidRenameVD_execute, Unconfirmed, Tokened
<1>8. Honest("DellRaidSpareActions", a, DellRaidSpareActions_execute(a, seen))
  BY HonestOutcomes, Zenon DEF DellRaidSpareActions_execute, Unconfirmed, Tokened
<1>9. Honest("DellRaidPhysicalDiskActions", a, DellRaidPhysicalDiskActions_execute(a, seen))
  BY HonestOutcomes, Zenon DEF DellRaidPhysicalDiskActions_execute, Unconfirmed, Tokened
<1>10. Honest("DellRaidPatrolRead", a, DellRaidPatrolRead_execute(a, seen))
  BY HonestOutcomes, Zenon DEF DellRaidPatrolRead_execute, Unconfirmed, Tokened
<1>11. QED
  BY <1>1, <1>2, <1>3, <1>4, <1>5, <1>6, <1>7, <1>8, <1>9, <1>10

\* execute() of the commands of the Dell lifecycle controller.
LEMMA LifecycleActionsAreHonest ==
    ASSUME NEW a, NEW seen
    PROVE  /\ Honest("DellLcAutoDiscovery", a, DellLcAutoDiscovery_execute(a, seen))
           /\ Honest("DellLcClearProvisioningServer", a,
                     DellLcClearProvisioningServer_execute(a, seen))
           /\ Honest("DellLcExport", a, DellLcExport_execute(a, seen))
           /\ Honest("DellLcIsmInstaller", a, DellLcIsmInstaller_execute(a, seen))
           /\ Honest("DellLcLogComment", a, DellLcLogComment_execute(a, seen))
           /\ Honest("DellLcNetworkShareTest", a, DellLcNetworkShareTest_execute(a, seen))
           /\ Honest("DellLcOsHealthUpdate", a, DellLcOsHealthUpdate_execute(a, seen))
           /\ Honest("DellLcSupportAssistExport", a, DellLcSupportAssistExport_execute(a, seen))
           /\ Honest("DellLcSupportAssistSchedule", a, DellLcSupportAssistSchedule_execute(a, seen))
           /\ Honest("DellLcSupportAssistStatus", a, DellLcSupportAssistStatus_execute(a, seen))
<1>1. Honest("DellLcAutoDiscovery", a, DellLcAutoDiscovery_execute(a, seen))
  BY HonestOutcomes, Zenon DEF DellLcAutoDiscovery_execute, Unconfirmed, Tokened
<1>2. Honest("DellLcClearProvisioningServer", a, DellLcClearProvisioningServer_execute(a, seen))
  BY HonestOutcomes, Zenon
     DEF DellLcClearProvisioningServer_execute, Unconfirmed, Tokened
<1>3. Honest("DellLcExport", a, DellLcExport_execute(a, seen))
  BY HonestOutcomes, Zenon DEF DellLcExport_execute, Unconfirmed, Tokened
<1>4. Honest("DellLcIsmInstaller", a, DellLcIsmInstaller_execute(a, seen))
  BY HonestOutcomes, Zenon DEF DellLcIsmInstaller_execute, Unconfirmed, Tokened
<1>5. Honest("DellLcLogComment", a, DellLcLogComment_execute(a, seen))
  BY HonestOutcomes, Zenon DEF DellLcLogComment_execute, Unconfirmed, Tokened
<1>6. Honest("DellLcNetworkShareTest", a, DellLcNetworkShareTest_execute(a, seen))
  BY HonestOutcomes, Zenon DEF DellLcNetworkShareTest_execute, Unconfirmed, Tokened
<1>7. Honest("DellLcOsHealthUpdate", a, DellLcOsHealthUpdate_execute(a, seen))
  BY HonestOutcomes, Zenon DEF DellLcOsHealthUpdate_execute, Unconfirmed, Tokened
<1>8. Honest("DellLcSupportAssistExport", a, DellLcSupportAssistExport_execute(a, seen))
  BY HonestOutcomes, Zenon DEF DellLcSupportAssistExport_execute, Unconfirmed, Tokened
<1>9. Honest("DellLcSupportAssistSchedule", a, DellLcSupportAssistSchedule_execute(a, seen))
  BY HonestOutcomes, Zenon DEF DellLcSupportAssistSchedule_execute, Unconfirmed, Tokened
<1>10. Honest("DellLcSupportAssistStatus", a, DellLcSupportAssistStatus_execute(a, seen))
  BY HonestOutcomes, ZenonT(60)
     DEF DellLcSupportAssistStatus_execute, Unconfirmed, Tokened
<1>11. QED
  BY <1>1, <1>2, <1>3, <1>4, <1>5, <1>6, <1>7, <1>8, <1>9, <1>10

\* execute() of the commands of the Dell cards and the other vendors.
LEMMA CardActionsAreHonest ==
    ASSUME NEW a, NEW seen
    PROVE  /\ Honest("DellCardCertExport", a, DellCardCertExport_execute(a, seen))
           /\ Honest("DellCardCsr", a, DellCardCsr_execute(a, seen))
           /\ Honest("DellCardGroupActions", a, DellCardGroupActions_execute(a, seen))
           /\ Honest("DellCardHwProof", a, DellCardHwProof_execute(a, seen))
           /\ Honest("DellCardKeyManagement", a, DellCardKeyManagement_execute(a, seen))
           /\ Honest("DellCardSekmTest", a, DellCardSekmTest_execute(a, seen))
           /\ Honest("DellCardTestActions", a, DellCardTestActions_execute(a, seen))
           /\ Honest("DellPersistentInitializeMedia", a,
                     DellPersistentInitializeMedia_execute(a, seen))
           /\ Honest("DellPersistentPartitionActions", a,
                     DellPersistentPartitionActions_execute(a, seen))
           /\ Honest("DellVFlashStateChange", a, DellVFlashStateChange_execute(a, seen))
           /\ Honest("HpeChassisActions", a, HpeChassisActions_execute(a, seen))
           /\ Honest("HpeKerberosKeytabImport", a, HpeKerberosKeytabImport_execute(a, seen))
           /\ Honest("HpeTestActions", a, HpeTestActions_execute(a, seen))
           /\ Honest("NvidiaDebugToken", a, NvidiaDebugToken_execute(a, seen))
           /\ Honest("SmcNodeManagerClearPolicies", a, SmcNodeManagerClearPolicies_execute(a, seen))
<1>1. Honest("DellCardCertExport", a, DellCardCertExport_execute(a, seen))
  BY HonestOutcomes, OddCallsAreHonest, Zenon DEF DellCardCertExport_execute
<1>2. Honest("DellCardCsr", a, DellCardCsr_execute(a, seen))
  BY HonestOutcomes, Zenon DEF DellCardCsr_execute, Unconfirmed, Tokened
<1>3. Honest("DellCardGroupActions", a, DellCardGroupActions_execute(a, seen))
  BY HonestOutcomes, Zenon DEF DellCardGroupActions_execute, Unconfirmed, Tokened
<1>4. Honest("DellCardHwProof", a, DellCardHwProof_execute(a, seen))
  BY HonestOutcomes, Zenon DEF DellCardHwProof_execute, Unconfirmed, Tokened
<1>5. Honest("DellCardKeyManagement", a, DellCardKeyManagement_execute(a, seen))
  BY HonestOutcomes, Zenon DEF DellCardKeyManagement_execute, Unconfirmed, Tokened
<1>6. Honest("DellCardSekmTest", a, DellCardSekmTest_execute(a, seen))
  BY HonestOutcomes, Zenon DEF DellCardSekmTest_execute, Unconfirmed, Tokened
<1>7. Honest("DellCardTestActions", a, DellCardTestActions_execute(a, seen))
  BY HonestOutcomes, Zenon DEF DellCardTestActions_execute, Unconfirmed, Tokened
<1>8. Honest("DellPersistentInitializeMedia", a, DellPersistentInitializeMedia_execute(a, seen))
  BY HonestOutcomes, Zenon
     DEF DellPersistentInitializeMedia_execute, Unconfirmed, Tokened
<1>9. Honest("DellPersistentPartitionActions", a, DellPersistentPartitionActions_execute(a, seen))
  BY HonestOutcomes, Zenon
     DEF DellPersistentPartitionActions_execute, Unconfirmed, Tokened
<1>10. Honest("DellVFlashStateChange", a, DellVFlashStateChange_execute(a, seen))
  BY HonestOutcomes, Zenon DEF DellVFlashStateChange_execute, Unconfirmed, Tokened
<1>11. Honest("HpeChassisActions", a, HpeChassisActions_execute(a, seen))
  BY HonestOutcomes, Zenon DEF HpeChassisActions_execute, Unconfirmed, Tokened
<1>12. Honest("HpeKerberosKeytabImport", a, HpeKerberosKeytabImport_execute(a, seen))
  BY HonestOutcomes, Zenon DEF HpeKerberosKeytabImport_execute, Unconfirmed, Tokened
<1>13. Honest("HpeTestActions", a, HpeTestActions_execute(a, seen))
  BY HonestOutcomes, Zenon DEF HpeTestActions_execute, Unconfirmed, Tokened
<1>14. Honest("NvidiaDebugToken", a, NvidiaDebugToken_execute(a, seen))
  BY HonestOutcomes, Zenon DEF NvidiaDebugToken_execute, Unconfirmed, Tokened
<1>15. Honest("SmcNodeManagerClearPolicies", a, SmcNodeManagerClearPolicies_execute(a, seen))
  BY HonestOutcomes, Zenon DEF SmcNodeManagerClearPolicies_execute, Unconfirmed, Tokened
<1>16. QED
  BY <1>1, <1>2, <1>3, <1>4, <1>5, <1>6, <1>7, <1>8, <1>9, <1>10, <1>11,
     <1>12, <1>13, <1>14, <1>15

\* execute() of the commands on resources that are discovered.
LEMMA StandardActionsAreHonest ==
    ASSUME NEW a, NEW seen
    PROVE  /\ Honest("DellLicenseActions", a, DellLicenseActions_execute(a, seen))
           /\ Honest("LicenseInstall", a, LicenseInstall_execute(a, seen))
           /\ Honest("DellSwitchPortRefresh", a, DellSwitchPortRefresh_execute(a, seen))
           /\ Honest("NetworkAdapterReset", a, NetworkAdapterReset_execute(a, seen))
           /\ Honest("WorkloadPower", a, WorkloadPower_execute(a, seen))
           /\ Honest("PowerSmoothingAction", a, PowerSmoothingAction_execute(a, seen))
           /\ Honest("CertificateGenerateCSR", a, CertificateGenerateCSR_execute(a, seen))
           /\ Honest("SecureBootResetKeys", a, SecureBootResetKeys_execute(a, seen))
           /\ Honest("LogClear", a, LogClear_execute(a, seen))
           /\ Honest("LogCollectDiagnosticData", a, LogCollectDiagnosticData_execute(a, seen))
<1>1. Honest("DellLicenseActions", a, DellLicenseActions_execute(a, seen))
  BY HonestOutcomes, Zenon DEF DellLicenseActions_execute, Unconfirmed, Tokened
<1>2. Honest("LicenseInstall", a, LicenseInstall_execute(a, seen))
  BY HonestOutcomes, Zenon DEF LicenseInstall_execute, Unconfirmed, Tokened
<1>3. Honest("DellSwitchPortRefresh", a, DellSwitchPortRefresh_execute(a, seen))
  BY HonestOutcomes, Zenon DEF DellSwitchPortRefresh_execute, Unconfirmed, Tokened
<1>4. Honest("NetworkAdapterReset", a, NetworkAdapterReset_execute(a, seen))
  BY HonestOutcomes, Zenon DEF NetworkAdapterReset_execute, Unconfirmed, Tokened
<1>5. Honest("WorkloadPower", a, WorkloadPower_execute(a, seen))
  BY HonestOutcomes, Zenon DEF WorkloadPower_execute, Unconfirmed, Tokened
<1>6. Honest("PowerSmoothingAction", a, PowerSmoothingAction_execute(a, seen))
  BY HonestOutcomes, Zenon DEF PowerSmoothingAction_execute, Unconfirmed, Tokened
<1>7. Honest("CertificateGenerateCSR", a, CertificateGenerateCSR_execute(a, seen))
  BY HonestOutcomes, Zenon DEF CertificateGenerateCSR_execute, Unconfirmed, Tokened
<1>8. Honest("SecureBootResetKeys", a, SecureBootResetKeys_execute(a, seen))
  BY HonestOutcomes, Zenon DEF SecureBootResetKeys_execute, Unconfirmed, Tokened
<1>9. Honest("LogClear", a, LogClear_execute(a, seen))
  BY HonestOutcomes, Zenon DEF LogClear_execute, Unconfirmed, Tokened
<1>10. Honest("LogCollectDiagnosticData", a, LogCollectDiagnosticData_execute(a, seen))
  BY HonestOutcomes, ZenonT(60)
     DEF LogCollectDiagnosticData_execute, Unconfirmed, Tokened
<1>11. QED
  BY <1>1, <1>2, <1>3, <1>4, <1>5, <1>6, <1>7, <1>8, <1>9, <1>10

\* execute() of the commands on resources that are named or well known.
LEMMA ResourceActionsAreHonest ==
    ASSUME NEW a, NEW seen
    PROVE  /\ Honest("ControlResetDefaults", a, ControlResetDefaults_execute(a, seen))
           /\ Honest("SpdmMeasurements", a, SpdmMeasurements_execute(a, seen))
           /\ Honest("DriveSecureErase", a, DriveSecureErase_execute(a, seen))
           /\ Honest("DellSystemLcdErrors", a, DellSystemLcdErrors_execute(a, seen))
           /\ Honest("DellBiosDeviceRecovery", a, DellBiosDeviceRecovery_execute(a, seen))
           /\ Honest("BiosResetDefault", a, BiosResetDefault_execute(a, seen))
           /\ Honest("DellSoftwareUpdateSchedule", a, DellSoftwareUpdateSchedule_execute(a, seen))
           /\ Honest("VolumeCheckConsistency", a, VolumeCheckConsistency_execute(a, seen))
           /\ Honest("DellJobQueueSetup", a, DellJobQueueSetup_execute(a, seen))
           /\ Honest("SystemReset", a, SystemReset_execute(a, seen))
           /\ Honest("RebootHost", a, RebootHost_execute(a, seen))
           /\ Honest("UpdateStart", a, UpdateStart_execute(a, seen))
           /\ Honest("EventSubmitTest", a, EventSubmitTest_execute(a, seen))
           /\ Honest("TelemetryClearReports", a, TelemetryClearReports_execute(a, seen))
           /\ Honest("TelemetryResetMetricDefinitions", a,
                     TelemetryResetMetricDefinitions_execute(a, seen))
           /\ Honest("TelemetrySubmitTest", a, TelemetrySubmitTest_execute(a, seen))
<1>1. Honest("ControlResetDefaults", a, ControlResetDefaults_execute(a, seen))
  BY HonestOutcomes, Zenon DEF ControlResetDefaults_execute, Unconfirmed, Tokened
<1>2. Honest("SpdmMeasurements", a, SpdmMeasurements_execute(a, seen))
  BY HonestOutcomes, Zenon DEF SpdmMeasurements_execute, Unconfirmed, Tokened
<1>3. Honest("DriveSecureErase", a, DriveSecureErase_execute(a, seen))
  BY HonestOutcomes, Zenon DEF DriveSecureErase_execute, Unconfirmed, Tokened
<1>4. Honest("DellSystemLcdErrors", a, DellSystemLcdErrors_execute(a, seen))
  BY HonestOutcomes, Zenon DEF DellSystemLcdErrors_execute, Unconfirmed, Tokened
<1>5. Honest("DellBiosDeviceRecovery", a, DellBiosDeviceRecovery_execute(a, seen))
  BY HonestOutcomes, Zenon DEF DellBiosDeviceRecovery_execute, Unconfirmed, Tokened
<1>6. Honest("BiosResetDefault", a, BiosResetDefault_execute(a, seen))
  BY HonestOutcomes, Zenon DEF BiosResetDefault_execute, Unconfirmed, Tokened
<1>7. Honest("DellSoftwareUpdateSchedule", a, DellSoftwareUpdateSchedule_execute(a, seen))
  BY HonestOutcomes, Zenon DEF DellSoftwareUpdateSchedule_execute, Unconfirmed, Tokened
<1>8. Honest("VolumeCheckConsistency", a, VolumeCheckConsistency_execute(a, seen))
  BY HonestOutcomes, Zenon DEF VolumeCheckConsistency_execute, Unconfirmed, Tokened
<1>9. Honest("DellJobQueueSetup", a, DellJobQueueSetup_execute(a, seen))
  BY HonestOutcomes, Zenon DEF DellJobQueueSetup_execute, Unconfirmed, Tokened
<1>10. Honest("SystemReset", a, SystemReset_execute(a, seen))
  BY HonestOutcomes, Zenon DEF SystemReset_execute, Unconfirmed, Tokened
<1>11. Honest("RebootHost", a, RebootHost_execute(a, seen))
  BY HonestOutcomes, OddCallsAreHonest, Zenon DEF RebootHost_execute
<1>12. Honest("UpdateStart", a, UpdateStart_execute(a, seen))
  BY HonestOutcomes, Zenon DEF UpdateStart_execute, Unconfirmed, Tokened
<1>13. Honest("EventSubmitTest", a, EventSubmitTest_execute(a, seen))
  BY HonestOutcomes, Zenon DEF EventSubmitTest_execute, Unconfirmed, Tokened
<1>14. Honest("TelemetryClearReports", a, TelemetryClearReports_execute(a, seen))
  BY HonestOutcomes, Zenon DEF TelemetryClearReports_execute, Unconfirmed, Tokened
<1>15. Honest("TelemetryResetMetricDefinitions", a,
              TelemetryResetMetricDefinitions_execute(a, seen))
  BY HonestOutcomes, Zenon
     DEF TelemetryResetMetricDefinitions_execute, Unconfirmed, Tokened
<1>16. Honest("TelemetrySubmitTest", a, TelemetrySubmitTest_execute(a, seen))
  BY HonestOutcomes, Zenon DEF TelemetrySubmitTest_execute, Unconfirmed, Tokened
<1>17. QED
  BY <1>1, <1>2, <1>3, <1>4, <1>5, <1>6, <1>7, <1>8, <1>9, <1>10, <1>11,
     <1>12, <1>13, <1>14, <1>15, <1>16

\* The metric-report actions, whose outcome masks the credentials of a preview.
LEMMA MetricActionsAreHonest ==
    ASSUME NEW a \in DellMetricActions_args, NEW seen
    PROVE  Honest("DellMetricActions", a, DellMetricActions_execute(a, seen))
  BY HonestOutcomes, MaskIsHonest, Zenon DEF DellMetricActions_execute

\* No command is in two families.
LEMMA FamiliesAreApart ==
    /\ RaidCommands \cap (LifecycleCommands \cup CardCommands \cup StandardCommands
                          \cup ResourceCommands) = {}
    /\ LifecycleCommands \cap (CardCommands \cup StandardCommands \cup ResourceCommands) = {}
    /\ CardCommands \cap (StandardCommands \cup ResourceCommands) = {}
    /\ StandardCommands \cap ResourceCommands = {}
  BY SMTT(60) DEF RaidCommands, LifecycleCommands, CardCommands, StandardCommands,
                  ResourceCommands

\* execute() of every command.
LEMMA CommandsAreHonest ==
    ASSUME NEW c \in Commands, NEW a \in ArgsOf[c], NEW seen
    PROVE  Honest(c, a, OutcomeOf(c, a, seen))
<1>2. CASE c \in RaidCommands
  <2>1. OutcomeOf(c, a, seen) = RaidOutcome(c, a, seen)
    BY FamiliesAreApart, <1>2, Zenon DEF OutcomeOf
  <2>2. Honest(c, a, RaidOutcome(c, a, seen))
    BY <1>2, RaidActionsAreHonest, SMTT(60) DEF RaidOutcome, RaidCommands
  <2>3. QED  BY <2>1, <2>2, Zenon
<1>3. CASE c \in LifecycleCommands
  <2>1. OutcomeOf(c, a, seen) = LifecycleOutcome(c, a, seen)
    BY FamiliesAreApart, <1>3, Zenon DEF OutcomeOf
  <2>2. Honest(c, a, LifecycleOutcome(c, a, seen))
    BY <1>3, LifecycleActionsAreHonest, SMTT(60) DEF LifecycleOutcome, LifecycleCommands
  <2>3. QED  BY <2>1, <2>2, Zenon
<1>4. CASE c \in CardCommands
  <2>1. OutcomeOf(c, a, seen) = CardOutcome(c, a, seen)
    BY FamiliesAreApart, <1>4, Zenon DEF OutcomeOf
  <2>2. Honest(c, a, CardOutcome(c, a, seen))
    BY <1>4, CardActionsAreHonest, SMTT(60) DEF CardOutcome, CardCommands
  <2>3. QED  BY <2>1, <2>2, Zenon
<1>5. CASE c \in StandardCommands
  <2>1. OutcomeOf(c, a, seen) = StandardOutcome(c, a, seen)
    BY FamiliesAreApart, <1>5, Zenon DEF OutcomeOf
  <2>2. a \in StandardArgs(c)
    BY FamiliesAreApart, <1>5, Zenon DEF ArgsOf
  <2>3. c = "DellMetricActions" => a \in DellMetricActions_args
    BY <2>2, SMTT(60) DEF StandardArgs
  <2>4. Honest(c, a, StandardOutcome(c, a, seen))
    BY <1>5, <2>3, StandardActionsAreHonest, MetricActionsAreHonest, SMTT(60)
       DEF StandardOutcome, StandardCommands
  <2>5. QED  BY <2>1, <2>4, Zenon
<1>6. CASE c \in ResourceCommands
  <2>1. OutcomeOf(c, a, seen) = ResourceOutcome(c, a, seen)
    BY FamiliesAreApart, <1>6, Zenon DEF OutcomeOf
  <2>2. Honest(c, a, ResourceOutcome(c, a, seen))
    BY <1>6, ResourceActionsAreHonest, SMTT(60) DEF ResourceOutcome, ResourceCommands
  <2>3. QED  BY <2>1, <2>2, Zenon
<1>7. QED  BY <1>2, <1>3, <1>4, <1>5, <1>6, Zenon DEF Commands
-----------------------------------------------------------------------------
\* The inductive invariant.  Until the POST nothing has been said or sent, and
\* the call of invoke_action is one that the user's arguments justify; at the
\* POST the gate has let the action found through.
Unsent == {"idle", "start", "read", "gate", "post"}

GuardInv ==
    /\ pc \in Unsent \cup {"follow", "done"}
    /\ pc # "idle" => cmd \in Commands /\ args \in ArgsOf[cmd] /\ manager \in ManagersOf(cmd)
    /\ pc \in {"read", "gate", "post"} => IsCall(call) /\ Faithful(cmd, args, call)
    /\ pc \in {"gate", "post"} => full \in {call.op, Homonym}
    /\ pc = "post" => ~call.dry /\ (~Blocked(full) \/ classify(full) = "read_only")
    /\ pc \in Unsent => posts = <<>> /\ result = None
    /\ pc = "follow" =>
          cmd = "RebootHost" /\ \E i \in DOMAIN posts : posts[i].taken
    /\ PostsAreAuthorized
    /\ NoMaskedPayloadIsSent
    /\ ReportIsTrue

\* A command starts with nothing sent and nothing reported.
LEMMA GuardInvInit == Init => GuardInv
  BY DEF Init, GuardInv, Unsent, PostsAreAuthorized, NoMaskedPayloadIsSent,
     ReportIsTrue, None

\* As long as nothing is sent and nothing is said to be executed, there is
\* nothing to object to.
LEMMA NothingSent ==
    ASSUME posts' = <<>>, result' # "executed"
    PROVE  PostsAreAuthorized' /\ NoMaskedPayloadIsSent' /\ ReportIsTrue'
<1>1. DOMAIN posts' = {} /\ Len(posts') = 0
  BY SMTT(60)
<1>2. QED
  BY <1>1 DEF PostsAreAuthorized, NoMaskedPayloadIsSent, ReportIsTrue

\* A command takes an action for accepted only if the BMC took it.  It hears of
\* every one that the BMC took but for the reply that names nothing, at which
\* IDracManager throws; DellRaidCheckValues, which reads its reply itself, is a
\* command of that manager.
LEMMA HeardIsTrue ==
    ASSUME NEW r \in Replies, manager \in ManagersOf(cmd)
    PROVE  /\ Heard(r) \notin {"raised", "error"} => Success(r.status)
           /\ Success(r.status) =>
                 \/ Heard(r) \notin {"raised", "error"}
                 \/ /\ Heard(r) = "raised" /\ manager = "IDracManager"
                    /\ ~(r.status \in {201, 202} => r.location \/ r.job)
<1>1. /\ r.status \in Statuses /\ r.location \in BOOLEAN /\ r.job \in BOOLEAN
      /\ r.location => r.status \in {201, 202}
      /\ r.job => r.status = 202
  BY DEF Replies
<1>2. manager \in {"IDracManager", "RedfishManager"}
  BY DEF ManagersOf
<1>3. cmd = "DellRaidCheckValues" => manager = "IDracManager"
  BY SMTT(60) DEF ManagersOf, DellActions, SharedActions, HpeAndSmcActions, Commands, RaidCommands
<1>4. read_api_respond(r) \in {"accepted", "created", "ok", "error", "raised"}
  BY DEF read_api_respond
<1>5. /\ read_api_respond(r) \in {"accepted", "created", "ok"} <=> Success(r.status)
      /\ read_api_respond(r) = "created" => r.status = 201 /\ ~r.location /\ ~r.job
      /\ read_api_respond(r) = "accepted" => r.status \in {201, 202}
  BY <1>1, SMTT(60) DEF read_api_respond, Statuses, Success
<1>6. /\ RedfishManager_respond(r) \in {"ok", "accepted"} <=> Success(r.status)
      /\ RedfishManager_respond(r) \in {"ok", "accepted", "error", "raised"}
  BY <1>1, SMTT(60) DEF RedfishManager_respond, default_error_handler, Statuses, Success
<1>7. /\ IDracManager_respond(r) \in {"ok", "accepted"} =>  Success(r.status)
      /\ IDracManager_respond(r) \in {"ok", "accepted", "error", "raised"}
      /\ Success(r.status) =>
            \/ IDracManager_respond(r) \in {"ok", "accepted"}
            \/ /\ IDracManager_respond(r) = "raised"
               /\ ~(r.status \in {201, 202} => r.location \/ r.job)
  BY <1>1, <1>4, <1>5, SMTT(60) DEF IDracManager_respond
<1>8. CASE cmd = "DellRaidCheckValues" /\ ~args.async
  BY <1>3, <1>4, <1>5, <1>7, <1>8, SMTT(60) DEF Heard, _invoke_sync
<1>9. CASE ~(cmd = "DellRaidCheckValues" /\ ~args.async)
  BY <1>2, <1>6, <1>7, <1>9, SMTT(60) DEF Heard, base_request_respond
<1>10. QED  BY <1>8, <1>9

\* Every step of the command keeps what is sent within what the user said.
LEMMA GuardInvStep == GuardInv /\ [Next]_vars => GuardInv'
<1> SUFFICES ASSUME GuardInv, [Next]_vars PROVE GuardInv'
  BY SMTT(60)
<1> USE DEF GuardInv, Unsent
<1>1. CASE Execute
  <2>1. PICK site \in SitesOf(cmd, args), lost \in SUBSET (Services \cup {Root}) :
           LET o == OutcomeOf(cmd, args, RowsOf(cmd, args, site, lost)) IN
           /\ call' = o.call
           /\ IF o.kind = "call" THEN pc' = "read" /\ UNCHANGED result ELSE Finish(o.kind)
    BY <1>1, SMTT(60) DEF Execute
  <2> DEFINE o == OutcomeOf(cmd, args, RowsOf(cmd, args, site, lost))
  <2>2. Honest(cmd, args, o)
    BY <1>1, CommandsAreHonest, SMTT(60) DEF Execute
  <2>3. /\ call' = o.call
        /\ IF o.kind = "call" THEN pc' = "read" /\ UNCHANGED result ELSE Finish(o.kind)
    BY <2>1, SMTT(60)
  <2> HIDE DEF o
  <2>4. /\ pc = "start" /\ posts' = <<>> /\ result = None
        /\ cmd' = cmd /\ args' = args /\ cmd \in Commands /\ args \in ArgsOf[cmd]
        /\ manager' = manager /\ manager \in ManagersOf(cmd)
    BY <1>1, SMTT(60) DEF Execute
  <2>5. CASE o.kind = "call"
    <3>1. IsCall(call') /\ Faithful(cmd', args', call')
      BY <2>2, <2>3, <2>4, <2>5, SMTT(60) DEF Honest
    <3>2. pc' = "read" /\ result' = None
      BY <2>3, <2>4, <2>5, SMTT(60)
    <3>3. PostsAreAuthorized' /\ NoMaskedPayloadIsSent' /\ ReportIsTrue'
      BY <2>4, <3>2, NothingSent, SMTT(60) DEF None
    <3>4. QED  BY <2>4, <3>1, <3>2, <3>3, SMTT(60)
  <2>6. CASE o.kind # "call"
    <3>1. pc' = "done" /\ result' \in {"shown", "failed", "raised"}
      BY <2>2, <2>3, <2>6, SMTT(60) DEF Honest, Finish
    <3>2. PostsAreAuthorized' /\ NoMaskedPayloadIsSent' /\ ReportIsTrue'
      BY <2>4, <3>1, NothingSent, SMTT(60)
    <3>3. QED  BY <2>4, <3>1, <3>2, SMTT(60)
  <2>7. QED  BY <2>5, <2>6, SMTT(60)
<1>2. CASE ResolveTarget
  <2>1. PostsAreAuthorized' /\ NoMaskedPayloadIsSent' /\ ReportIsTrue'
    BY <1>2, NothingSent, SMTT(60) DEF ResolveTarget, Finish, None
  <2>2. QED  BY <1>2, <2>1, SMTT(60) DEF ResolveTarget, Finish, None
<1>3. CASE RejectPayload
  <2>1. PostsAreAuthorized' /\ NoMaskedPayloadIsSent' /\ ReportIsTrue'
    BY <1>3, NothingSent, SMTT(60) DEF RejectPayload, Finish
  <2>2. QED  BY <1>3, <2>1, SMTT(60) DEF RejectPayload, Finish
<1>4. CASE LetThrough
  <2>1. PostsAreAuthorized' /\ NoMaskedPayloadIsSent' /\ ReportIsTrue'
    BY <1>4, NothingSent, SMTT(60) DEF LetThrough, None
  <2>2. QED  BY <1>4, <2>1, SMTT(60) DEF LetThrough, effective_dry, Blocked
<1>5. CASE Preview
  <2>1. PostsAreAuthorized' /\ NoMaskedPayloadIsSent' /\ ReportIsTrue'
    BY <1>5, NothingSent, ZenonT(60) DEF Preview, Finish
  <2>2. QED  BY <1>5, <2>1, SMTT(60) DEF Preview, Finish
<1>6. CASE FollowPreview
  <2>1. PostsAreAuthorized' /\ NoMaskedPayloadIsSent' /\ ReportIsTrue'
    BY <1>6, NothingSent, SMTT(60) DEF FollowPreview, Finish, None
  <2>2. QED
    BY <1>6, <2>1 DEF FollowPreview, Finish, IsCall, Faithful, Blocked
<1>7. CASE Post
  <2>1. PICK r \in Replies :
           /\ Record(r)
           /\ CASE Heard(r) = "raised" -> Finish("raised")
                [] Heard(r) = "error" -> Finish("failed")
                [] OTHER -> IF cmd = "RebootHost"
                            THEN pc' = "follow" /\ UNCHANGED result
                            ELSE Finish("executed")
    BY <1>7, ZenonT(60) DEF Post
  <2>2. /\ pc = "post" /\ posts = <<>> /\ result = None
        /\ UNCHANGED <<manager, cmd, args, call, full>>
        /\ manager \in ManagersOf(cmd)
    BY <1>7, SMTT(60) DEF Post
  <2>3. Authorized(full)
    BY <2>2, SMTT(60) DEF Faithful, Blocked, Authorized
  <2>4. ~call.masked
    <3>1. classify(Homonym) = "destructive"
      BY SMTT(60) DEF Homonym, classify, READ_ONLY, REVERSIBLE, IRREVERSIBLE
    <3>2. QED  BY <2>2, <3>1, SMTT(60) DEF Faithful, Blocked
  <2> DEFINE named == r.status \in {201, 202} => r.location \/ r.job
             post == [type |-> full, masked |-> call.masked, taken |-> Success(r.status),
                      named |-> named]
  <2>5. /\ posts' = <<post>>
        /\ post.type = full /\ post.masked = call.masked
        /\ post.taken = Success(r.status) /\ post.named = named
    BY <2>1, <2>2, SMTT(60) DEF Record
  <2> HIDE DEF post, named
  <2>6. /\ DOMAIN posts' = {1} /\ Len(posts') = 1 /\ posts' # <<>>
        /\ posts'[1].type = full /\ posts'[1].masked = call.masked
        /\ posts'[1].taken = Success(r.status) /\ posts'[1].named = named
    BY <2>5, SMTT(60)
  <2>7. PostsAreAuthorized'
    BY <2>2, <2>3, <2>6, SMTT(60) DEF PostsAreAuthorized, Authorized
  <2>8. NoMaskedPayloadIsSent'
    BY <2>4, <2>6, SMTT(60) DEF NoMaskedPayloadIsSent
  <2>9. /\ Heard(r) \notin {"raised", "error"} => Success(r.status)
        /\ Success(r.status) =>
              \/ Heard(r) \notin {"raised", "error"}
              \/ Heard(r) = "raised" /\ manager = "IDracManager" /\ ~named
    BY <2>2, HeardIsTrue DEF named
  <2>10. ReportIsTrue' /\ (pc' = "follow" => cmd' = "RebootHost" /\ posts'[1].taken)
    <3>1. CASE Heard(r) = "raised"
      <4>1. pc' = "done" /\ result' = "raised"
        BY <2>1, <3>1, ZenonT(60) DEF Finish
      <4> QED BY <2>2, <2>6, <2>9, <3>1, <4>1, SMTT(60) DEF ReportIsTrue
    <3>2. CASE Heard(r) = "error"
      <4>1. pc' = "done" /\ result' = "failed"
        BY <2>1, <3>2, SMTT(60) DEF Finish
      <4> QED BY <2>2, <2>6, <2>9, <3>2, <4>1, SMTT(60) DEF ReportIsTrue
    <3>3. CASE Heard(r) \notin {"raised", "error"}
      <4>1. IF cmd = "RebootHost" THEN pc' = "follow" /\ UNCHANGED result ELSE Finish("executed")
        BY <2>1, <3>3, SMTT(60)
      <4> QED BY <2>2, <2>6, <2>9, <3>3, <4>1, SMTT(60) DEF ReportIsTrue, Finish, None
    <3> QED BY <3>1, <3>2, <3>3, Zenon
  <2>11. pc' \in {"follow", "done"}
    BY <2>1, SMTT(60) DEF Finish
  <2>12. QED
    BY <2>2, <2>6, <2>7, <2>8, <2>10, <2>11, SMTT(60)
<1>8. CASE FollowReboot
  BY <1>8, SMTT(60)
     DEF FollowReboot, Finish, PostsAreAuthorized, Authorized, NoMaskedPayloadIsSent,
              ReportIsTrue, None
<1>9. CASE UNCHANGED vars
  BY <1>9
     DEF vars, Blocked, PostsAreAuthorized, Authorized, NoMaskedPayloadIsSent,
         ReportIsTrue
<1>10. QED
  BY <1>1, <1>2, <1>3, <1>4, <1>5, <1>6, <1>7, <1>8, <1>9, ZenonT(60) DEF Next

-----------------------------------------------------------------------------
(* What the parsers admit. *)

\* The commands on which a resource can be named, the ones that rely on the
\* policy to let all their actions pass, and those of them that only list what
\* there is unless an action is selected.
Picking ==
    {"DellRaidBlink", "DellRaidCancelActions", "DellLcAutoDiscovery",
     "DellLcClearProvisioningServer", "DellLcIsmInstaller", "DellLcOsHealthUpdate",
     "DellLcSupportAssistSchedule", "DellLcSupportAssistStatus", "DellCardCertExport",
     "DellCardCsr", "DellCardGroupActions", "DellCardHwProof",
     "DellCardKeyManagement", "DellCardSekmTest", "DellCardTestActions",
     "DellPersistentInitializeMedia", "HpeChassisActions", "HpeTestActions",
     "NvidiaDebugToken", "SmcNodeManagerClearPolicies", "DellMetricActions",
     "DellSwitchPortRefresh", "NetworkAdapterReset", "SecureBootResetKeys",
     "LogClear", "LogCollectDiagnosticData", "ControlResetDefaults",
     "SpdmMeasurements", "DriveSecureErase", "DellSystemLcdErrors",
     "DellBiosDeviceRecovery", "DellSoftwareUpdateSchedule"}
Mild ==
    {"DellRaidCheckValues", "DellLcSupportAssistStatus", "CertificateGenerateCSR",
     "SpdmMeasurements", "EventSubmitTest", "DellCardCertExport"}
Listing == {"DellLcSupportAssistStatus", "DellCardCertExport"}

\* The arguments of a command: a resource is named only where there is an option
\* for it, an irreversible action is selected only where there is a token, and
\* the options that the policy asks for can be given.
Known(c, A) ==
    \A a \in A :
       /\ a.pick \in {None} \cup Services
       /\ a.pick = None \/ c \in Picking
       /\ a.op \notin IRREVERSIBLE \/ c \in Tokened
       /\ c \in Mild => a.op \in {None} \cup READ_ONLY \cup REVERSIBLE
       /\ c \in Mild /\ a.op = None => c \in Listing
       /\ c \in Unconfirmed \/ \E b \in A : b.confirm
       /\ c \in Tokened => \E b \in A : b.token

\* The options decide that.
LEMMA OptionsDecide ==
    ASSUME NEW c, NEW ops, NEW opts,
           "pick" \in opts => c \in Picking,
           "confirm" \in opts \/ c \in Unconfirmed,
           c \in Tokened => "token" \in opts,
           c \in Tokened \/ \A op \in ops : op \notin IRREVERSIBLE,
           c \in Mild => ops \subseteq {None} \cup READ_ONLY \cup REVERSIBLE,
           c \in Mild /\ None \in ops => c \in Listing
    PROVE  Known(c, Arguments(ops, opts)) /\ Known(c, Requiring(Arguments(ops, opts)))
<1> DEFINE A == Arguments(ops, opts)
<1>1. ASSUME NEW a \in A
      PROVE  /\ a.pick \in {None} \cup Services
             /\ a.pick = None \/ "pick" \in opts
             /\ a.op \in ops
             /\ a.confirm \in BOOLEAN /\ a.token \in BOOLEAN
  BY Zenon, <1>1 DEF Arguments, Flag
<1>2. ASSUME NEW a \in A, "confirm" \in opts
      PROVE  \E b \in A : b.confirm /\ b.given = a.given /\ b.filled = a.filled
  <2> DEFINE b == [a EXCEPT !.confirm = TRUE]
  <2>1. b \in A /\ b.confirm /\ b.given = a.given /\ b.filled = a.filled
    BY Zenon, <1>2 DEF Arguments, Flag
  <2> QED BY Zenon, <2>1
<1>3. ASSUME NEW a \in A, "token" \in opts
      PROVE  \E b \in A : b.token /\ b.given = a.given /\ b.filled = a.filled
  <2> DEFINE b == [a EXCEPT !.token = TRUE]
  <2>1. b \in A /\ b.token /\ b.given = a.given /\ b.filled = a.filled
    BY Zenon, <1>3 DEF Arguments, Flag
  <2> QED BY Zenon, <2>1
<1> HIDE DEF A
<1>4. Known(c, A)
  BY <1>1, <1>2, <1>3 DEF Known
<1>5. Known(c, Requiring(A))
  <2>1. ASSUME NEW a \in Requiring(A) PROVE a \in A /\ (a.filled => a.given)
    BY <2>1, Zenon DEF Requiring
  <2>2. ASSUME NEW a \in Requiring(A), NEW b \in A,
               b.given = a.given, b.filled = a.filled
        PROVE  b \in Requiring(A)
    BY <2>1, <2>2, Zenon DEF Requiring
  <2>3. ASSUME NEW a \in Requiring(A)
        PROVE  c \in Unconfirmed \/ \E b \in Requiring(A) : b.confirm
    BY <1>2, <2>1, <2>2, <2>3, Zenon
  <2>4. ASSUME NEW a \in Requiring(A)
        PROVE  c \in Tokened => \E b \in Requiring(A) : b.token
    BY <1>3, <2>1, <2>2, <2>4, Zenon
  <2> QED BY <1>1, <2>1, <2>3, <2>4 DEF Known
<1> QED BY <1>4, <1>5 DEF A

\* The parsers of the commands of the Dell RAID service.
LEMMA RaidParsers ==
    /\ Known("DellRaidBlink", DellRaidBlink_args)
    /\ Known("DellRaidCancelActions", DellRaidCancelActions_args)
    /\ Known("DellRaidCheckValues", DellRaidCheckValues_args)
    /\ Known("DellRaidClearActions", DellRaidClearActions_args)
    /\ Known("DellRaidConfigActions", DellRaidConfigActions_args)
    /\ Known("DellRaidForeignConfigActions", DellRaidForeignConfigActions_args)
    /\ Known("DellRaidRenameVD", DellRaidRenameVD_args)
    /\ Known("DellRaidSpareActions", DellRaidSpareActions_args)
    /\ Known("DellRaidPhysicalDiskActions", DellRaidPhysicalDiskActions_args)
    /\ Known("DellRaidPatrolRead", DellRaidPatrolRead_args)
<1>1. Known("DellRaidBlink", DellRaidBlink_args)
  BY OptionsDecide
     DEF DellRaidBlink_args, Picking, Unconfirmed, Tokened, Mild, Listing, None,
         Unknown,
     IRREVERSIBLE
<1>2. Known("DellRaidCancelActions", DellRaidCancelActions_args)
  BY OptionsDecide
     DEF DellRaidCancelActions_args, Picking, Unconfirmed, Tokened, Mild, Listing,
         None, Unknown,
     IRREVERSIBLE
<1>3. Known("DellRaidCheckValues", DellRaidCheckValues_args)
  BY OptionsDecide
     DEF DellRaidCheckValues_args, Picking, Unconfirmed, Tokened, Mild, Listing, None,
         Unknown,
     IRREVERSIBLE, READ_ONLY, REVERSIBLE
<1>4. Known("DellRaidClearActions", DellRaidClearActions_args)
  BY OptionsDecide
     DEF DellRaidClearActions_args, Picking, Unconfirmed, Tokened, Mild, Listing, None,
         Unknown
<1>5. Known("DellRaidConfigActions", DellRaidConfigActions_args)
  BY OptionsDecide
     DEF DellRaidConfigActions_args, Picking, Unconfirmed, Tokened, Mild, Listing,
         None, Unknown,
     IRREVERSIBLE
<1>6. Known("DellRaidForeignConfigActions", DellRaidForeignConfigActions_args)
  BY OptionsDecide
     DEF DellRaidForeignConfigActions_args, Picking, Unconfirmed, Tokened, Mild,
         Listing, None, Unknown
<1>7. Known("DellRaidRenameVD", DellRaidRenameVD_args)
  BY OptionsDecide
     DEF DellRaidRenameVD_args, Picking, Unconfirmed, Tokened, Mild, Listing, None,
         Unknown,
     IRREVERSIBLE
<1>8. Known("DellRaidSpareActions", DellRaidSpareActions_args)
  BY OptionsDecide
     DEF DellRaidSpareActions_args, Picking, Unconfirmed, Tokened, Mild, Listing, None,
         Unknown,
     IRREVERSIBLE
<1>9. Known("DellRaidPhysicalDiskActions", DellRaidPhysicalDiskActions_args)
  BY OptionsDecide
     DEF DellRaidPhysicalDiskActions_args, Picking, Unconfirmed, Tokened, Mild,
         Listing, None, Unknown,
     IRREVERSIBLE
<1>10. Known("DellRaidPatrolRead", DellRaidPatrolRead_args)
  BY OptionsDecide
     DEF DellRaidPatrolRead_args, Picking, Unconfirmed, Tokened, Mild, Listing, None,
         Unknown,
     IRREVERSIBLE
<1> QED
  BY <1>1, <1>2, <1>3, <1>4, <1>5, <1>6, <1>7, <1>8, <1>9, <1>10

\* The parsers of the commands of the Dell lifecycle controller.
LEMMA LifecycleParsers ==
    /\ Known("DellLcAutoDiscovery", DellLcAutoDiscovery_args)
    /\ Known("DellLcClearProvisioningServer", DellLcClearProvisioningServer_args)
    /\ Known("DellLcExport", DellLcExport_args)
    /\ Known("DellLcIsmInstaller", DellLcIsmInstaller_args)
    /\ Known("DellLcLogComment", DellLcLogComment_args)
    /\ Known("DellLcNetworkShareTest", DellLcNetworkShareTest_args)
    /\ Known("DellLcOsHealthUpdate", DellLcOsHealthUpdate_args)
    /\ Known("DellLcSupportAssistExport", DellLcSupportAssistExport_args)
    /\ Known("DellLcSupportAssistSchedule", DellLcSupportAssistSchedule_args)
    /\ Known("DellLcSupportAssistStatus", DellLcSupportAssistStatus_args)
<1>1. Known("DellLcAutoDiscovery", DellLcAutoDiscovery_args)
  BY OptionsDecide
     DEF DellLcAutoDiscovery_args, Picking, Unconfirmed, Tokened, Mild, Listing, None,
         Unknown,
     IRREVERSIBLE
<1>2. Known("DellLcClearProvisioningServer", DellLcClearProvisioningServer_args)
  BY OptionsDecide
     DEF DellLcClearProvisioningServer_args, Picking, Unconfirmed, Tokened, Mild,
         Listing, None, Unknown,
     IRREVERSIBLE
<1>3. Known("DellLcExport", DellLcExport_args)
  BY OptionsDecide
     DEF DellLcExport_args, Picking, Unconfirmed, Tokened, Mild, Listing, None, Unknown,
     IRREVERSIBLE
<1>4. Known("DellLcIsmInstaller", DellLcIsmInstaller_args)
  BY OptionsDecide
     DEF DellLcIsmInstaller_args, Picking, Unconfirmed, Tokened, Mild, Listing, None,
         Unknown,
     IRREVERSIBLE
<1>5. Known("DellLcLogComment", DellLcLogComment_args)
  BY OptionsDecide
     DEF DellLcLogComment_args, Picking, Unconfirmed, Tokened, Mild, Listing, None,
         Unknown,
     IRREVERSIBLE
<1>6. Known("DellLcNetworkShareTest", DellLcNetworkShareTest_args)
  BY OptionsDecide
     DEF DellLcNetworkShareTest_args, Picking, Unconfirmed, Tokened, Mild, Listing,
         None, Unknown,
     IRREVERSIBLE
<1>7. Known("DellLcOsHealthUpdate", DellLcOsHealthUpdate_args)
  BY OptionsDecide
     DEF DellLcOsHealthUpdate_args, Picking, Unconfirmed, Tokened, Mild, Listing, None,
         Unknown,
     IRREVERSIBLE
<1>8. Known("DellLcSupportAssistExport", DellLcSupportAssistExport_args)
  BY OptionsDecide
     DEF DellLcSupportAssistExport_args, Picking, Unconfirmed, Tokened, Mild, Listing,
         None, Unknown,
     IRREVERSIBLE
<1>9. Known("DellLcSupportAssistSchedule", DellLcSupportAssistSchedule_args)
  BY OptionsDecide
     DEF DellLcSupportAssistSchedule_args, Picking, Unconfirmed, Tokened, Mild,
         Listing, None, Unknown,
     IRREVERSIBLE
<1>10. Known("DellLcSupportAssistStatus", DellLcSupportAssistStatus_args)
  BY OptionsDecide
     DEF DellLcSupportAssistStatus_args, Picking, Unconfirmed, Tokened, Mild, Listing,
         None, Unknown,
     IRREVERSIBLE, READ_ONLY, REVERSIBLE
<1> QED
  BY <1>1, <1>2, <1>3, <1>4, <1>5, <1>6, <1>7, <1>8, <1>9, <1>10

\* The parsers of the commands of the Dell cards and the other vendors.
LEMMA CardParsers ==
    /\ Known("DellCardCertExport", DellCardCertExport_args)
    /\ Known("DellCardCsr", DellCardCsr_args)
    /\ Known("DellCardGroupActions", DellCardGroupActions_args)
    /\ Known("DellCardHwProof", DellCardHwProof_args)
    /\ Known("DellCardKeyManagement", DellCardKeyManagement_args)
    /\ Known("DellCardSekmTest", DellCardSekmTest_args)
    /\ Known("DellCardTestActions", DellCardTestActions_args)
    /\ Known("DellPersistentInitializeMedia", DellPersistentInitializeMedia_args)
    /\ Known("DellPersistentPartitionActions", DellPersistentPartitionActions_args)
    /\ Known("DellVFlashStateChange", DellVFlashStateChange_args)
    /\ Known("HpeChassisActions", HpeChassisActions_args)
    /\ Known("HpeKerberosKeytabImport", HpeKerberosKeytabImport_args)
    /\ Known("HpeTestActions", HpeTestActions_args)
    /\ Known("NvidiaDebugToken", NvidiaDebugToken_args)
    /\ Known("SmcNodeManagerClearPolicies", SmcNodeManagerClearPolicies_args)
<1>1. Known("DellCardCertExport", DellCardCertExport_args)
  BY OptionsDecide
     DEF DellCardCertExport_args, Picking, Unconfirmed, Tokened, Mild, Listing, None,
         Unknown,
     IRREVERSIBLE, READ_ONLY, REVERSIBLE
<1>2. Known("DellCardCsr", DellCardCsr_args)
  BY OptionsDecide
     DEF DellCardCsr_args, Picking, Unconfirmed, Tokened, Mild, Listing, None, Unknown,
     IRREVERSIBLE
<1>3. Known("DellCardGroupActions", DellCardGroupActions_args)
  BY OptionsDecide
     DEF DellCardGroupActions_args, Picking, Unconfirmed, Tokened, Mild, Listing, None,
         Unknown,
     IRREVERSIBLE
<1>4. Known("DellCardHwProof", DellCardHwProof_args)
  BY OptionsDecide
     DEF DellCardHwProof_args, Picking, Unconfirmed, Tokened, Mild, Listing, None,
         Unknown,
     IRREVERSIBLE
<1>5. Known("DellCardKeyManagement", DellCardKeyManagement_args)
  BY OptionsDecide
     DEF DellCardKeyManagement_args, Picking, Unconfirmed, Tokened, Mild, Listing,
         None, Unknown,
     IRREVERSIBLE
<1>6. Known("DellCardSekmTest", DellCardSekmTest_args)
  BY OptionsDecide
     DEF DellCardSekmTest_args, Picking, Unconfirmed, Tokened, Mild, Listing, None,
         Unknown,
     IRREVERSIBLE
<1>7. Known("DellCardTestActions", DellCardTestActions_args)
  BY OptionsDecide
     DEF DellCardTestActions_args, Picking, Unconfirmed, Tokened, Mild, Listing, None,
         Unknown,
     IRREVERSIBLE
<1>8. Known("DellPersistentInitializeMedia", DellPersistentInitializeMedia_args)
  BY OptionsDecide
     DEF DellPersistentInitializeMedia_args, Picking, Unconfirmed, Tokened, Mild,
         Listing, None, Unknown
<1>9. Known("DellPersistentPartitionActions", DellPersistentPartitionActions_args)
  BY OptionsDecide
     DEF DellPersistentPartitionActions_args, Picking, Unconfirmed, Tokened, Mild,
         Listing, None, Unknown
<1>10. Known("DellVFlashStateChange", DellVFlashStateChange_args)
  BY OptionsDecide
     DEF DellVFlashStateChange_args, Picking, Unconfirmed, Tokened, Mild, Listing,
         None, Unknown,
     IRREVERSIBLE
<1>11. Known("HpeChassisActions", HpeChassisActions_args)
  BY OptionsDecide
     DEF HpeChassisActions_args, Picking, Unconfirmed, Tokened, Mild, Listing, None,
         Unknown,
     IRREVERSIBLE
<1>12. Known("HpeKerberosKeytabImport", HpeKerberosKeytabImport_args)
  BY OptionsDecide
     DEF HpeKerberosKeytabImport_args, Picking, Unconfirmed, Tokened, Mild, Listing,
         None, Unknown,
     IRREVERSIBLE
<1>13. Known("HpeTestActions", HpeTestActions_args)
  BY OptionsDecide
     DEF HpeTestActions_args, Picking, Unconfirmed, Tokened, Mild, Listing, None,
         Unknown,
     IRREVERSIBLE
<1>14. Known("NvidiaDebugToken", NvidiaDebugToken_args)
  BY OptionsDecide
     DEF NvidiaDebugToken_args, Picking, Unconfirmed, Tokened, Mild, Listing, None,
         Unknown,
     IRREVERSIBLE
<1>15. Known("SmcNodeManagerClearPolicies", SmcNodeManagerClearPolicies_args)
  BY OptionsDecide
     DEF SmcNodeManagerClearPolicies_args, Picking, Unconfirmed, Tokened, Mild,
         Listing, None, Unknown,
     IRREVERSIBLE
<1> QED
  BY <1>1, <1>2, <1>3, <1>4, <1>5, <1>6, <1>7, <1>8, <1>9, <1>10, <1>11,
     <1>12, <1>13, <1>14, <1>15

\* The parsers of the commands on resources that are discovered.
LEMMA StandardParsers ==
    /\ Known("DellLicenseActions", DellLicenseActions_args)
    /\ Known("LicenseInstall", LicenseInstall_args)
    /\ Known("DellMetricActions", DellMetricActions_args)
    /\ Known("DellSwitchPortRefresh", DellSwitchPortRefresh_args)
    /\ Known("NetworkAdapterReset", NetworkAdapterReset_args)
    /\ Known("WorkloadPower", WorkloadPower_args)
    /\ Known("PowerSmoothingAction", PowerSmoothingAction_args)
    /\ Known("CertificateGenerateCSR", CertificateGenerateCSR_args)
    /\ Known("SecureBootResetKeys", SecureBootResetKeys_args)
    /\ Known("LogClear", LogClear_args)
    /\ Known("LogCollectDiagnosticData", LogCollectDiagnosticData_args)
<1>1. Known("DellLicenseActions", DellLicenseActions_args)
  BY OptionsDecide
     DEF DellLicenseActions_args, Picking, Unconfirmed, Tokened, Mild, Listing, None,
         Unknown,
     IRREVERSIBLE
<1>2. Known("LicenseInstall", LicenseInstall_args)
  BY OptionsDecide
     DEF LicenseInstall_args, Picking, Unconfirmed, Tokened, Mild, Listing, None,
         Unknown,
     IRREVERSIBLE
<1>3. Known("DellMetricActions", DellMetricActions_args)
  BY OptionsDecide
     DEF DellMetricActions_args, Picking, Unconfirmed, Tokened, Mild, Listing, None,
         Unknown,
     IRREVERSIBLE
<1>4. Known("DellSwitchPortRefresh", DellSwitchPortRefresh_args)
  BY OptionsDecide
     DEF DellSwitchPortRefresh_args, Picking, Unconfirmed, Tokened, Mild, Listing,
         None, Unknown,
     IRREVERSIBLE
<1>5. Known("NetworkAdapterReset", NetworkAdapterReset_args)
  BY OptionsDecide
     DEF NetworkAdapterReset_args, Picking, Unconfirmed, Tokened, Mild, Listing, None,
         Unknown,
     IRREVERSIBLE
<1>6. Known("WorkloadPower", WorkloadPower_args)
  BY OptionsDecide
     DEF WorkloadPower_args, Picking, Unconfirmed, Tokened, Mild, Listing, None,
         Unknown,
     IRREVERSIBLE
<1>7. Known("PowerSmoothingAction", PowerSmoothingAction_args)
  BY OptionsDecide
     DEF PowerSmoothingAction_args, Picking, Unconfirmed, Tokened, Mild, Listing, None,
         Unknown,
     IRREVERSIBLE
<1>8. Known("CertificateGenerateCSR", CertificateGenerateCSR_args)
  BY OptionsDecide
     DEF CertificateGenerateCSR_args, Picking, Unconfirmed, Tokened, Mild, Listing,
         None, Unknown,
     IRREVERSIBLE, READ_ONLY, REVERSIBLE
<1>9. Known("SecureBootResetKeys", SecureBootResetKeys_args)
  BY OptionsDecide
     DEF SecureBootResetKeys_args, Picking, Unconfirmed, Tokened, Mild, Listing, None,
         Unknown,
     IRREVERSIBLE
<1>10. Known("LogClear", LogClear_args)
  BY OptionsDecide
     DEF LogClear_args, Picking, Unconfirmed, Tokened, Mild, Listing, None, Unknown,
     IRREVERSIBLE
<1>11. Known("LogCollectDiagnosticData", LogCollectDiagnosticData_args)
  BY OptionsDecide
     DEF LogCollectDiagnosticData_args, Picking, Unconfirmed, Tokened, Mild, Listing,
         None, Unknown,
     IRREVERSIBLE
<1> QED
  BY <1>1, <1>2, <1>3, <1>4, <1>5, <1>6, <1>7, <1>8, <1>9, <1>10, <1>11

\* The parsers of the commands on resources that are named or well known.
LEMMA ResourceParsers ==
    /\ Known("ControlResetDefaults", ControlResetDefaults_args)
    /\ Known("SpdmMeasurements", SpdmMeasurements_args)
    /\ Known("DriveSecureErase", DriveSecureErase_args)
    /\ Known("DellSystemLcdErrors", DellSystemLcdErrors_args)
    /\ Known("DellBiosDeviceRecovery", DellBiosDeviceRecovery_args)
    /\ Known("BiosResetDefault", BiosResetDefault_args)
    /\ Known("DellSoftwareUpdateSchedule", DellSoftwareUpdateSchedule_args)
    /\ Known("VolumeCheckConsistency", VolumeCheckConsistency_args)
    /\ Known("DellJobQueueSetup", DellJobQueueSetup_args)
    /\ Known("SystemReset", SystemReset_args)
    /\ Known("RebootHost", RebootHost_args)
    /\ Known("UpdateStart", UpdateStart_args)
    /\ Known("EventSubmitTest", EventSubmitTest_args)
    /\ Known("TelemetryClearReports", TelemetryClearReports_args)
    /\ Known("TelemetryResetMetricDefinitions", TelemetryResetMetricDefinitions_args)
    /\ Known("TelemetrySubmitTest", TelemetrySubmitTest_args)
<1>1. Known("ControlResetDefaults", ControlResetDefaults_args)
  BY OptionsDecide
     DEF ControlResetDefaults_args, Picking, Unconfirmed, Tokened, Mild, Listing, None,
         Unknown,
     IRREVERSIBLE
<1>2. Known("SpdmMeasurements", SpdmMeasurements_args)
  BY OptionsDecide
     DEF SpdmMeasurements_args, Picking, Unconfirmed, Tokened, Mild, Listing, None,
         Unknown,
     IRREVERSIBLE, READ_ONLY, REVERSIBLE
<1>3. Known("DriveSecureErase", DriveSecureErase_args)
  BY OptionsDecide
     DEF DriveSecureErase_args, Picking, Unconfirmed, Tokened, Mild, Listing, None,
         Unknown
<1>4. Known("DellSystemLcdErrors", DellSystemLcdErrors_args)
  BY OptionsDecide
     DEF DellSystemLcdErrors_args, Picking, Unconfirmed, Tokened, Mild, Listing, None,
         Unknown,
     IRREVERSIBLE
<1>5. Known("DellBiosDeviceRecovery", DellBiosDeviceRecovery_args)
  BY OptionsDecide
     DEF DellBiosDeviceRecovery_args, Picking, Unconfirmed, Tokened, Mild, Listing,
         None, Unknown,
     IRREVERSIBLE
<1>6. Known("BiosResetDefault", BiosResetDefault_args)
  BY OptionsDecide
     DEF BiosResetDefault_args, Picking, Unconfirmed, Tokened, Mild, Listing, None,
         Unknown,
     IRREVERSIBLE
<1>7. Known("DellSoftwareUpdateSchedule", DellSoftwareUpdateSchedule_args)
  BY OptionsDecide
     DEF DellSoftwareUpdateSchedule_args, Picking, Unconfirmed, Tokened, Mild, Listing,
         None, Unknown,
     IRREVERSIBLE
<1>8. Known("VolumeCheckConsistency", VolumeCheckConsistency_args)
  BY OptionsDecide
     DEF VolumeCheckConsistency_args, Picking, Unconfirmed, Tokened, Mild, Listing,
         None, Unknown,
     IRREVERSIBLE
<1>9. Known("DellJobQueueSetup", DellJobQueueSetup_args)
  BY OptionsDecide
     DEF DellJobQueueSetup_args, Picking, Unconfirmed, Tokened, Mild, Listing, None,
         Unknown,
     IRREVERSIBLE
<1>10. Known("SystemReset", SystemReset_args)
  BY OptionsDecide
     DEF SystemReset_args, Picking, Unconfirmed, Tokened, Mild, Listing, None, Unknown,
     IRREVERSIBLE
<1>11. Known("RebootHost", RebootHost_args)
  BY OptionsDecide
     DEF RebootHost_args, Picking, Unconfirmed, Tokened, Mild, Listing, None, Unknown,
     IRREVERSIBLE
<1>12. Known("UpdateStart", UpdateStart_args)
  BY OptionsDecide
     DEF UpdateStart_args, Picking, Unconfirmed, Tokened, Mild, Listing, None, Unknown,
     IRREVERSIBLE
<1>13. Known("EventSubmitTest", EventSubmitTest_args)
  BY OptionsDecide
     DEF EventSubmitTest_args, Picking, Unconfirmed, Tokened, Mild, Listing, None,
         Unknown,
     IRREVERSIBLE, READ_ONLY, REVERSIBLE
<1>14. Known("TelemetryClearReports", TelemetryClearReports_args)
  BY OptionsDecide
     DEF TelemetryClearReports_args, Picking, Unconfirmed, Tokened, Mild, Listing,
         None, Unknown,
     IRREVERSIBLE
<1>15. Known("TelemetryResetMetricDefinitions", TelemetryResetMetricDefinitions_args)
  BY OptionsDecide
     DEF TelemetryResetMetricDefinitions_args, Picking, Unconfirmed, Tokened, Mild,
         Listing, None, Unknown,
     IRREVERSIBLE
<1>16. Known("TelemetrySubmitTest", TelemetrySubmitTest_args)
  BY OptionsDecide
     DEF TelemetrySubmitTest_args, Picking, Unconfirmed, Tokened, Mild, Listing, None,
         Unknown,
     IRREVERSIBLE
<1> QED
  BY <1>1, <1>2, <1>3, <1>4, <1>5, <1>6, <1>7, <1>8, <1>9, <1>10, <1>11,
     <1>12, <1>13, <1>14, <1>15, <1>16

\* The parser of every command.
LEMMA ArgumentsAreKnown ==
    ASSUME NEW c \in Commands
    PROVE  Known(c, ArgsOf[c])
<1>1. CASE c \in RaidCommands
  <2>1. ArgsOf[c] = RaidArgs(c)
    BY FamiliesAreApart, <1>1, Zenon DEF ArgsOf
  <2>2. Known(c, RaidArgs(c))
    BY <1>1, RaidParsers, SMTT(60) DEF RaidArgs, RaidCommands
  <2> QED BY <2>1, <2>2, Zenon
<1>2. CASE c \in LifecycleCommands
  <2>1. ArgsOf[c] = LifecycleArgs(c)
    BY FamiliesAreApart, <1>2, Zenon DEF ArgsOf
  <2>2. Known(c, LifecycleArgs(c))
    BY <1>2, LifecycleParsers, SMTT(60) DEF LifecycleArgs, LifecycleCommands
  <2> QED BY <2>1, <2>2, Zenon
<1>3. CASE c \in CardCommands
  <2>1. ArgsOf[c] = CardArgs(c)
    BY FamiliesAreApart, <1>3, Zenon DEF ArgsOf
  <2>2. Known(c, CardArgs(c))
    BY <1>3, CardParsers, SMTT(60) DEF CardArgs, CardCommands
  <2> QED BY <2>1, <2>2, Zenon
<1>4. CASE c \in StandardCommands
  <2>1. ArgsOf[c] = StandardArgs(c)
    BY FamiliesAreApart, <1>4, Zenon DEF ArgsOf
  <2>2. Known(c, StandardArgs(c))
    BY <1>4, StandardParsers, SMTT(60) DEF StandardArgs, StandardCommands
  <2> QED BY <2>1, <2>2, Zenon
<1>5. CASE c \in ResourceCommands
  <2>1. ArgsOf[c] = ResourceArgs(c)
    BY FamiliesAreApart, <1>5, Zenon DEF ArgsOf
  <2>2. Known(c, ResourceArgs(c))
    BY <1>5, ResourceParsers, SMTT(60) DEF ResourceArgs, ResourceCommands
  <2> QED BY <2>1, <2>2, Zenon
<1> QED BY <1>1, <1>2, <1>3, <1>4, <1>5, Zenon DEF Commands

-----------------------------------------------------------------------------
(* A preview has a reason that the user can remove. *)

\* A preview of an action that the policy, the command or the user holds back.
Excused(c, a) ==
    \/ a.dry
    \/ (\E b \in ArgsOf[c] : b.confirm) /\ ~a.confirm
    \/ (\E b \in ArgsOf[c] : b.token) /\ ~a.token

\* The commands that rely on the policy make no call without an action.
LEMMA MildCallsAct ==
    ASSUME NEW c \in Commands, c \in Mild, NEW a \in ArgsOf[c], NEW seen,
           OutcomeOf(c, a, seen).kind = "call"
    PROVE  a.op # None
<1>1. CASE c = "DellLcSupportAssistStatus"
  <2>1. c \in LifecycleCommands
    BY <1>1 DEF LifecycleCommands
  <2>2. OutcomeOf(c, a, seen) = LifecycleOutcome(c, a, seen)
    BY FamiliesAreApart, <2>1, Zenon DEF OutcomeOf
  <2>3. LifecycleOutcome(c, a, seen) = DellLcSupportAssistStatus_execute(a, seen)
    BY <1>1, SMTT(60) DEF LifecycleOutcome
  <2>4. DellLcSupportAssistStatus_execute(a, seen).kind = "call"
    BY <2>2, <2>3, Zenon
  <2> QED BY <2>4, Zenon DEF DellLcSupportAssistStatus_execute, Raised, Shown, Ended
<1>2. CASE c = "DellCardCertExport"
  <2>1. c \in CardCommands
    BY <1>2 DEF CardCommands
  <2>2. OutcomeOf(c, a, seen) = CardOutcome(c, a, seen)
    BY FamiliesAreApart, <2>1, Zenon DEF OutcomeOf
  <2>3. CardOutcome(c, a, seen) = DellCardCertExport_execute(a, seen)
    BY <1>2, SMTT(60) DEF CardOutcome
  <2>4. DellCardCertExport_execute(a, seen).kind = "call"
    BY <2>2, <2>3, Zenon
  <2> QED BY <2>4, Zenon DEF DellCardCertExport_execute, Failed, Shown, Ended

<1>3. CASE c \notin Listing
  BY <1>3, ArgumentsAreKnown, Zenon DEF Known
<1> QED BY <1>1, <1>2, <1>3, Zenon DEF Listing

\* Whatever makes invoke_action hold back the call of a command, the user has
\* asked for it, or has left out an option of the command.
LEMMA HeldBackCallIsExcused ==
    ASSUME NEW c \in Commands, NEW a \in ArgsOf[c], NEW k, Generous(c, a, k),
           c \in Mild => a.op # None,
           \/ k.dry
           \/ classify(k.op) = "irreversible" /\ ~(k.confirm /\ k.token)
           \/ classify(k.op) = "destructive" /\ ~k.confirm
    PROVE  Excused(c, a)
<1>1. Known(c, ArgsOf[c])
  BY ArgumentsAreKnown
<1>2. c \notin Unconfirmed => \E b \in ArgsOf[c] : b.confirm
  BY <1>1, Zenon DEF Known
<1>3. c \in Tokened => \E b \in ArgsOf[c] : b.token
  BY <1>1, Zenon DEF Known
<1>4. c \in Tokened => c \notin Unconfirmed \cup {"DellCardCertExport"}
  BY DEF Tokened, Unconfirmed
<1>5. c \in Unconfirmed \cup {"DellCardCertExport"} => c \in Mild \/ c = "RebootHost"
  BY DEF Mild, Unconfirmed
<1>6. CASE k.dry
  BY <1>2, <1>6, Zenon DEF Generous, Excused
<1>7. CASE classify(k.op) = "irreversible" /\ ~(k.confirm /\ k.token)
  <2>1. c \in Tokened
    <3>1. a.op \in IRREVERSIBLE
      BY <1>7 DEF classify, Generous
    <3> QED BY <1>1, <3>1, Zenon DEF Known
  <2> QED BY <1>2, <1>3, <1>4, <1>7, <2>1, Zenon DEF Generous, Excused
<1>8. CASE classify(k.op) = "destructive" /\ ~k.confirm
  <2>1. c \notin Mild
    <3>1. a.op \notin READ_ONLY \cup REVERSIBLE
      BY <1>8 DEF classify, Generous
    <3> QED BY <1>1, <3>1, Zenon DEF Known
  <2> QED BY <1>2, <1>5, <1>8, <2>1, Zenon DEF Generous, Excused
<1> QED BY <1>6, <1>7, <1>8, Zenon

-----------------------------------------------------------------------------
(* A call goes to the resource that the user named, and to the only one that fits. *)

\* What a discovery returns: pairs of a resource and an action; only of the
\* resource that was named; all that fit, if no read fails.
Placed(seen) == \A r \in seen.rows : r = <<r[1], r[2]>> /\ r[1] \in Services
Named(a, seen) == \A r \in seen.rows : a.pick \in {None, r[1]}
Rivals(a, site) == {s \in Services : a.op \in site[s] /\ a.pick \in {None, s}}
Whole(a, site, lost, seen) ==
    lost = {} => \A s \in Rivals(a, site) : <<s, a.op>> \in seen.rows

\* PostsWhereAsked of a call, for what the BMC offers and the reads that fail.
Aimed(c, a, site, lost, o) ==
    o.kind = "call" =>
       /\ a.pick \in {None, o.call.svc}
       /\ c \in Discerning /\ lost = {} => Cardinality(Rivals(a, site)) <= 1

\* The rows of the resources that answer.
LEMMA RowsFacts ==
    ASSUME NEW site, DOMAIN site = Services, NEW answering \in SUBSET Services
    PROVE  /\ \A r \in Rows(site, answering) : r = <<r[1], r[2]>> /\ r[1] \in answering
           /\ \A s \in answering : \A op \in site[s] : <<s, op>> \in Rows(site, answering)
<1>1. ASSUME NEW r \in Rows(site, answering)
      PROVE  r = <<r[1], r[2]>> /\ r[1] \in answering
  BY <1>1 DEF Rows
<1>2. ASSUME NEW s \in answering, NEW op \in site[s]
      PROVE  <<s, op>> \in Rows(site, answering)
  BY <1>2 DEF Rows
<1> QED BY <1>1, <1>2

\* The discoveries that look at every resource, or at the one that is named.
LEMMA DiscoveryFacts ==
    ASSUME NEW a, a.pick \in {None} \cup Services,
           NEW site, DOMAIN site = Services, NEW lost
    PROVE  /\ Placed(AllTolerant(site, lost)) /\ Whole(a, site, lost, AllTolerant(site, lost))
           /\ Placed(AllWithFallback(site, lost))
           /\ Whole(a, site, lost, AllWithFallback(site, lost))
           /\ Placed(AllUnderRoot(site, lost)) /\ Whole(a, site, lost, AllUnderRoot(site, lost))
           /\ Placed(AllStrict(site, lost)) /\ Whole(a, site, lost, AllStrict(site, lost))
           /\ Placed(NamedOrAll(a.pick, site, lost)) /\ Named(a, NamedOrAll(a.pick, site, lost))
           /\ Whole(a, site, lost, NamedOrAll(a.pick, site, lost))
           /\ Placed(FirstOffering(a.pick, site, lost))
           /\ Named(a, FirstOffering(a.pick, site, lost))
<1> DEFINE rows(answering) == Rows(site, answering)
<1>0. ASSUME NEW answering \in SUBSET Services
      PROVE  /\ Placed(Found(rows(answering)))
             /\ answering = Services => Whole(a, site, lost, Found(rows(answering)))
             /\ a.pick # None /\ answering \subseteq {a.pick} => Named(a, Found(rows(answering)))
             /\ Rivals(a, site) \subseteq answering => Whole(a, site, lost, Found(rows(answering)))
  <2>1. Found(rows(answering)).rows = rows(answering)
    BY DEF Found
  <2> QED BY RowsFacts, <2>1 DEF Placed, Whole, Named, Rivals
<1> HIDE DEF rows
<1>1. Placed(Threw)
  BY DEF Threw, Placed
<1>2. ASSUME NEW known \in SUBSET Services, NEW pick \in {None, a.pick}
      PROVE  /\ Reachable(pick, site, lost, known) \in SUBSET Services
             /\ lost = {} /\ pick = None => Reachable(pick, site, lost, known) = Services
             /\ pick # None => Reachable(pick, site, lost, known) \subseteq {pick}
             /\ lost = {} /\ pick # None => Reachable(pick, site, lost, known) = {pick}
  BY <1>2, NamesAssumption DEF Reachable
<1>3. {Primary} \in SUBSET Services /\ {} \in SUBSET Services
  BY ServicesAssumption
<1>4. Placed(AllTolerant(site, lost)) /\ Whole(a, site, lost, AllTolerant(site, lost))
  BY <1>0, <1>2, <1>3 DEF AllTolerant, rows, Whole
<1>5. Placed(AllWithFallback(site, lost)) /\ Whole(a, site, lost, AllWithFallback(site, lost))
  BY <1>0, <1>2, <1>3 DEF AllWithFallback, rows, Whole
<1>6. Placed(AllUnderRoot(site, lost)) /\ Whole(a, site, lost, AllUnderRoot(site, lost))
  BY <1>1, <1>4, Zenon DEF AllUnderRoot, Whole
<1>7. Placed(AllStrict(site, lost)) /\ Whole(a, site, lost, AllStrict(site, lost))
  BY <1>0, <1>1 DEF AllStrict, rows, Whole
<1> DEFINE near == Reachable(a.pick, site, lost, {Primary})
           first == {s \in {t \in near : site[t] # {}} :
                        Primary \in {t \in near : site[t] # {}} => s = Primary}
<1>8. near \in SUBSET Services /\ first \in SUBSET near
  BY <1>2, <1>3
<1>9. a.pick # None => near \subseteq {a.pick}
  BY <1>2, <1>3
<1>10. NamedOrAll(a.pick, site, lost) = Found(rows(near))
       /\ FirstOffering(a.pick, site, lost) = Found(rows(first))
  BY Zenon DEF NamedOrAll, FirstOffering, rows
<1>11. lost = {} => Rivals(a, site) \subseteq near
  BY <1>2, <1>3 DEF Rivals
<1> HIDE DEF near, first
<1>12. ASSUME NEW seen, a.pick = None PROVE Named(a, seen)
  BY <1>12 DEF Named
<1>13. Placed(Found(rows(near))) /\ Placed(Found(rows(first)))
  BY <1>0, <1>8
<1>14. Named(a, Found(rows(near))) /\ Named(a, Found(rows(first)))
  BY <1>0, <1>8, <1>9, <1>12
<1>15. Whole(a, site, lost, Found(rows(near)))
  BY <1>0, <1>8, <1>11 DEF Whole
<1> QED BY <1>4, <1>5, <1>6, <1>7, <1>10, <1>13, <1>14, <1>15

\* The resource that is taken from rows is one of theirs.
LEMMA TakenFromRows ==
    ASSUME NEW rows, rows # {}
    PROVE  \E r \in rows : TheResource(rows) = r[1]
  BY Zenon DEF TheResource, ResourcesIn

\* A set of which only one element fits has one element at most.
LEMMA AtMostOne ==
    ASSUME NEW R \in SUBSET Services, NEW t, R \subseteq {t}
    PROVE  Cardinality(R) <= 1
<1>1. IsFiniteSet({t}) /\ Cardinality({t}) = 1
  BY FS_Singleton, Zenon
<1>2. Cardinality(R) <= Cardinality({t})
  BY <1>1, FS_Subset, Zenon
<1> QED BY <1>1, <1>2

\* Rows of the same action are as few as their resources.
LEMMA RowsAreFinite ==
    ASSUME NEW rows, NEW op, \A r \in rows : r = <<r[1], op>> /\ r[1] \in Services
    PROVE  IsFiniteSet(rows)
<1>1. rows \in SUBSET (Services \X {op})
  OBVIOUS
<1>2. IsFiniteSet(Services \X {op})
  BY Zenon, FS_Product, FS_Singleton, ServicesAssumption
<1> QED BY <1>1, <1>2, FS_Subset

\* A command that makes a call does so under a condition, and to a resource.
Takes(o, ok, svc) == o.kind = "call" => ok /\ o.call.svc = svc

\* A command that insists on a single row aims well.
LEMMA SingleRowIsAimed ==
    ASSUME NEW c, NEW a, NEW site, NEW lost, NEW rows, NEW o,
           \A r \in rows : /\ r = <<r[1], a.op>> /\ r[1] \in Services
                           /\ a.pick \in {None, r[1]},
           lost = {} => \A s \in Rivals(a, site) : <<s, a.op>> \in rows,
           Takes(o, Single(rows), TheResource(rows))
    PROVE  Aimed(c, a, site, lost, o)
<1> SUFFICES ASSUME o.kind = "call"
             PROVE  /\ a.pick \in {None, o.call.svc}
                    /\ lost = {} => Cardinality(Rivals(a, site)) <= 1
  BY DEF Aimed
<1>1. IsFiniteSet(rows)
  BY RowsAreFinite
<1>2. PICK x : rows = {x}
  BY Zenon, <1>1, FS_Singleton DEF Single, Takes
<1>3. o.call.svc = x[1] /\ x \in rows
  BY <1>2, TakenFromRows DEF Takes
<1>4. a.pick \in {None, o.call.svc}
  BY <1>3
<1>5. ASSUME lost = {} PROVE Cardinality(Rivals(a, site)) <= 1
  <2>1. Rivals(a, site) \subseteq {x[1]}
    BY <1>2, <1>5
  <2>2. Rivals(a, site) \in SUBSET Services
    BY DEF Rivals
  <2> QED BY <2>1, <2>2, AtMostOne
<1> QED BY <1>4, <1>5

\* The rows of the action selected, at the resource that was named.
LEMMA SelectionIsAimed ==
    ASSUME NEW c, NEW a, NEW site, NEW lost, NEW seen, NEW o,
           Placed(seen), Whole(a, site, lost, seen),
           LET rows == Picked(Offering(seen.rows, a.op), a.pick) IN
           Takes(o, Single(rows), TheResource(rows))
    PROVE  Aimed(c, a, site, lost, o)
<1> DEFINE rows == Picked(Offering(seen.rows, a.op), a.pick)
<1>1. \A r \in rows : /\ r = <<r[1], a.op>> /\ r[1] \in Services
                      /\ a.pick \in {None, r[1]}
  BY DEF Picked, Offering, Placed
<1>2. lost = {} => \A s \in Rivals(a, site) : <<s, a.op>> \in rows
  BY DEF Picked, Offering, Whole, Rivals
<1>3. Takes(o, Single(rows), TheResource(rows))
  OBVIOUS
<1> HIDE DEF rows
<1> QED BY <1>1, <1>2, <1>3, SingleRowIsAimed

\* The same where the discovery has looked at the named resource only.
LEMMA NamedSelectionIsAimed ==
    ASSUME NEW c, NEW a, NEW site, NEW lost, NEW seen, NEW o,
           Placed(seen), Named(a, seen), Whole(a, site, lost, seen),
           LET rows == Offering(seen.rows, a.op) IN Takes(o, Single(rows), TheResource(rows))
    PROVE  Aimed(c, a, site, lost, o)
<1> DEFINE rows == Offering(seen.rows, a.op)
<1>1. \A r \in rows : /\ r = <<r[1], a.op>> /\ r[1] \in Services
                      /\ a.pick \in {None, r[1]}
  BY DEF Offering, Placed, Named
<1>2. lost = {} => \A s \in Rivals(a, site) : <<s, a.op>> \in rows
  BY DEF Offering, Whole, Rivals
<1>3. Takes(o, Single(rows), TheResource(rows))
  OBVIOUS
<1> HIDE DEF rows
<1> QED BY <1>1, <1>2, <1>3, SingleRowIsAimed

\* A command that takes the first row aims at the resource that was named.
LEMMA FirstRowIsAimed ==
    ASSUME NEW c, c \notin Discerning, NEW a, NEW site, NEW lost, NEW seen, NEW rows, NEW o,
           Named(a, seen), rows \subseteq seen.rows,
           Takes(o, rows # {}, TheResource(rows))
    PROVE  Aimed(c, a, site, lost, o)
  BY TakenFromRows DEF Aimed, Named, Takes

\* The ways in which the commands end, or call invoke_action.
LEMMA TakenOutcomes ==
    ASSUME NEW svc, NEW ok
    PROVE  /\ Takes(Shown, ok, svc) /\ Takes(Failed, ok, svc) /\ Takes(Raised, ok, svc)
           /\ ok => \A a : /\ Takes(Invoke(svc, a), ok, svc)
                           /\ Takes(InvokeIfConfirmed(svc, a), ok, svc)
                           /\ Takes(InvokeWithToken(svc, a), ok, svc)
                           /\ Takes(InvokeFreely(svc, a), ok, svc)
           /\ ok => \A op, dry, confirm, token :
                       Takes(Call(svc, op, dry, confirm, token), ok, svc)
           /\ ok => \A a, mask :
                       Takes([kind |-> "call",
                              call |-> [Invoke(svc, a).call EXCEPT !.masked = mask]],
                             ok, svc)
<1>1. Takes(Shown, ok, svc) /\ Takes(Failed, ok, svc) /\ Takes(Raised, ok, svc)
  BY Zenon DEF Takes, Shown, Failed, Raised, Ended
<1>2. ASSUME ok, NEW op, NEW dry, NEW confirm, NEW token
      PROVE  Takes(Call(svc, op, dry, confirm, token), ok, svc)
  BY <1>2, Zenon DEF Takes, Call
<1>3. ASSUME ok, NEW a
      PROVE  /\ Takes(Invoke(svc, a), ok, svc)
             /\ Takes(InvokeIfConfirmed(svc, a), ok, svc)
             /\ Takes(InvokeWithToken(svc, a), ok, svc)
             /\ Takes(InvokeFreely(svc, a), ok, svc)
  BY <1>2, <1>3, Zenon DEF Invoke, InvokeIfConfirmed, InvokeWithToken, InvokeFreely
<1>4. ASSUME ok, NEW a, NEW mask
      PROVE  Takes([kind |-> "call",
                    call |-> [Invoke(svc, a).call EXCEPT !.masked = mask]],
                   ok, svc)
  BY <1>4, Zenon DEF Takes, Invoke, Call
<1> QED BY <1>1, <1>2, <1>3, <1>4, Zenon

\* The commands that look for the action at all resources, and keep the rows of the
\* resource that was named.
LEMMA SelectionsAreAimed ==
    ASSUME NEW a, a.pick \in {None} \cup Services,
           NEW site, DOMAIN site = Services, NEW lost
    PROVE  /\ Aimed("DellRaidCancelActions", a, site, lost,
                    DellRaidCancelActions_execute(a, DellRaidCancelActions_rows(a, site, lost)))
           /\ Aimed("DellLcSupportAssistStatus", a, site, lost,
                    DellLcSupportAssistStatus_execute(a, DellLcSupportAssistStatus_rows(a, site, lost)))
           /\ Aimed("DellCardCertExport", a, site, lost,
                    DellCardCertExport_execute(a, DellCardCertExport_rows(a, site, lost)))
           /\ Aimed("DellCardCsr", a, site, lost,
                    DellCardCsr_execute(a, DellCardCsr_rows(a, site, lost)))
           /\ Aimed("DellCardGroupActions", a, site, lost,
                    DellCardGroupActions_execute(a, DellCardGroupActions_rows(a, site, lost)))
           /\ Aimed("DellCardKeyManagement", a, site, lost,
                    DellCardKeyManagement_execute(a, DellCardKeyManagement_rows(a, site, lost)))
           /\ Aimed("DellCardTestActions", a, site, lost,
                    DellCardTestActions_execute(a, DellCardTestActions_rows(a, site, lost)))
           /\ Aimed("HpeChassisActions", a, site, lost,
                    HpeChassisActions_execute(a, HpeChassisActions_rows(a, site, lost)))
           /\ Aimed("HpeTestActions", a, site, lost,
                    HpeTestActions_execute(a, HpeTestActions_rows(a, site, lost)))
           /\ Aimed("SmcNodeManagerClearPolicies", a, site, lost,
                    SmcNodeManagerClearPolicies_execute(a, SmcNodeManagerClearPolicies_rows(a, site, lost)))
           /\ Aimed("DellMetricActions", a, site, lost,
                    DellMetricActions_execute(a, DellMetricActions_rows(a, site, lost)))
           /\ Aimed("DellSwitchPortRefresh", a, site, lost,
                    DellSwitchPortRefresh_execute(a, DellSwitchPortRefresh_rows(a, site, lost)))
           /\ Aimed("SecureBootResetKeys", a, site, lost,
                    SecureBootResetKeys_execute(a, SecureBootResetKeys_rows(a, site, lost)))
           /\ Aimed("LogClear", a, site, lost,
                    LogClear_execute(a, LogClear_rows(a, site, lost)))
           /\ Aimed("LogCollectDiagnosticData", a, site, lost,
                    LogCollectDiagnosticData_execute(a, LogCollectDiagnosticData_rows(a, site, lost)))
           /\ Aimed("SpdmMeasurements", a, site, lost,
                    SpdmMeasurements_execute(a, SpdmMeasurements_rows(a, site, lost)))
<1>1. Aimed("DellRaidCancelActions", a, site, lost,
             DellRaidCancelActions_execute(a, DellRaidCancelActions_rows(a, site, lost)))
  <2> DEFINE seen == DellRaidCancelActions_rows(a, site, lost)
  <2>1. Placed(seen) /\ Whole(a, site, lost, seen)
    BY DiscoveryFacts, Zenon DEF DellRaidCancelActions_rows
  <2> HIDE DEF seen
  <2>2. LET rows == Picked(Offering(seen.rows, a.op), a.pick) IN
        Takes(DellRaidCancelActions_execute(a, seen), Single(rows), TheResource(rows))
    BY TakenOutcomes, Zenon DEF DellRaidCancelActions_execute
  <2>3. Aimed("DellRaidCancelActions", a, site, lost, DellRaidCancelActions_execute(a, seen))
    BY <2>1, <2>2, SelectionIsAimed, Zenon
  <2> QED BY <2>3 DEF seen
<1>2. Aimed("DellLcSupportAssistStatus", a, site, lost,
             DellLcSupportAssistStatus_execute(a, DellLcSupportAssistStatus_rows(a, site, lost)))
  <2> DEFINE seen == DellLcSupportAssistStatus_rows(a, site, lost)
  <2>1. Placed(seen) /\ Whole(a, site, lost, seen)
    BY DiscoveryFacts, Zenon DEF DellLcSupportAssistStatus_rows
  <2> HIDE DEF seen
  <2>2. LET rows == Picked(Offering(seen.rows, a.op), a.pick) IN
        Takes(DellLcSupportAssistStatus_execute(a, seen), Single(rows), TheResource(rows))
    BY TakenOutcomes, Zenon DEF DellLcSupportAssistStatus_execute
  <2>3. Aimed("DellLcSupportAssistStatus", a, site, lost, DellLcSupportAssistStatus_execute(a, seen))
    BY <2>1, <2>2, SelectionIsAimed, Zenon
  <2> QED BY <2>3 DEF seen
<1>3. Aimed("DellCardCertExport", a, site, lost,
             DellCardCertExport_execute(a, DellCardCertExport_rows(a, site, lost)))
  <2> DEFINE seen == DellCardCertExport_rows(a, site, lost)
  <2>1. Placed(seen) /\ Whole(a, site, lost, seen)
    BY DiscoveryFacts, Zenon DEF DellCardCertExport_rows, Unavailable, Placed, Whole
  <2> HIDE DEF seen
  <2>2. LET rows == Picked(Offering(seen.rows, a.op), a.pick) IN
        Takes(DellCardCertExport_execute(a, seen), Single(rows), TheResource(rows))
    BY TakenOutcomes, Zenon DEF DellCardCertExport_execute
  <2>3. Aimed("DellCardCertExport", a, site, lost, DellCardCertExport_execute(a, seen))
    BY <2>1, <2>2, SelectionIsAimed, Zenon
  <2> QED BY <2>3 DEF seen
<1>4. Aimed("DellCardCsr", a, site, lost,
             DellCardCsr_execute(a, DellCardCsr_rows(a, site, lost)))
  <2> DEFINE seen == DellCardCsr_rows(a, site, lost)
  <2>1. Placed(seen) /\ Whole(a, site, lost, seen)
    BY DiscoveryFacts, Zenon DEF DellCardCsr_rows
  <2> HIDE DEF seen
  <2>2. LET rows == Picked(Offering(seen.rows, a.op), a.pick) IN
        Takes(DellCardCsr_execute(a, seen), Single(rows), TheResource(rows))
    BY TakenOutcomes, Zenon DEF DellCardCsr_execute
  <2>3. Aimed("DellCardCsr", a, site, lost, DellCardCsr_execute(a, seen))
    BY <2>1, <2>2, SelectionIsAimed, Zenon
  <2> QED BY <2>3 DEF seen
<1>5. Aimed("DellCardGroupActions", a, site, lost,
             DellCardGroupActions_execute(a, DellCardGroupActions_rows(a, site, lost)))
  <2> DEFINE seen == DellCardGroupActions_rows(a, site, lost)
  <2>1. Placed(seen) /\ Whole(a, site, lost, seen)
    BY DiscoveryFacts, Zenon DEF DellCardGroupActions_rows
  <2> HIDE DEF seen
  <2>2. LET rows == Picked(Offering(seen.rows, a.op), a.pick) IN
        Takes(DellCardGroupActions_execute(a, seen), Single(rows), TheResource(rows))
    BY TakenOutcomes, Zenon DEF DellCardGroupActions_execute
  <2>3. Aimed("DellCardGroupActions", a, site, lost, DellCardGroupActions_execute(a, seen))
    BY <2>1, <2>2, SelectionIsAimed, Zenon
  <2> QED BY <2>3 DEF seen
<1>6. Aimed("DellCardKeyManagement", a, site, lost,
             DellCardKeyManagement_execute(a, DellCardKeyManagement_rows(a, site, lost)))
  <2> DEFINE seen == DellCardKeyManagement_rows(a, site, lost)
  <2>1. Placed(seen) /\ Whole(a, site, lost, seen)
    BY DiscoveryFacts, Zenon DEF DellCardKeyManagement_rows
  <2> HIDE DEF seen
  <2>2. LET rows == Picked(Offering(seen.rows, a.op), a.pick) IN
        Takes(DellCardKeyManagement_execute(a, seen), Single(rows), TheResource(rows))
    BY TakenOutcomes, Zenon DEF DellCardKeyManagement_execute
  <2>3. Aimed("DellCardKeyManagement", a, site, lost, DellCardKeyManagement_execute(a, seen))
    BY <2>1, <2>2, SelectionIsAimed, Zenon
  <2> QED BY <2>3 DEF seen
<1>7. Aimed("DellCardTestActions", a, site, lost,
             DellCardTestActions_execute(a, DellCardTestActions_rows(a, site, lost)))
  <2> DEFINE seen == DellCardTestActions_rows(a, site, lost)
  <2>1. Placed(seen) /\ Whole(a, site, lost, seen)
    BY DiscoveryFacts, Zenon DEF DellCardTestActions_rows
  <2> HIDE DEF seen
  <2>2. LET rows == Picked(Offering(seen.rows, a.op), a.pick) IN
        Takes(DellCardTestActions_execute(a, seen), Single(rows), TheResource(rows))
    BY TakenOutcomes, Zenon DEF DellCardTestActions_execute
  <2>3. Aimed("DellCardTestActions", a, site, lost, DellCardTestActions_execute(a, seen))
    BY <2>1, <2>2, SelectionIsAimed, Zenon
  <2> QED BY <2>3 DEF seen
<1>8. Aimed("HpeChassisActions", a, site, lost,
             HpeChassisActions_execute(a, HpeChassisActions_rows(a, site, lost)))
  <2> DEFINE seen == HpeChassisActions_rows(a, site, lost)
  <2>1. Placed(seen) /\ Whole(a, site, lost, seen)
    BY DiscoveryFacts, Zenon DEF HpeChassisActions_rows
  <2> HIDE DEF seen
  <2>2. LET rows == Picked(Offering(seen.rows, a.op), a.pick) IN
        Takes(HpeChassisActions_execute(a, seen), Single(rows), TheResource(rows))
    BY TakenOutcomes, Zenon DEF HpeChassisActions_execute
  <2>3. Aimed("HpeChassisActions", a, site, lost, HpeChassisActions_execute(a, seen))
    BY <2>1, <2>2, SelectionIsAimed, Zenon
  <2> QED BY <2>3 DEF seen
<1>9. Aimed("HpeTestActions", a, site, lost,
             HpeTestActions_execute(a, HpeTestActions_rows(a, site, lost)))
  <2> DEFINE seen == HpeTestActions_rows(a, site, lost)
  <2>1. Placed(seen) /\ Whole(a, site, lost, seen)
    BY DiscoveryFacts, Zenon DEF HpeTestActions_rows
  <2> HIDE DEF seen
  <2>2. LET rows == Picked(Offering(seen.rows, a.op), a.pick) IN
        Takes(HpeTestActions_execute(a, seen), Single(rows), TheResource(rows))
    BY TakenOutcomes, Zenon DEF HpeTestActions_execute
  <2>3. Aimed("HpeTestActions", a, site, lost, HpeTestActions_execute(a, seen))
    BY <2>1, <2>2, SelectionIsAimed, Zenon
  <2> QED BY <2>3 DEF seen
<1>10. Aimed("SmcNodeManagerClearPolicies", a, site, lost,
             SmcNodeManagerClearPolicies_execute(a, SmcNodeManagerClearPolicies_rows(a, site, lost)))
  <2> DEFINE seen == SmcNodeManagerClearPolicies_rows(a, site, lost)
  <2>1. Placed(seen) /\ Whole(a, site, lost, seen)
    BY DiscoveryFacts, Zenon DEF SmcNodeManagerClearPolicies_rows
  <2> HIDE DEF seen
  <2>2. LET rows == Picked(Offering(seen.rows, a.op), a.pick) IN
        Takes(SmcNodeManagerClearPolicies_execute(a, seen), Single(rows), TheResource(rows))
    BY TakenOutcomes, Zenon DEF SmcNodeManagerClearPolicies_execute
  <2>3. Aimed("SmcNodeManagerClearPolicies", a, site, lost, SmcNodeManagerClearPolicies_execute(a, seen))
    BY <2>1, <2>2, SelectionIsAimed, Zenon
  <2> QED BY <2>3 DEF seen
<1>11. Aimed("DellMetricActions", a, site, lost,
             DellMetricActions_execute(a, DellMetricActions_rows(a, site, lost)))
  <2> DEFINE seen == DellMetricActions_rows(a, site, lost)
  <2>1. Placed(seen) /\ Whole(a, site, lost, seen)
    BY DiscoveryFacts, Zenon DEF DellMetricActions_rows
  <2> HIDE DEF seen
  <2>2. LET rows == Picked(Offering(seen.rows, a.op), a.pick) IN
        Takes(DellMetricActions_execute(a, seen), Single(rows), TheResource(rows))
    BY TakenOutcomes, Zenon DEF DellMetricActions_execute
  <2>3. Aimed("DellMetricActions", a, site, lost, DellMetricActions_execute(a, seen))
    BY <2>1, <2>2, SelectionIsAimed, Zenon
  <2> QED BY <2>3 DEF seen
<1>12. Aimed("DellSwitchPortRefresh", a, site, lost,
             DellSwitchPortRefresh_execute(a, DellSwitchPortRefresh_rows(a, site, lost)))
  <2> DEFINE seen == DellSwitchPortRefresh_rows(a, site, lost)
  <2>1. Placed(seen) /\ Whole(a, site, lost, seen)
    BY DiscoveryFacts, Zenon DEF DellSwitchPortRefresh_rows
  <2> HIDE DEF seen
  <2>2. LET rows == Picked(Offering(seen.rows, a.op), a.pick) IN
        Takes(DellSwitchPortRefresh_execute(a, seen), Single(rows), TheResource(rows))
    BY TakenOutcomes, Zenon DEF DellSwitchPortRefresh_execute
  <2>3. Aimed("DellSwitchPortRefresh", a, site, lost, DellSwitchPortRefresh_execute(a, seen))
    BY <2>1, <2>2, SelectionIsAimed, Zenon
  <2> QED BY <2>3 DEF seen
<1>13. Aimed("SecureBootResetKeys", a, site, lost,
             SecureBootResetKeys_execute(a, SecureBootResetKeys_rows(a, site, lost)))
  <2> DEFINE seen == SecureBootResetKeys_rows(a, site, lost)
  <2>1. Placed(seen) /\ Whole(a, site, lost, seen)
    BY DiscoveryFacts, Zenon DEF SecureBootResetKeys_rows, Found, Threw, Placed, Whole
  <2> HIDE DEF seen
  <2>2. LET rows == Picked(Offering(seen.rows, a.op), a.pick) IN
        Takes(SecureBootResetKeys_execute(a, seen), Single(rows), TheResource(rows))
    BY TakenOutcomes, Zenon DEF SecureBootResetKeys_execute
  <2>3. Aimed("SecureBootResetKeys", a, site, lost, SecureBootResetKeys_execute(a, seen))
    BY <2>1, <2>2, SelectionIsAimed, Zenon
  <2> QED BY <2>3 DEF seen
<1>14. Aimed("LogClear", a, site, lost,
             LogClear_execute(a, LogClear_rows(a, site, lost)))
  <2> DEFINE seen == LogClear_rows(a, site, lost)
  <2>1. Placed(seen) /\ Whole(a, site, lost, seen)
    BY DiscoveryFacts, Zenon DEF LogClear_rows
  <2> HIDE DEF seen
  <2>2. LET rows == Picked(Offering(seen.rows, a.op), a.pick) IN
        Takes(LogClear_execute(a, seen), Single(rows), TheResource(rows))
    BY TakenOutcomes, Zenon DEF LogClear_execute
  <2>3. Aimed("LogClear", a, site, lost, LogClear_execute(a, seen))
    BY <2>1, <2>2, SelectionIsAimed, Zenon
  <2> QED BY <2>3 DEF seen
<1>15. Aimed("LogCollectDiagnosticData", a, site, lost,
             LogCollectDiagnosticData_execute(a, LogCollectDiagnosticData_rows(a, site, lost)))
  <2> DEFINE seen == LogCollectDiagnosticData_rows(a, site, lost)
  <2>1. Placed(seen) /\ Whole(a, site, lost, seen)
    BY DiscoveryFacts, Zenon DEF LogCollectDiagnosticData_rows
  <2> HIDE DEF seen
  <2>2. LET rows == Picked(Offering(seen.rows, a.op), a.pick) IN
        Takes(LogCollectDiagnosticData_execute(a, seen), Single(rows), TheResource(rows))
    BY TakenOutcomes, Zenon DEF LogCollectDiagnosticData_execute
  <2>3. Aimed("LogCollectDiagnosticData", a, site, lost, LogCollectDiagnosticData_execute(a, seen))
    BY <2>1, <2>2, SelectionIsAimed, Zenon
  <2> QED BY <2>3 DEF seen
<1>16. Aimed("SpdmMeasurements", a, site, lost,
             SpdmMeasurements_execute(a, SpdmMeasurements_rows(a, site, lost)))
  <2> DEFINE seen == SpdmMeasurements_rows(a, site, lost)
  <2>1. Placed(seen) /\ Whole(a, site, lost, seen)
    BY DiscoveryFacts, Zenon DEF SpdmMeasurements_rows
  <2> HIDE DEF seen
  <2>2. LET rows == Picked(Offering(seen.rows, a.op), a.pick) IN
        Takes(SpdmMeasurements_execute(a, seen), Single(rows), TheResource(rows))
    BY TakenOutcomes, Zenon DEF SpdmMeasurements_execute
  <2>3. Aimed("SpdmMeasurements", a, site, lost, SpdmMeasurements_execute(a, seen))
    BY <2>1, <2>2, SelectionIsAimed, Zenon
  <2> QED BY <2>3 DEF seen
<1> QED
  BY Zenon, <1>1, <1>2, <1>3, <1>4, <1>5, <1>6, <1>7, <1>8, <1>9, <1>10, <1>11,
     <1>12, <1>13, <1>14, <1>15, <1>16, Zenon

\* The commands that look for the action at the resource that was named.
LEMMA NamedSelectionsAreAimed ==
    ASSUME NEW a, a.pick \in {None} \cup Services,
           NEW site, DOMAIN site = Services, NEW lost
    PROVE  /\ Aimed("DellLcIsmInstaller", a, site, lost,
                    DellLcIsmInstaller_execute(a, DellLcIsmInstaller_rows(a, site, lost)))
           /\ Aimed("DellLcOsHealthUpdate", a, site, lost,
                    DellLcOsHealthUpdate_execute(a, DellLcOsHealthUpdate_rows(a, site, lost)))
           /\ Aimed("DellCardHwProof", a, site, lost,
                    DellCardHwProof_execute(a, DellCardHwProof_rows(a, site, lost)))
           /\ Aimed("DellCardSekmTest", a, site, lost,
                    DellCardSekmTest_execute(a, DellCardSekmTest_rows(a, site, lost)))
           /\ Aimed("DellSoftwareUpdateSchedule", a, site, lost,
                    DellSoftwareUpdateSchedule_execute(a, DellSoftwareUpdateSchedule_rows(a, site, lost)))
<1>1. Aimed("DellLcIsmInstaller", a, site, lost,
             DellLcIsmInstaller_execute(a, DellLcIsmInstaller_rows(a, site, lost)))
  <2> DEFINE seen == DellLcIsmInstaller_rows(a, site, lost)
  <2>1. Placed(seen) /\ Named(a, seen) /\ Whole(a, site, lost, seen)
    BY DiscoveryFacts, Zenon DEF DellLcIsmInstaller_rows
  <2> HIDE DEF seen
  <2>2. LET rows == Offering(seen.rows, a.op) IN
        Takes(DellLcIsmInstaller_execute(a, seen), Single(rows), TheResource(rows))
    BY TakenOutcomes, Zenon DEF DellLcIsmInstaller_execute
  <2>3. Aimed("DellLcIsmInstaller", a, site, lost, DellLcIsmInstaller_execute(a, seen))
    BY <2>1, <2>2, NamedSelectionIsAimed, Zenon
  <2> QED BY <2>3 DEF seen
<1>2. Aimed("DellLcOsHealthUpdate", a, site, lost,
             DellLcOsHealthUpdate_execute(a, DellLcOsHealthUpdate_rows(a, site, lost)))
  <2> DEFINE seen == DellLcOsHealthUpdate_rows(a, site, lost)
  <2>1. Placed(seen) /\ Named(a, seen) /\ Whole(a, site, lost, seen)
    BY DiscoveryFacts, Zenon DEF DellLcOsHealthUpdate_rows
  <2> HIDE DEF seen
  <2>2. LET rows == Offering(seen.rows, a.op) IN
        Takes(DellLcOsHealthUpdate_execute(a, seen), Single(rows), TheResource(rows))
    BY TakenOutcomes, Zenon DEF DellLcOsHealthUpdate_execute
  <2>3. Aimed("DellLcOsHealthUpdate", a, site, lost, DellLcOsHealthUpdate_execute(a, seen))
    BY <2>1, <2>2, NamedSelectionIsAimed, Zenon
  <2> QED BY <2>3 DEF seen
<1>3. Aimed("DellCardHwProof", a, site, lost,
             DellCardHwProof_execute(a, DellCardHwProof_rows(a, site, lost)))
  <2> DEFINE seen == DellCardHwProof_rows(a, site, lost)
  <2>1. Placed(seen) /\ Named(a, seen) /\ Whole(a, site, lost, seen)
    BY DiscoveryFacts, Zenon DEF DellCardHwProof_rows
  <2> HIDE DEF seen
  <2>2. LET rows == Offering(seen.rows, a.op) IN
        Takes(DellCardHwProof_execute(a, seen), Single(rows), TheResource(rows))
    BY TakenOutcomes, Zenon DEF DellCardHwProof_execute
  <2>3. Aimed("DellCardHwProof", a, site, lost, DellCardHwProof_execute(a, seen))
    BY <2>1, <2>2, NamedSelectionIsAimed, Zenon
  <2> QED BY <2>3 DEF seen
<1>4. Aimed("DellCardSekmTest", a, site, lost,
             DellCardSekmTest_execute(a, DellCardSekmTest_rows(a, site, lost)))
  <2> DEFINE seen == DellCardSekmTest_rows(a, site, lost)
  <2>1. Placed(seen) /\ Named(a, seen) /\ Whole(a, site, lost, seen)
    BY DiscoveryFacts, Zenon DEF DellCardSekmTest_rows
  <2> HIDE DEF seen
  <2>2. LET rows == Offering(seen.rows, a.op) IN
        Takes(DellCardSekmTest_execute(a, seen), Single(rows), TheResource(rows))
    BY TakenOutcomes, Zenon DEF DellCardSekmTest_execute
  <2>3. Aimed("DellCardSekmTest", a, site, lost, DellCardSekmTest_execute(a, seen))
    BY <2>1, <2>2, NamedSelectionIsAimed, Zenon
  <2> QED BY <2>3 DEF seen
<1>5. Aimed("DellSoftwareUpdateSchedule", a, site, lost,
             DellSoftwareUpdateSchedule_execute(a, DellSoftwareUpdateSchedule_rows(a, site, lost)))
  <2> DEFINE seen == DellSoftwareUpdateSchedule_rows(a, site, lost)
  <2>1. Placed(seen) /\ Named(a, seen) /\ Whole(a, site, lost, seen)
    BY DiscoveryFacts, Zenon DEF DellSoftwareUpdateSchedule_rows
  <2> HIDE DEF seen
  <2>2. LET rows == Offering(seen.rows, a.op) IN
        Takes(DellSoftwareUpdateSchedule_execute(a, seen), Single(rows), TheResource(rows))
    BY TakenOutcomes, Zenon DEF DellSoftwareUpdateSchedule_execute
  <2>3. Aimed("DellSoftwareUpdateSchedule", a, site, lost, DellSoftwareUpdateSchedule_execute(a, seen))
    BY <2>1, <2>2, NamedSelectionIsAimed, Zenon
  <2> QED BY <2>3 DEF seen
<1> QED
  BY <1>1, <1>2, <1>3, <1>4, <1>5, Zenon

\* The commands that take the first resource that offers anything.
LEMMA FirstRowsAreAimed ==
    ASSUME NEW a, a.pick \in {None} \cup Services,
           NEW site, DOMAIN site = Services, NEW lost
    PROVE  /\ Aimed("DellLcAutoDiscovery", a, site, lost,
                    DellLcAutoDiscovery_execute(a, DellLcAutoDiscovery_rows(a, site, lost)))
           /\ Aimed("DellLcClearProvisioningServer", a, site, lost,
                    DellLcClearProvisioningServer_execute(a, DellLcClearProvisioningServer_rows(a, site, lost)))
           /\ Aimed("DellPersistentInitializeMedia", a, site, lost,
                    DellPersistentInitializeMedia_execute(a, DellPersistentInitializeMedia_rows(a, site, lost)))
           /\ Aimed("DellSystemLcdErrors", a, site, lost,
                    DellSystemLcdErrors_execute(a, DellSystemLcdErrors_rows(a, site, lost)))
<1>1. Aimed("DellLcAutoDiscovery", a, site, lost,
             DellLcAutoDiscovery_execute(a, DellLcAutoDiscovery_rows(a, site, lost)))
  <2> DEFINE seen == DellLcAutoDiscovery_rows(a, site, lost)
  <2>1. Named(a, seen) /\ "DellLcAutoDiscovery" \notin Discerning
    BY DiscoveryFacts, Zenon DEF DellLcAutoDiscovery_rows, Discerning
  <2> HIDE DEF seen
  <2>2. Takes(DellLcAutoDiscovery_execute(a, seen), seen.rows # {}, TheResource(seen.rows))
    BY TakenOutcomes, Zenon DEF DellLcAutoDiscovery_execute
  <2>3. Aimed("DellLcAutoDiscovery", a, site, lost, DellLcAutoDiscovery_execute(a, seen))
    BY <2>1, <2>2, FirstRowIsAimed, Zenon
  <2> QED BY <2>3 DEF seen
<1>2. Aimed("DellLcClearProvisioningServer", a, site, lost,
             DellLcClearProvisioningServer_execute(a, DellLcClearProvisioningServer_rows(a, site, lost)))
  <2> DEFINE seen == DellLcClearProvisioningServer_rows(a, site, lost)
  <2>1. Named(a, seen) /\ "DellLcClearProvisioningServer" \notin Discerning
    BY DiscoveryFacts, Zenon DEF DellLcClearProvisioningServer_rows, Discerning
  <2> HIDE DEF seen
  <2>2. Takes(DellLcClearProvisioningServer_execute(a, seen), seen.rows # {}, TheResource(seen.rows))
    BY TakenOutcomes, Zenon DEF DellLcClearProvisioningServer_execute
  <2>3. Aimed("DellLcClearProvisioningServer", a, site, lost, DellLcClearProvisioningServer_execute(a, seen))
    BY <2>1, <2>2, FirstRowIsAimed, Zenon
  <2> QED BY <2>3 DEF seen
<1>3. Aimed("DellPersistentInitializeMedia", a, site, lost,
             DellPersistentInitializeMedia_execute(a, DellPersistentInitializeMedia_rows(a, site, lost)))
  <2> DEFINE seen == DellPersistentInitializeMedia_rows(a, site, lost)
  <2>1. Named(a, seen) /\ "DellPersistentInitializeMedia" \notin Discerning
    BY DiscoveryFacts, Zenon DEF DellPersistentInitializeMedia_rows, Discerning
  <2> HIDE DEF seen
  <2>2. Takes(DellPersistentInitializeMedia_execute(a, seen), seen.rows # {}, TheResource(seen.rows))
    BY TakenOutcomes, Zenon DEF DellPersistentInitializeMedia_execute
  <2>3. Aimed("DellPersistentInitializeMedia", a, site, lost, DellPersistentInitializeMedia_execute(a, seen))
    BY <2>1, <2>2, FirstRowIsAimed, Zenon
  <2> QED BY <2>3 DEF seen
<1>4. Aimed("DellSystemLcdErrors", a, site, lost,
             DellSystemLcdErrors_execute(a, DellSystemLcdErrors_rows(a, site, lost)))
  <2> DEFINE seen == DellSystemLcdErrors_rows(a, site, lost)
  <2>1. Named(a, seen) /\ "DellSystemLcdErrors" \notin Discerning
    BY DiscoveryFacts, Zenon DEF DellSystemLcdErrors_rows, Discerning
  <2> HIDE DEF seen
  <2>2. Takes(DellSystemLcdErrors_execute(a, seen), seen.rows # {}, TheResource(seen.rows))
    BY TakenOutcomes, Zenon DEF DellSystemLcdErrors_execute
  <2>3. Aimed("DellSystemLcdErrors", a, site, lost, DellSystemLcdErrors_execute(a, seen))
    BY <2>1, <2>2, FirstRowIsAimed, Zenon
  <2> QED BY <2>3 DEF seen
<1> QED
  BY <1>1, <1>2, <1>3, <1>4, Zenon

\* A command that insists on a single resource, whatever it offers, aims well.
LEMMA SingleResourceIsAimed ==
    ASSUME NEW c, NEW a, NEW site, NEW lost, NEW seen, NEW o,
           Placed(seen), Whole(a, site, lost, seen),
           LET near == ResourcesIn(Picked(seen.rows, a.pick)) IN
           o.kind = "call" => Single(near) /\ o.call.svc \in near
    PROVE  Aimed(c, a, site, lost, o)
<1> DEFINE near == ResourcesIn(Picked(seen.rows, a.pick))
<1> SUFFICES ASSUME o.kind = "call"
             PROVE  /\ a.pick \in {None, o.call.svc}
                    /\ lost = {} => Cardinality(Rivals(a, site)) <= 1
  BY DEF Aimed
<1>1. \A s \in near : s \in Services /\ a.pick \in {None, s}
  BY DEF ResourcesIn, Picked, Placed
<1>2. lost = {} => Rivals(a, site) \subseteq near
  <2> SUFFICES ASSUME lost = {}, NEW s \in Rivals(a, site) PROVE s \in near
    OBVIOUS
  <2>1. <<s, a.op>> \in seen.rows /\ a.pick \in {None, s}
    BY DEF Whole, Rivals
  <2>2. <<s, a.op>> \in Picked(seen.rows, a.pick)
    BY <2>1 DEF Picked
  <2> QED BY <2>2 DEF ResourcesIn
<1>3. Single(near) /\ o.call.svc \in near
  OBVIOUS
<1> HIDE DEF near
<1>4. PICK x : near = {x}
  <2>1. near \in SUBSET Services
    BY <1>1
  <2>2. IsFiniteSet(near)
    BY <2>1, FS_Subset, ServicesAssumption
  <2> QED BY <1>3, <2>2, FS_Singleton DEF Single
<1>5. Rivals(a, site) \in SUBSET Services
  BY DEF Rivals
<1> QED BY <1>1, <1>2, <1>3, <1>4, <1>5, AtMostOne

\* The commands that choose the resource before the action.
LEMMA ResourcesAreAimed ==
    ASSUME NEW a, a.pick \in {None} \cup Services,
           NEW site, DOMAIN site = Services, NEW lost
    PROVE  /\ Aimed("DellRaidBlink", a, site, lost,
                    DellRaidBlink_execute(a, DellRaidBlink_rows(a, site, lost)))
           /\ Aimed("NvidiaDebugToken", a, site, lost,
                    NvidiaDebugToken_execute(a, NvidiaDebugToken_rows(a, site, lost)))
<1>1. Aimed("DellRaidBlink", a, site, lost,
            DellRaidBlink_execute(a, DellRaidBlink_rows(a, site, lost)))
  <2> DEFINE seen == DellRaidBlink_rows(a, site, lost)
             rows == Picked(seen.rows, a.pick)
  <2>1. Placed(seen) /\ Whole(a, site, lost, seen)
    BY DiscoveryFacts, Zenon DEF DellRaidBlink_rows
  <2> HIDE DEF seen
  <2>2. Takes(DellRaidBlink_execute(a, seen), Single(ResourcesIn(rows)) /\ rows # {},
              TheResource(rows))
    BY TakenOutcomes, Zenon DEF DellRaidBlink_execute
  <2>3. rows # {} => TheResource(rows) \in ResourcesIn(rows)
    BY TakenFromRows DEF ResourcesIn
  <2>4. Aimed("DellRaidBlink", a, site, lost, DellRaidBlink_execute(a, seen))
    BY <2>1, <2>2, <2>3, SingleResourceIsAimed, Zenon DEF Takes
  <2> QED BY <2>4 DEF seen
<1>2. Aimed("NvidiaDebugToken", a, site, lost,
            NvidiaDebugToken_execute(a, NvidiaDebugToken_rows(a, site, lost)))
  <2> DEFINE seen == NvidiaDebugToken_rows(a, site, lost)
             tokens == ResourcesIn(Picked(seen.rows, a.pick))
  <2>1. Placed(seen) /\ Whole(a, site, lost, seen)
    BY DiscoveryFacts, Zenon DEF NvidiaDebugToken_rows
  <2> HIDE DEF seen
  <2>2. Takes(NvidiaDebugToken_execute(a, seen), Single(tokens), CHOOSE s \in tokens : TRUE)
    BY TakenOutcomes, Zenon DEF NvidiaDebugToken_execute
  <2>3. Single(tokens) => (CHOOSE s \in tokens : TRUE) \in tokens
    <3>1. tokens # {} => (CHOOSE s \in tokens : TRUE) \in tokens
      BY Zenon
    <3>2. tokens = {} => Cardinality(tokens) = 0
      BY FS_EmptySet, Zenon
    <3> QED BY <3>1, <3>2 DEF Single
  <2>4. Aimed("NvidiaDebugToken", a, site, lost, NvidiaDebugToken_execute(a, seen))
    BY <2>1, <2>2, <2>3, SingleResourceIsAimed, Zenon DEF Takes
  <2> QED BY <2>4 DEF seen
<1> QED BY <1>1, <1>2

\* The commands that read a resource which was named by its URI only.
LEMMA PointedSelectionsAreAimed ==
    ASSUME NEW a, a.pick \in {None} \cup Services,
           NEW site, DOMAIN site = Services, NEW lost
    PROVE  /\ Aimed("NetworkAdapterReset", a, site, lost,
                    NetworkAdapterReset_execute(a, NetworkAdapterReset_rows(a, site, lost)))
           /\ Aimed("ControlResetDefaults", a, site, lost,
                    ControlResetDefaults_execute(a, ControlResetDefaults_rows(a, site, lost)))
<1> DEFINE at == Found(Rows(site, {a.pick}))
<1>1. a.pick # None => Placed(at) /\ Named(a, at) /\ Whole(a, site, lost, at)
  <2> SUFFICES ASSUME a.pick # None PROVE Placed(at) /\ Named(a, at) /\ Whole(a, site, lost, at)
    OBVIOUS
  <2>1. at.rows = Rows(site, {a.pick})
    BY DEF Found
  <2>2. {a.pick} \in SUBSET Services
    OBVIOUS
  <2> QED BY <2>1, <2>2, RowsFacts DEF Placed, Named, Whole, Rivals
<1>2. /\ Placed(Unavailable) /\ Named(a, Unavailable)
      /\ Placed(Threw) /\ Named(a, Threw)
  BY DEF Unavailable, Threw, Placed, Named
<1>3. ASSUME NEW seen, lost # {} PROVE Whole(a, site, lost, seen)
  BY <1>3 DEF Whole
<1>4. ASSUME NEW seen, a.pick = None PROVE Named(a, seen)
  BY <1>4 DEF Named
<1>5. a.pick # None => a.pick \in DOMAIN site
  OBVIOUS
<1> HIDE DEF at
<1>6. Aimed("NetworkAdapterReset", a, site, lost,
            NetworkAdapterReset_execute(a, NetworkAdapterReset_rows(a, site, lost)))
  <2> DEFINE seen == NetworkAdapterReset_rows(a, site, lost)
  <2>1. Placed(seen) /\ Named(a, seen) /\ Whole(a, site, lost, seen)
    <3>1. CASE a.pick # None
      <4>1. seen = IF a.pick \in lost THEN Unavailable ELSE at
        BY <1>5, <3>1, Zenon DEF NetworkAdapterReset_rows, at
      <4>2. a.pick \in lost => lost # {}
        OBVIOUS
      <4> QED BY <1>1, <1>2, <1>3, <3>1, <4>1, <4>2, Zenon
    <3>2. CASE a.pick = None
      BY <1>2, <1>3, <1>4, <3>2, DiscoveryFacts, Zenon DEF NetworkAdapterReset_rows
    <3> QED BY <3>1, <3>2
  <2> HIDE DEF seen
  <2>2. LET rows == Offering(seen.rows, a.op) IN
        Takes(NetworkAdapterReset_execute(a, seen), Single(rows), TheResource(rows))
    BY TakenOutcomes, Zenon DEF NetworkAdapterReset_execute
  <2>3. Aimed("NetworkAdapterReset", a, site, lost, NetworkAdapterReset_execute(a, seen))
    BY <2>1, <2>2, NamedSelectionIsAimed, Zenon
  <2> QED BY <2>3 DEF seen
<1>7. Aimed("ControlResetDefaults", a, site, lost,
            ControlResetDefaults_execute(a, ControlResetDefaults_rows(a, site, lost)))
  <2> DEFINE seen == ControlResetDefaults_rows(a, site, lost)
  <2>1. Placed(seen) /\ Named(a, seen) /\ Whole(a, site, lost, seen)
    <3>1. CASE a.pick # None
      <4>1. seen = IF a.pick \in lost THEN Threw ELSE at
        BY <1>5, <3>1, Zenon DEF ControlResetDefaults_rows, at
      <4>2. a.pick \in lost => lost # {}
        OBVIOUS
      <4> QED BY <1>1, <1>2, <1>3, <3>1, <4>1, <4>2, Zenon
    <3>2. CASE a.pick = None
      BY <1>2, <1>3, <1>4, <3>2, DiscoveryFacts, Zenon DEF ControlResetDefaults_rows
    <3> QED BY <3>1, <3>2
  <2> HIDE DEF seen
  <2>2. LET rows == Offering(seen.rows, a.op) IN
        Takes(ControlResetDefaults_execute(a, seen), Single(rows), TheResource(rows))
    BY TakenOutcomes, Zenon DEF ControlResetDefaults_execute
  <2>3. Aimed("ControlResetDefaults", a, site, lost, ControlResetDefaults_execute(a, seen))
    BY <2>1, <2>2, NamedSelectionIsAimed, Zenon
  <2> QED BY <2>3 DEF seen
<1> QED BY <1>6, <1>7

\* The commands that are left: a schedule of the named service, the recovery of
\* the only system or of the one named, and the drive that is named.
LEMMA OtherCallsAreAimed ==
    ASSUME NEW a, a.pick \in {None} \cup Services,
           NEW site, DOMAIN site = Services, NEW lost
    PROVE  /\ Aimed("DellLcSupportAssistSchedule", a, site, lost,
                    DellLcSupportAssistSchedule_execute(a,
                       DellLcSupportAssistSchedule_rows(a, site, lost)))
           /\ (\A s \in Services : site[s] \subseteq {a.op}) =>
                 Aimed("DellBiosDeviceRecovery", a, site, lost,
                       DellBiosDeviceRecovery_execute(a, DellBiosDeviceRecovery_rows(a, site, lost)))
           /\ Aimed("DriveSecureErase", a, site, lost,
                    DriveSecureErase_execute(a, DriveSecureErase_rows(a, site, lost)))
<1>1. Aimed("DellLcSupportAssistSchedule", a, site, lost,
            DellLcSupportAssistSchedule_execute(a,
               DellLcSupportAssistSchedule_rows(a, site, lost)))
  <2> DEFINE seen == DellLcSupportAssistSchedule_rows(a, site, lost)
             rows == Offering(seen.rows, a.op)
  <2>1. Named(a, seen) /\ "DellLcSupportAssistSchedule" \notin Discerning
    BY DiscoveryFacts, Zenon DEF DellLcSupportAssistSchedule_rows, Discerning
  <2> HIDE DEF seen
  <2>2. Takes(DellLcSupportAssistSchedule_execute(a, seen), rows # {}, TheResource(rows))
    BY TakenOutcomes, Zenon DEF DellLcSupportAssistSchedule_execute, Offers
  <2>3. rows \subseteq seen.rows
    BY DEF Offering
  <2> HIDE DEF rows
  <2>4. Aimed("DellLcSupportAssistSchedule", a, site, lost,
              DellLcSupportAssistSchedule_execute(a, seen))
    BY <2>1, <2>2, <2>3, FirstRowIsAimed, Zenon
  <2> QED BY <2>4 DEF seen
<1>2. ASSUME \A s \in Services : site[s] \subseteq {a.op}
      PROVE  Aimed("DellBiosDeviceRecovery", a, site, lost,
                   DellBiosDeviceRecovery_execute(a, DellBiosDeviceRecovery_rows(a, site, lost)))
  <2> DEFINE seen == DellBiosDeviceRecovery_rows(a, site, lost)
             near == Reachable(a.pick, site, lost, {Primary})
             o == DellBiosDeviceRecovery_execute(a, seen)
  <2>1. Placed(seen) /\ Named(a, seen) /\ Whole(a, site, lost, seen)
    BY DiscoveryFacts, Zenon DEF DellBiosDeviceRecovery_rows
  <2>2. \A r \in seen.rows : r = <<r[1], a.op>> /\ r[1] \in Services /\ a.pick \in {None, r[1]}
    <3>1. seen.rows = Rows(site, near)
      BY Zenon DEF DellBiosDeviceRecovery_rows, NamedOrAll, Found
    <3>2. ASSUME NEW r \in seen.rows PROVE r[2] \in site[r[1]]
      BY <3>1, <3>2, Zenon DEF Rows
    <3> HIDE DEF seen
    <3> QED BY <1>2, <2>1, <3>2 DEF Placed, Named
  <2> HIDE DEF seen
  <2>3. Takes(o, seen.rows # {} /\ (Single(seen.rows) \/ a.pick # None), TheResource(seen.rows))
    BY TakenOutcomes, Zenon DEF DellBiosDeviceRecovery_execute
  <2> HIDE DEF o
  <2>4. CASE a.pick = None
    <3>1. Takes(o, Single(seen.rows), TheResource(seen.rows))
      BY <2>3, <2>4, Zenon DEF Takes
    <3>2. lost = {} => \A s \in Rivals(a, site) : <<s, a.op>> \in seen.rows
      BY <2>1 DEF Whole
    <3>3. Aimed("DellBiosDeviceRecovery", a, site, lost, o)
      BY <2>2, <3>1, <3>2, SingleRowIsAimed
    <3> QED BY <3>3 DEF o, seen
  <2>5. CASE a.pick # None
    <3>1. Rivals(a, site) \in SUBSET Services /\ Rivals(a, site) \subseteq {a.pick}
      BY <2>5 DEF Rivals
    <3>2. Cardinality(Rivals(a, site)) <= 1
      BY <3>1, AtMostOne
    <3>3. o.kind = "call" => a.pick \in {None, o.call.svc}
      BY <2>2, <2>3, TakenFromRows DEF Takes
    <3>4. Aimed("DellBiosDeviceRecovery", a, site, lost, o)
      BY <3>2, <3>3 DEF Aimed
    <3> QED BY <3>4 DEF o, seen
  <2> QED BY <2>4, <2>5
<1>3. Aimed("DriveSecureErase", a, site, lost,
            DriveSecureErase_execute(a, DriveSecureErase_rows(a, site, lost)))
  <2> DEFINE o == DriveSecureErase_execute(a, DriveSecureErase_rows(a, site, lost))
  <2>1. "DriveSecureErase" \notin Discerning
    BY DEF Discerning
  <2>2. a.pick # None => Takes(o, TRUE, a.pick)
    BY TakenOutcomes, Zenon DEF DriveSecureErase_execute
  <2> HIDE DEF o
  <2>3. Aimed("DriveSecureErase", a, site, lost, o)
    BY <2>1, <2>2 DEF Takes, Aimed
  <2> QED BY <2>3 DEF o
<1> QED BY <1>1, <1>2, <1>3

\* The BMC offers nothing but the action of the BIOS service in the rows of the
\* recovery command.
LEMMA RecoveryHasOneAction ==
    ASSUME NEW a \in ArgsOf["DellBiosDeviceRecovery"],
           NEW site \in SitesOf("DellBiosDeviceRecovery", a)
    PROVE  \A s \in Services : site[s] \subseteq {a.op}
<1> DEFINE c == "DellBiosDeviceRecovery"
<1>1. c \in ResourceCommands
  BY DEF ResourceCommands
<1>2. ArgsOf[c] = ResourceArgs(c)
  BY <1>1, FamiliesAreApart, Zenon DEF ArgsOf, Commands
<1>3. ResourceArgs(c) = DellBiosDeviceRecovery_args
  BY SMTT(60) DEF ResourceArgs
<1>4. \A b \in ArgsOf[c] : b.op = "#DellBIOSService.DeviceRecovery"
  <2>1. \A b \in DellBiosDeviceRecovery_args : b.op = "#DellBIOSService.DeviceRecovery"
    BY DEF DellBiosDeviceRecovery_args, Arguments
  <2> QED BY <1>2, <1>3, <2>1, Zenon
<1>5. ActionsOf(c) \subseteq {a.op}
  BY <1>4 DEF ActionsOf
<1> QED BY <1>5 DEF SitesOf

\* execute() of every command, on what its discovery returns.
LEMMA CommandsAreAimed ==
    ASSUME NEW c \in Commands, NEW a \in ArgsOf[c], NEW site \in SitesOf(c, a), NEW lost
    PROVE  Aimed(c, a, site, lost, OutcomeOf(c, a, RowsOf(c, a, site, lost)))
<1>1. a.pick \in {None} \cup Services /\ (a.pick = None \/ c \in Picking)
  BY ArgumentsAreKnown DEF Known
<1>2. DOMAIN site = Services
  BY DEF SitesOf
<1> USE <1>1, <1>2
<1>3. CASE c \notin Picking
  <2>1. c \notin Discerning
    BY <1>3 DEF Picking, Discerning
  <2> QED BY <1>3, <2>1 DEF Aimed
<1>4. CASE c \in Picking /\ c \in RaidCommands
  <2>1. OutcomeOf(c, a, RowsOf(c, a, site, lost)) = RaidOutcome(c, a, RaidRows(c, a, site, lost))
    BY FamiliesAreApart, <1>4, Zenon DEF OutcomeOf, RowsOf
  <2>2. Aimed(c, a, site, lost, RaidOutcome(c, a, RaidRows(c, a, site, lost)))
    BY <1>4, ResourcesAreAimed, SelectionsAreAimed, SMTT(60)
       DEF RaidOutcome, RaidRows, RaidCommands, Picking
  <2> QED BY <2>1, <2>2, Zenon
<1>5. CASE c \in Picking /\ c \in LifecycleCommands
  <2>1. OutcomeOf(c, a, RowsOf(c, a, site, lost))
           = LifecycleOutcome(c, a, LifecycleRows(c, a, site, lost))
    BY FamiliesAreApart, <1>5, Zenon DEF OutcomeOf, RowsOf
  <2>2. Aimed(c, a, site, lost, LifecycleOutcome(c, a, LifecycleRows(c, a, site, lost)))
    BY <1>5, FirstRowsAreAimed, NamedSelectionsAreAimed, SelectionsAreAimed,
       OtherCallsAreAimed, SMTT(60)
       DEF LifecycleOutcome, LifecycleRows, LifecycleCommands, Picking
  <2> QED BY <2>1, <2>2, Zenon
<1>6. CASE c \in Picking /\ c \in CardCommands
  <2>1. OutcomeOf(c, a, RowsOf(c, a, site, lost)) = CardOutcome(c, a, CardRows(c, a, site, lost))
    BY FamiliesAreApart, <1>6, Zenon DEF OutcomeOf, RowsOf
  <2>2. Aimed(c, a, site, lost, CardOutcome(c, a, CardRows(c, a, site, lost)))
    BY <1>6, FirstRowsAreAimed, NamedSelectionsAreAimed, SelectionsAreAimed,
       ResourcesAreAimed, SMTT(60)
       DEF CardOutcome, CardRows, CardCommands, Picking
  <2> QED BY <2>1, <2>2, Zenon
<1>7. CASE c \in Picking /\ c \in StandardCommands
  <2>1. OutcomeOf(c, a, RowsOf(c, a, site, lost))
           = StandardOutcome(c, a, StandardRows(c, a, site, lost))
    BY FamiliesAreApart, <1>7, Zenon DEF OutcomeOf, RowsOf
  <2>2. Aimed(c, a, site, lost, StandardOutcome(c, a, StandardRows(c, a, site, lost)))
    BY <1>7, SelectionsAreAimed, PointedSelectionsAreAimed, SMTT(60)
       DEF StandardOutcome, StandardRows, StandardCommands, Picking
  <2> QED BY <2>1, <2>2, Zenon
<1>8. CASE c \in Picking /\ c \in ResourceCommands
  <2>1. OutcomeOf(c, a, RowsOf(c, a, site, lost))
           = ResourceOutcome(c, a, ResourceRows(c, a, site, lost))
    BY FamiliesAreApart, <1>8, Zenon DEF OutcomeOf, RowsOf
  <2>2. c = "DellBiosDeviceRecovery" => \A s \in Services : site[s] \subseteq {a.op}
    BY RecoveryHasOneAction
  <2>3. Aimed(c, a, site, lost, ResourceOutcome(c, a, ResourceRows(c, a, site, lost)))
    BY <1>8, <2>2, FirstRowsAreAimed, NamedSelectionsAreAimed, SelectionsAreAimed,
       PointedSelectionsAreAimed, OtherCallsAreAimed, SMTT(60)
       DEF ResourceOutcome, ResourceRows, ResourceCommands, Picking
  <2> QED BY <2>1, <2>3, Zenon
<1> QED BY <1>3, <1>4, <1>5, <1>6, <1>7, <1>8, Zenon DEF Commands

-----------------------------------------------------------------------------
\* The second inductive invariant, on top of the first: the call hands on what
\* the user said, to the resource that was named and that alone fits.
AskInv ==
    /\ pc \in {"read", "gate", "post"} =>
         /\ Generous(cmd, args, call)
         /\ cmd \in Mild => args.op # None
    /\ pc \in {"read", "gate", "post"} \/ posts # <<>> =>
         /\ args.pick \in {None, call.svc}
         /\ cmd \in Discerning /\ ~missed => Cardinality(rivals) <= 1
    /\ result = "preview" /\ full = call.op => Excused(cmd, args)

\* It is more than the two properties.
LEMMA AskInvImplies == AskInv => PostsWhereAsked /\ ConfirmedRunIsNoPreview
  BY Zenon DEF AskInv, PostsWhereAsked, ConfirmedRunIsNoPreview, HasOption, Excused

\* A command starts with nothing called.
LEMMA AskInvInit == Init => AskInv
  BY DEF Init, AskInv, None

\* Every step keeps the call what the user asked for.
LEMMA AskInvStep == GuardInv /\ AskInv /\ [Next]_vars => AskInv'
<1> SUFFICES ASSUME GuardInv, AskInv, [Next]_vars PROVE AskInv'
  BY Zenon
<1>1. CASE Execute
  <2>1. /\ pc = "start" /\ posts' = <<>> /\ result = None
        /\ cmd' = cmd /\ args' = args /\ cmd \in Commands /\ args \in ArgsOf[cmd]
    BY <1>1, SMTT(60) DEF Execute, GuardInv, Unsent
  <2>2. PICK site \in SitesOf(cmd, args), lost \in SUBSET (Services \cup {Root}) :
           LET o == OutcomeOf(cmd, args, RowsOf(cmd, args, site, lost)) IN
           /\ call' = o.call
           /\ rivals' = {s \in Services : args.op \in site[s] /\ args.pick \in {None, s}}
           /\ missed' = (lost # {})
           /\ IF o.kind = "call" THEN pc' = "read" /\ UNCHANGED result ELSE Finish(o.kind)
    BY <1>1, Zenon DEF Execute
  <2> DEFINE seen == RowsOf(cmd, args, site, lost)
             o == OutcomeOf(cmd, args, seen)
  <2>3. Honest(cmd, args, o)
    BY <2>1, CommandsAreHonest
  <2>4. Aimed(cmd, args, site, lost, o)
    BY <2>1, CommandsAreAimed
  <2>5. cmd \in Mild /\ o.kind = "call" => args.op # None
    BY <2>1, MildCallsAct
  <2>6. /\ call' = o.call /\ rivals' = Rivals(args, site) /\ missed' = (lost # {})
        /\ IF o.kind = "call" THEN pc' = "read" /\ UNCHANGED result ELSE Finish(o.kind)
    BY <2>2, Zenon DEF Rivals
  <2> HIDE DEF o, seen
  <2>7. CASE o.kind = "call"
    <3>1. pc' = "read" /\ result' = None
      BY <2>1, <2>6, <2>7
    <3>2. Generous(cmd', args', call')
      BY SMTT(30), <2>1, <2>3, <2>6, <2>7 DEF Honest
    <3>3. /\ args.pick \in {None, call'.svc}
          /\ cmd \in Discerning /\ ~missed' => Cardinality(rivals') <= 1
      BY Zenon, <2>4, <2>6, <2>7 DEF Aimed
    <3> QED BY <2>1, <2>5, <2>7, <3>1, <3>2, <3>3 DEF AskInv, None
  <2>8. CASE o.kind # "call"
    <3>1. pc' = "done" /\ result' \in {"shown", "failed", "raised"}
      BY SMTT(30), <2>3, <2>6, <2>8 DEF Honest, Finish
    <3> QED BY <2>1, <3>1 DEF AskInv
  <2> QED BY <2>7, <2>8
<1>2. CASE ResolveTarget \/ RejectPayload \/ LetThrough
  BY <1>2
     DEF ResolveTarget, RejectPayload, LetThrough, Finish, AskInv, GuardInv, Unsent,
         None
<1>3. CASE Preview
  <2>1. /\ pc = "gate" /\ pc' = "done" /\ result' = "preview" /\ posts = <<>>
        /\ UNCHANGED <<cmd, args, call, rivals, missed, full, posts>>
        /\ cmd \in Commands /\ args \in ArgsOf[cmd]
    BY <1>3 DEF Preview, Finish, GuardInv, Unsent
  <2>2. Generous(cmd, args, call) /\ (cmd \in Mild => args.op # None)
    BY <2>1 DEF AskInv
  <2>3. ASSUME full = call.op PROVE Excused(cmd, args)
    <3>1. \/ call.dry
          \/ classify(call.op) = "irreversible" /\ ~(call.confirm /\ call.token)
          \/ classify(call.op) = "destructive" /\ ~call.confirm
      BY <1>3, <2>3, Zenon DEF Preview, effective_dry, Blocked
    <3> QED BY <2>1, <2>2, <3>1, HeldBackCallIsExcused
  <2>4. full' = call'.op => Excused(cmd, args)'
    BY <2>1, <2>3 DEF Excused
  <2> QED BY <2>1, <2>4 DEF AskInv
<1>4. CASE FollowPreview
  <2>1. /\ pc = "gate" /\ pc' \in {"read", "post", "done"} /\ result' \in {None, "failed"}
        /\ UNCHANGED <<cmd, args, rivals, missed, full, posts>> /\ posts = <<>>
        /\ call' = call \/ call' = [call EXCEPT !.probe = FALSE]
        /\ IsCall(call)
    BY <1>4 DEF FollowPreview, Finish, GuardInv, Unsent
  <2>2. /\ call'.svc = call.svc /\ call'.op = call.op /\ call'.dry = call.dry
        /\ call'.confirm = call.confirm /\ call'.token = call.token
    BY <2>1 DEF IsCall
  <2> QED BY <2>1, <2>2 DEF AskInv, Generous, None
<1>5. CASE Post \/ FollowReboot
  <2>1. /\ pc \in {"post", "follow"} /\ pc' \in {"follow", "done"}
        /\ UNCHANGED <<cmd, args, call, rivals, missed, full>>
        /\ result' \in {None, "executed", "failed", "raised"}
    BY <1>5, Zenon DEF Post, FollowReboot, Finish, GuardInv, Unsent
  <2>2. pc = "post" \/ posts # <<>>
    BY <2>1 DEF GuardInv
  <2> QED BY <2>1, <2>2 DEF AskInv, None
<1>6. CASE UNCHANGED vars
  BY <1>6 DEF vars, AskInv, Excused
<1> QED
  BY <1>1, <1>2, <1>3, <1>4, <1>5, <1>6, Zenon DEF Next

=============================================================================
