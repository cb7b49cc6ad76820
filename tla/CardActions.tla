----------------------------- MODULE CardActions ----------------------------
(***************************************************************************)
(* The commands over DelliDRACCardService and DellPersistentStorageService *)
(* and those over the HPE, NVIDIA and Supermicro extensions                *)
(* (redfish_ctl/oem).  Selectors that a command treats alike are           *)
(* represented by two of them.                                             *)
(***************************************************************************)
EXTENDS Invocation

\* Its --query, which lets the export run, takes the place of --confirm.
DellCardCertExport_args ==
    Arguments({None, "#DelliDRACCardService.ExportCertificate",
               "#DelliDRACCardService.ExportSSLCertificate"},
              {"pick", "filled", "confirm", "dry"})
DellCardCertExport_rows(a, site, lost) ==
    IF lost # {} THEN Unavailable ELSE AllTolerant(site, lost)
DellCardCertExport_execute(a, seen) ==
    LET matches == Picked(Offering(seen.rows, a.op), a.pick) IN
    IF seen.st = "unavailable" THEN Failed
    ELSE IF a.op = None THEN Shown
    ELSE IF ~Single(matches) \/ ~a.filled THEN Failed
    ELSE Call(TheResource(matches), a.op, a.dry \/ ~a.confirm, FALSE, FALSE)

DellCardCsr_args ==
    Arguments({None, Unknown, "#DelliDRACCardService.FactoryIdentityCertificateGenerateCSR",
               "#DelliDRACCardService.GenerateSEKMCSR"}, {"pick", "confirm", "dry"})
DellCardCsr_rows(a, site, lost) == NamedOrAll(a.pick, site, lost)
DellCardCsr_execute(a, seen) ==
    LET matches == Picked(Offering(seen.rows, a.op), a.pick) IN
    IF a.op = None THEN Shown
    ELSE IF ~Single(matches) THEN Failed
    ELSE InvokeIfConfirmed(TheResource(matches), a)

DellCardGroupActions_args ==
    Arguments({None, Unknown, "#DelliDRACCardService.DeleteGroup",
               "#DelliDRACCardService.JoinGroup"}, {"filled", "pick", "confirm", "dry"})
DellCardGroupActions_rows(a, site, lost) == NamedOrAll(a.pick, site, lost)
DellCardGroupActions_execute(a, seen) ==
    LET matches == Picked(Offering(seen.rows, a.op), a.pick) IN
    IF a.op = None THEN (IF a.filled THEN Shown ELSE Raised)
    ELSE IF ~Single(matches) \/ ~a.filled THEN Raised
    ELSE InvokeIfConfirmed(TheResource(matches), a)

\* An algorithm, --dry_run or --confirm asks for the proof.
DellCardHwProof_args ==
    Arguments({"#DelliDRACCardService.VerifyHWProofOfPossession"},
              {"given", "filled", "pick", "confirm", "dry"})
DellCardHwProof_rows(a, site, lost) == NamedOrAll(a.pick, site, lost)
DellCardHwProof_execute(a, seen) ==
    LET rows == Offering(seen.rows, a.op) IN
    IF ~(a.given \/ a.dry \/ a.confirm) THEN Shown
    ELSE IF ~Single(rows) \/ ~a.filled THEN Failed
    ELSE InvokeIfConfirmed(TheResource(rows), a)

DellCardKeyManagement_args ==
    Arguments({None, "#DelliDRACCardService.DisableiLKM", "#DelliDRACCardService.Rekey"},
              {"filled", "pick", "confirm", "dry"})
DellCardKeyManagement_rows(a, site, lost) == NamedOrAll(a.pick, site, lost)
DellCardKeyManagement_execute(a, seen) ==
    LET matches == Picked(Offering(seen.rows, a.op), a.pick) IN
    IF a.op = None THEN (IF a.filled THEN Shown ELSE Raised)
    ELSE IF ~Single(matches) \/ ~a.filled THEN Raised
    ELSE InvokeIfConfirmed(TheResource(matches), a)

DellCardSekmTest_args ==
    Arguments({"#DelliDRACCardService.TestSEKMServerConnection"},
              {"given", "pick", "confirm", "dry"})
DellCardSekmTest_rows(a, site, lost) == NamedOrAll(a.pick, site, lost)
DellCardSekmTest_execute(a, seen) ==
    LET rows == Offering(seen.rows, a.op) IN
    IF ~a.given THEN Shown
    ELSE IF ~Single(rows) THEN Failed
    ELSE InvokeIfConfirmed(TheResource(rows), a)

DellCardTestActions_args ==
    Arguments({None, "#DelliDRACCardService.SendTestEmailAlert",
               "#DelliDRACCardService.SendTestSNMPTrap"}, {"pick", "confirm", "dry"})
DellCardTestActions_rows(a, site, lost) == AllUnderRoot(site, lost)
DellCardTestActions_execute(a, seen) ==
    LET matches == Picked(Offering(seen.rows, a.op), a.pick) IN
    IF seen.st = "threw" THEN Raised
    ELSE IF a.op = None THEN Shown
    ELSE IF ~Single(matches) THEN Failed
    ELSE InvokeIfConfirmed(TheResource(matches), a)

DellPersistentInitializeMedia_args ==
    Arguments({"#DellPersistentStorageService.InitializeMedia"},
              {"pick", "confirm", "token", "dry"})
DellPersistentInitializeMedia_rows(a, site, lost) == FirstOffering(a.pick, site, lost)
DellPersistentInitializeMedia_execute(a, seen) ==
    IF seen.rows = {} THEN Failed ELSE InvokeWithToken(TheResource(seen.rows), a)

DellPersistentPartitionActions_args ==
    Arguments({None, Unknown, "#DellPersistentStorageService.AttachPartition",
               "#DellPersistentStorageService.FormatPartition"},
              {"filled", "confirm", "token", "dry"})
DellPersistentPartitionActions_rows(a, site, lost) == OneOrError(site, lost)
DellPersistentPartitionActions_execute(a, seen) ==
    IF seen.st = "unavailable" THEN Failed
    ELSE IF a.op = None THEN Shown
    ELSE IF ~Offers(seen.rows, a.op) THEN Failed
    ELSE IF ~a.filled THEN Raised
    ELSE InvokeWithToken(Primary, a)

DellVFlashStateChange_args ==
    Requiring(Arguments({"#DellPersistentStorageService.VFlashStateChange"},
                        {"given", "filled", "confirm", "dry"}))
DellVFlashStateChange_rows(a, site, lost) ==
    IF a.given THEN NoDiscovery ELSE OneOrError(site, lost)
DellVFlashStateChange_execute(a, seen) ==
    IF ~a.given THEN (IF Offers(seen.rows, a.op) THEN Shown ELSE Failed)
    ELSE IF ~a.filled THEN Raised
    ELSE Invoke(Primary, a)

HpeChassisActions_args ==
    Arguments({None, "#HpeServerChassis.DisableMCTPOnServer"}, {"pick", "confirm", "dry"})
HpeChassisActions_rows(a, site, lost) == AllTolerant(site, lost)
HpeChassisActions_execute(a, seen) ==
    LET matches == Picked(Offering(seen.rows, a.op), a.pick) IN
    IF a.op = None THEN Shown
    ELSE IF ~Single(matches) THEN Failed
    ELSE InvokeIfConfirmed(TheResource(matches), a)

HpeKerberosKeytabImport_args ==
    Requiring(Arguments({"#HpeiLOAccountService.ImportKerberosKeytab"},
                        {"given", "filled", "confirm", "dry"}))
HpeKerberosKeytabImport_rows(a, site, lost) ==
    IF a.given THEN NoDiscovery ELSE OneOrError(site, lost)
HpeKerberosKeytabImport_execute(a, seen) ==
    IF ~a.given THEN (IF Offers(seen.rows, a.op) THEN Shown ELSE Failed)
    ELSE IF ~a.filled THEN Raised
    ELSE Invoke(Primary, a)

HpeTestActions_args ==
    Arguments({None, "#HpeiLOSnmpService.SendSNMPTestAlert",
               "#HpeiLOManagerNetworkService.SendTestSyslog"}, {"pick", "confirm", "dry"})
HpeTestActions_rows(a, site, lost) == AllUnderRoot(site, lost)
HpeTestActions_execute(a, seen) ==
    LET matches == Picked(Offering(seen.rows, a.op), a.pick) IN
    IF seen.st = "threw" THEN Raised
    ELSE IF a.op = None THEN Shown
    ELSE IF ~Single(matches) THEN Failed
    ELSE InvokeIfConfirmed(TheResource(matches), a)

\* The resource is resolved before the action, so that a resource which offers
\* another token action only is passed on to invoke_action.
NvidiaDebugToken_args ==
    Arguments({None, "#NvidiaDebugToken.DisableToken", "#NvidiaDebugToken.InstallToken"},
              {"filled", "pick", "confirm", "dry"})
NvidiaDebugToken_rows(a, site, lost) == AllUnderRoot(site, lost)
NvidiaDebugToken_execute(a, seen) ==
    LET tokens == ResourcesIn(Picked(seen.rows, a.pick)) IN
    IF seen.st = "threw" THEN Raised
    ELSE IF a.op = None THEN Shown
    ELSE IF ~Single(tokens) \/ ~a.filled THEN Raised
    ELSE InvokeIfConfirmed(CHOOSE s \in tokens : TRUE, a)

\* A node manager is named by its URI (pick) or by an Id that several share.
SmcNodeManagerClearPolicies_args ==
    Arguments({"#SmcNodeManager.ClearAllPolicies"}, {"given", "pick", "confirm", "dry"})
SmcNodeManagerClearPolicies_rows(a, site, lost) == AllStrict(site, lost)
SmcNodeManagerClearPolicies_execute(a, seen) ==
    LET matches == Picked(Offering(seen.rows, a.op), a.pick) IN
    IF seen.st = "threw" THEN Raised
    ELSE IF ~a.given /\ a.pick = None THEN Shown
    ELSE IF ~Single(matches) THEN Raised
    ELSE Invoke(TheResource(matches), a)
-----------------------------------------------------------------------------
\* The commands of this module.
CardCommands ==
    {"DellCardCertExport", "DellCardCsr", "DellCardGroupActions", "DellCardHwProof",
     "DellCardKeyManagement", "DellCardSekmTest", "DellCardTestActions",
     "DellPersistentInitializeMedia", "DellPersistentPartitionActions",
     "DellVFlashStateChange", "HpeChassisActions", "HpeKerberosKeytabImport",
     "HpeTestActions", "NvidiaDebugToken", "SmcNodeManagerClearPolicies"}
CardArgs(c) ==
    CASE c = "DellCardCertExport" -> DellCardCertExport_args
      [] c = "DellCardCsr" -> DellCardCsr_args
      [] c = "DellCardGroupActions" -> DellCardGroupActions_args
      [] c = "DellCardHwProof" -> DellCardHwProof_args
      [] c = "DellCardKeyManagement" -> DellCardKeyManagement_args
      [] c = "DellCardSekmTest" -> DellCardSekmTest_args
      [] c = "DellCardTestActions" -> DellCardTestActions_args
      [] c = "DellPersistentInitializeMedia" -> DellPersistentInitializeMedia_args
      [] c = "DellPersistentPartitionActions" -> DellPersistentPartitionActions_args
      [] c = "DellVFlashStateChange" -> DellVFlashStateChange_args
      [] c = "HpeChassisActions" -> HpeChassisActions_args
      [] c = "HpeKerberosKeytabImport" -> HpeKerberosKeytabImport_args
      [] c = "HpeTestActions" -> HpeTestActions_args
      [] c = "NvidiaDebugToken" -> NvidiaDebugToken_args
      [] c = "SmcNodeManagerClearPolicies" -> SmcNodeManagerClearPolicies_args
CardRows(c, a, site, lost) ==
    CASE c = "DellCardCertExport" -> DellCardCertExport_rows(a, site, lost)
      [] c = "DellCardCsr" -> DellCardCsr_rows(a, site, lost)
      [] c = "DellCardGroupActions" -> DellCardGroupActions_rows(a, site, lost)
      [] c = "DellCardHwProof" -> DellCardHwProof_rows(a, site, lost)
      [] c = "DellCardKeyManagement" -> DellCardKeyManagement_rows(a, site, lost)
      [] c = "DellCardSekmTest" -> DellCardSekmTest_rows(a, site, lost)
      [] c = "DellCardTestActions" -> DellCardTestActions_rows(a, site, lost)
      [] c = "DellPersistentInitializeMedia" -> DellPersistentInitializeMedia_rows(a, site, lost)
      [] c = "DellPersistentPartitionActions" -> DellPersistentPartitionActions_rows(a, site, lost)
      [] c = "DellVFlashStateChange" -> DellVFlashStateChange_rows(a, site, lost)
      [] c = "HpeChassisActions" -> HpeChassisActions_rows(a, site, lost)
      [] c = "HpeKerberosKeytabImport" -> HpeKerberosKeytabImport_rows(a, site, lost)
      [] c = "HpeTestActions" -> HpeTestActions_rows(a, site, lost)
      [] c = "NvidiaDebugToken" -> NvidiaDebugToken_rows(a, site, lost)
      [] c = "SmcNodeManagerClearPolicies" -> SmcNodeManagerClearPolicies_rows(a, site, lost)
CardOutcome(c, a, seen) ==
    CASE c = "DellCardCertExport" -> DellCardCertExport_execute(a, seen)
      [] c = "DellCardCsr" -> DellCardCsr_execute(a, seen)
      [] c = "DellCardGroupActions" -> DellCardGroupActions_execute(a, seen)
      [] c = "DellCardHwProof" -> DellCardHwProof_execute(a, seen)
      [] c = "DellCardKeyManagement" -> DellCardKeyManagement_execute(a, seen)
      [] c = "DellCardSekmTest" -> DellCardSekmTest_execute(a, seen)
      [] c = "DellCardTestActions" -> DellCardTestActions_execute(a, seen)
      [] c = "DellPersistentInitializeMedia" -> DellPersistentInitializeMedia_execute(a, seen)
      [] c = "DellPersistentPartitionActions" -> DellPersistentPartitionActions_execute(a, seen)
      [] c = "DellVFlashStateChange" -> DellVFlashStateChange_execute(a, seen)
      [] c = "HpeChassisActions" -> HpeChassisActions_execute(a, seen)
      [] c = "HpeKerberosKeytabImport" -> HpeKerberosKeytabImport_execute(a, seen)
      [] c = "HpeTestActions" -> HpeTestActions_execute(a, seen)
      [] c = "NvidiaDebugToken" -> NvidiaDebugToken_execute(a, seen)
      [] c = "SmcNodeManagerClearPolicies" -> SmcNodeManagerClearPolicies_execute(a, seen)
=============================================================================
