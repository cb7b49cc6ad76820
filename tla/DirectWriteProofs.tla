-------------------------- MODULE DirectWriteProofs ---------------------------
(***************************************************************************)
(* Proofs about the commands that write without invoke_action, for every   *)
(* command, every choice of its options and every answer of the BMC: what  *)
(* is sent was confirmed, the host restarts only where that was asked for, *)
(* a refusal is reported, and nothing is built on a request that was       *)
(* refused.  Each program is shown to have what WriteMachineProofs asks    *)
(* of one.                                                                 *)
(***************************************************************************)
EXTENDS DirectWrites, WriteMachineProofs

-----------------------------------------------------------------------------
(* The table of the commands. *)

\* The commands, by their names.
CommandNames ==
    {"JobApply", "JobDel", "JobRmDellServices", "JobWatch", "GetTask",
     "BiosChangeSettings", "ChangeBootOrder", "BiosClearPending",
     "BiosProfile", "BootSourceUpdate", "EnableBootOptions",
     "BootOptionsClearPending", "ChassisReset", "BootOneShot",
     "AttributeClearPending", "AttributesUpdate",
     "GetRemoteServicesAPIStatus", "GetRemoteRssAPIStatus", "AccountCreate",
     "AccountUpdate", "AccountDelete", "AccountImportSSHKey",
     "ExportSystemConfig", "ImportSystemConfig", "ImportOneTimeBoot",
     "ChassisUpdate", "AssetTagSet", "IdentifyLed", "DnsSet", "NtpSet",
     "ManagerTime", "ManagerReset", "DellNetworkAttributes",
     "SerialConsoleConfig", "DellOemAttach", "DellOemNetIsoBoot",
     "DellOemDetach", "DellOemDisconnect", "GetAttachStatus",
     "GetNetworkIsoAttachStatus", "VirtualMediaEject", "VirtualMediaInsert",
     "MountCdrom", "SmcVirtualMediaMount", "ConvertNoneRaid",
     "ConvertToRaid", "VolumeInit", "VolumeCreate", "VolumeDelete",
     "FirmwareUpdate", "SubscriptionCreate", "SubscriptionDelete"}

\* The table of the commands names these and no others.
LEMMA CommandsByName == \A c \in DirectCommands : c \in CommandNames
  BY DEF DirectCommands, OptionsOf, CommandNames

\* The commands that can be told not to write, or have to be told to.
LEMMA HoldingOptions ==
    ASSUME NEW c \in DirectCommands
    PROVE  /\ "show" \in OptionsOf[c] => c \in {"BiosChangeSettings", "BootSourceUpdate"}
           /\ "status" \in OptionsOf[c] => c \in {"SmcVirtualMediaMount"}
           /\ "dry" \in OptionsOf[c] => c \in
                 {"BiosProfile", "BootOneShot", "DellNetworkAttributes",
                  "VolumeCreate", "VolumeDelete",
                  "FirmwareUpdate"}
           /\ "confirm" \in OptionsOf[c] => c \in
                 {"BiosProfile", "AccountCreate", "AccountUpdate",
                  "AccountDelete", "AccountImportSSHKey",
                  "AssetTagSet", "IdentifyLed", "DnsSet",
                  "NtpSet", "DellNetworkAttributes",
                  "SerialConsoleConfig", "MountCdrom",
                  "VolumeCreate", "VolumeDelete",
                  "FirmwareUpdate", "SubscriptionCreate",
                  "SubscriptionDelete"}
<1>1. CASE c \in {"JobApply", "JobDel", "JobRmDellServices", "JobWatch", "GetTask",
                  "BiosChangeSettings", "ChangeBootOrder"}
  BY <1>1 DEF OptionsOf,
     JobApply_options, JobDel_options, JobRmDellServices_options, JobWatch_options,
     GetTask_options, BiosChangeSettings_options, ChangeBootOrder_options
<1>2. CASE c \in {"BiosClearPending", "BiosProfile", "BootSourceUpdate",
                  "EnableBootOptions", "BootOptionsClearPending", "ChassisReset",
                  "BootOneShot"}
  BY <1>2 DEF OptionsOf,
     BiosClearPending_options, BiosProfile_options, BootSourceUpdate_options,
     EnableBootOptions_options, BootOptionsClearPending_options,
     ChassisReset_options, BootOneShot_options
<1>3. CASE c \in {"AttributeClearPending", "AttributesUpdate",
                  "GetRemoteServicesAPIStatus", "GetRemoteRssAPIStatus",
                  "AccountCreate", "AccountUpdate", "AccountDelete"}
  BY <1>3 DEF OptionsOf,
     AttributeClearPending_options, AttributesUpdate_options,
     GetRemoteServicesAPIStatus_options, GetRemoteRssAPIStatus_options,
     AccountCreate_options, AccountUpdate_options, AccountDelete_options
<1>4. CASE c \in {"AccountImportSSHKey", "ExportSystemConfig", "ImportSystemConfig",
                  "ImportOneTimeBoot", "ChassisUpdate", "AssetTagSet", "IdentifyLed"}
  BY <1>4 DEF OptionsOf,
     AccountImportSSHKey_options, ExportSystemConfig_options,
     ImportSystemConfig_options, ImportOneTimeBoot_options, ChassisUpdate_options,
     AssetTagSet_options, IdentifyLed_options
<1>5. CASE c \in {"DnsSet", "NtpSet", "ManagerTime", "ManagerReset",
                  "DellNetworkAttributes", "SerialConsoleConfig", "DellOemAttach"}
  BY <1>5 DEF OptionsOf,
     DnsSet_options, NtpSet_options, ManagerTime_options, ManagerReset_options,
     DellNetworkAttributes_options, SerialConsoleConfig_options,
     DellOemAttach_options
<1>6. CASE c \in {"DellOemNetIsoBoot", "DellOemDetach", "DellOemDisconnect",
                  "GetAttachStatus", "GetNetworkIsoAttachStatus",
                  "VirtualMediaEject", "VirtualMediaInsert"}
  BY <1>6 DEF OptionsOf,
     DellOemNetIsoBoot_options, DellOemDetach_options, DellOemDisconnect_options,
     GetAttachStatus_options, GetNetworkIsoAttachStatus_options,
     VirtualMediaEject_options, VirtualMediaInsert_options
<1>7. CASE c \in {"MountCdrom", "SmcVirtualMediaMount", "ConvertNoneRaid",
                  "ConvertToRaid", "VolumeInit", "VolumeCreate", "VolumeDelete"}
  BY <1>7 DEF OptionsOf,
     MountCdrom_options, SmcVirtualMediaMount_options, ConvertNoneRaid_options,
     ConvertToRaid_options, VolumeInit_options, VolumeCreate_options,
     VolumeDelete_options
<1>8. CASE c \in {"FirmwareUpdate", "SubscriptionCreate", "SubscriptionDelete"}
  BY <1>8 DEF OptionsOf,
     FirmwareUpdate_options, SubscriptionCreate_options, SubscriptionDelete_options
<1> QED BY SMTT(30), <1>1, <1>2, <1>3, <1>4, <1>5, <1>6, <1>7, <1>8, CommandsByName
           DEF CommandNames

-----------------------------------------------------------------------------
(* No program makes a request that it is not asked for. *)

\* The commands that stage settings and apply jobs for them.
Stagers == {"BiosChangeSettings", "ChangeBootOrder", "BootSourceUpdate"}

\* The requests that a program may make: a restart and a commit only where the
\* options ask for them, an insert or a mount only by the commands for it.
Needs(c, o) ==
    {"configure", "delete", "eject", "patch", "post", "power_on", "snapshot",
     "unmount", "upload"}
    \cup (IF "reboot" \in o THEN {"reboot"} ELSE {})
    \cup (IF c = "JobApply" \/ (c \in Stagers /\ o \cap {"commit", "commit_pending"} # {})
          THEN {"commit", "reboot"} ELSE {})
    \cup (IF c \in {"VirtualMediaInsert", "MountCdrom"} THEN {"insert"} ELSE {})
    \cup (IF c = "SmcVirtualMediaMount" THEN {"mount"} ELSE {})

\* No program reaches a request that its command and its options do not call
\* for, in its own steps or in those of a command that it runs.
LEMMA SendingPrograms ==
    ASSUME NEW c \in DirectCommands, NEW o
    PROVE  Confined(Needs(c, o), ProgramOf(c, o))
<1> DEFINE T == Needs(c, o)
           Ok(p) == Confined(T, p)
           In(s) == Within(T, s)
           base == {"configure", "delete", "eject", "patch", "post", "power_on", "snapshot",
                    "unmount", "upload"}
<1>1. /\ Ok(<<>>)
      /\ \A a : In(a) => Ok(<<a>>)
      /\ \A a, b : In(a) /\ In(b) => Ok(<<a, b>>)
      /\ \A a, b, d : In(a) /\ In(b) /\ In(d) => Ok(<<a, b, d>>)
      /\ \A a, b, d, e : In(a) /\ In(b) /\ In(d) /\ In(e) => Ok(<<a, b, d, e>>)
      /\ \A p, q : Ok(p) /\ Ok(q) => Ok(p \o q)
  BY Zenon, ConfinedParts
<1>2. /\ \A endings : In(Might(endings))
      /\ \A ending : Ok(Ends(ending))
      /\ In(ReturnIfError) /\ In(FetchTask)
      /\ \A what \in T : \A by, heed : In(Request(what, by, heed))
  BY WithinSteps
<1>3. /\ \A replies, steps : Ok(steps) => In(After(replies, steps))
      /\ \A steps : Ok(steps) => In(Maybe(steps))
      /\ \A steps, heed : Ok(steps) => In(Run(steps, heed))
      /\ \A m, steps : Ok(steps) => In(By(m, steps))
      /\ "reboot" \in T => \A heed : In(Reboot(heed))
  BY WithinSteps
<1>4. /\ base \subseteq T
      /\ "reboot" \in o => "reboot" \in T
      /\ c = "JobApply" \/ (c \in Stagers /\ ("commit" \in o \/ "commit_pending" \in o)) =>
            {"reboot", "commit"} \subseteq T
      /\ c \in {"VirtualMediaInsert", "MountCdrom"} => "insert" \in T
      /\ c = "SmcVirtualMediaMount" => "mount" \in T
  BY DEF Needs
<1> HIDE DEF Ok, In, T
<1>5. /\ \A what \in base : \A by, heed : In(Request(what, by, heed))
      /\ \A what \in T : In(Write(what)) /\ In(WriteUnheeded(what)) /\ Ok(WriteAndWatch(what))
      /\ \A what \in base : In(Write(what)) /\ In(WriteUnheeded(what)) /\ Ok(WriteAndWatch(what))
  BY <1>1, <1>2, <1>4 DEF Write, WriteUnheeded, WriteAndWatch
<1>6. \A x, e, p : Ok(p) => Ok(If(x, e, p)) /\ Ok(Unless(x, e, p))
  BY <1>1 DEF If, Unless
<1>7. Ok(Confirmed(o)) /\ Ok(ConfirmedAndNotDry(o))
  BY <1>1, <1>2, <1>6 DEF Confirmed, ConfirmedAndNotDry
<1>8. \A endings, p : /\ Ok(p) => Ok(<<Might(endings)>> \o p)
                      /\ Ok(p) => Ok(<<Might(endings)>> \o Confirmed(o) \o p)
  BY <1>1, <1>2, <1>7
<1>9. {"reboot", "commit"} \subseteq T => \A heed, e : Ok(InvokeJobApply(heed)) /\ Ok(JobApply_execute(e))
  <2> SUFFICES ASSUME {"reboot", "commit"} \subseteq T, NEW heed, NEW e
               PROVE  Ok(InvokeJobApply(heed)) /\ Ok(JobApply_execute(e))
    OBVIOUS
  <2>1. ASSUME NEW d PROVE Ok(JobApply_execute(d))
    <3>1. Ok(<<Might({"raised"}), Maybe(<<Reboot("ignore"), After({"ok"}, <<Might({"raised"})>>)>>)>>)
      BY <1>1, <1>2, <1>3
    <3>2. Ok(<<Might({"raised", "failed"}),
               Maybe(<<Reboot("ignore"),
                       After({"ok"},
                             Unless("async", d,
                                    <<Might({"raised"}),
                                      Maybe(<<Reboot("ignore"), After({"ok"}, <<Might({"raised"})>>)>>)>>))>>)>>)
      BY <1>1, <1>2, <1>3, <1>6, <3>1
    <3> QED BY <1>1, <1>5, <3>2 DEF JobApply_execute
  <2> QED BY <1>1, <1>2, <1>3, <2>1 DEF InvokeJobApply
<1>10. ASSUME NEW e, "reboot" \in e => "reboot" \in T,
              "commit" \in e => {"reboot", "commit"} \subseteq T
       PROVE  Ok(If("reboot", e, <<Reboot("ignore")>>)) /\ Ok(Commit(e))
  <2>1. Ok(If("reboot", e, <<Reboot("ignore")>>))
    BY <1>1, <1>3, <1>10 DEF If
  <2>2. Ok(Commit(e))
    BY <1>1, <1>2, <1>3, <1>9, <1>10 DEF Commit, If
  <2> QED BY <2>1, <2>2
<1>11. /\ Ok(If("reboot", o, <<Reboot("ignore")>>))
       /\ c \in Stagers => Ok(Commit(o))
  <2>1. Ok(If("reboot", o, <<Reboot("ignore")>>))
    BY <1>1, <1>3, <1>4 DEF If
  <2> QED BY <1>4, <1>10, <2>1
<1>12. ASSUME NEW e, "reboot" \in e => "reboot" \in T,
              "commit" \in e \/ "commit_pending" \in e => {"reboot", "commit"} \subseteq T
       PROVE  Ok(BiosChangeSettings_execute(e))
  <2> DEFINE inner == IF "commit_pending" \in e THEN InvokeJobApply("ignore") ELSE Ends("raised")
  <2>1. Ok(<<By("IDracManager", <<Might({"raised"}), Maybe(inner)>>)>>)
    BY <1>1, <1>2, <1>3, <1>9, <1>12
  <2> HIDE DEF inner
  <2>2. Ok(If("reboot", e, <<Reboot("ignore")>>)) /\ Ok(Commit(e))
    BY <1>10, <1>12
  <2> QED BY <1>1, <1>2, <1>5, <1>6, <2>1, <2>2 DEF BiosChangeSettings_execute, inner
<1>13. /\ Ok(JobDel_execute(o)) /\ Ok(BootOptionsClearPending_execute(o))
       /\ Ok(GetRemoteServicesAPIStatus_execute(o)) /\ Ok(GetRemoteRssAPIStatus_execute(o))
       /\ Ok(ManagerReset_execute(o))
  BY <1>5 DEF JobDel_execute, BootOptionsClearPending_execute, ManagerReset_execute,
     GetRemoteServicesAPIStatus_execute, GetRemoteRssAPIStatus_execute
<1>14. /\ Ok(JobRmDellServices_execute(o)) /\ Ok(ChassisReset_execute(o))
       /\ Ok(AttributesUpdate_execute(o)) /\ Ok(BiosClearPending_execute(o))
       /\ Ok(AttributeClearPending_execute(o)) /\ Ok(VirtualMediaEject_execute(o))
  BY <1>5, <1>8
     DEF JobRmDellServices_execute, ChassisReset_execute, AttributesUpdate_execute,
     BiosClearPending_execute, AttributeClearPending_execute, VirtualMediaEject_execute
<1>15. /\ Ok(DellOemAttach_execute(o)) /\ Ok(DellOemNetIsoBoot_execute(o))
       /\ Ok(DellOemDetach_execute(o)) /\ Ok(DellOemDisconnect_execute(o))
  BY <1>5, <1>8 DEF DellOemAttach_execute, DellOemNetIsoBoot_execute,
     DellOemDetach_execute, DellOemDisconnect_execute
<1>16. /\ Ok(JobWatch_execute(o)) /\ Ok(GetTask_execute(o))
       /\ Ok(ExportSystemConfig_execute(o)) /\ Ok(ImportSystemConfig_execute(o))
  BY <1>2, <1>8 DEF JobWatch_execute, GetTask_execute, ExportSystemConfig_execute,
     ImportSystemConfig_execute, MalformedUrl
<1>17. c = "JobApply" => Ok(JobApply_execute(o))
  BY <1>4, <1>9
<1>18. c \in Stagers => Ok(BiosChangeSettings_execute(o))
  BY <1>4, <1>12
<1>19. c \in Stagers => Ok(ChangeBootOrder_execute(o))
  <2> SUFFICES ASSUME c \in Stagers PROVE Ok(ChangeBootOrder_execute(o))
    OBVIOUS
  <2>1. Ok(If("commit_pending", o, InvokeJobApply("ignore")))
    BY <1>1, <1>4, <1>9 DEF If
  <2> QED BY <1>1, <1>2, <1>5, <1>11, <2>1 DEF ChangeBootOrder_execute
<1>20. Ok(BiosProfile_execute(o))
  <2>1. Ok(BiosChangeSettings_execute({"show"})) /\ Ok(BiosChangeSettings_execute({}))
    BY <1>12
  <2>2. Ok(BiosSnapshot_execute)
    BY <1>1, <1>5 DEF BiosSnapshot_execute
  <2>3. Ok(_apply_profile(o))
    BY <1>1, <1>2, <1>3, <2>1, <2>2 DEF _apply_profile
  <2> QED BY <1>2, <1>8, <2>3 DEF BiosProfile_execute
<1>21. (c \in Stagers => Ok(BootSourceUpdate_execute(o))) /\ Ok(EnableBootOptions_execute(o))
  BY <1>1, <1>2, <1>5, <1>6, <1>11
     DEF BootSourceUpdate_execute, EnableBootOptions_execute
<1>22. Ok(BootOneShot_execute(o))
  <2>1. Ok(If("reboot", o, <<Reboot("catch"), ReturnIfError>>))
    BY <1>1, <1>2, <1>3, <1>4 DEF If
  <2>2. Ok(ChassisReset_execute({}))
    BY <1>5, <1>8 DEF ChassisReset_execute
  <2>3. Ok(<<Run(ChassisReset_execute({}), "catch"), ReturnIfError>>)
    BY <1>1, <1>2, <1>3, <2>2
  <2> QED BY <1>1, <1>2, <1>5, <1>6, <2>1, <2>3 DEF BootOneShot_execute
<1>23. /\ Ok(AccountCreate_execute(o)) /\ Ok(AccountUpdate_execute(o))
       /\ Ok(AccountDelete_execute(o)) /\ Ok(AccountImportSSHKey_execute(o))
  <2>1. \A what \in base : Ok(<<Write(what)>>)
    BY <1>1, <1>5
  <2> QED BY <1>1, <1>7, <1>8, <2>1 DEF AccountCreate_execute, AccountUpdate_execute,
             AccountDelete_execute, AccountImportSSHKey_execute
<1>24. Ok(SubscriptionCreate_execute(o)) /\ Ok(SubscriptionDelete_execute(o))
  BY <1>1, <1>5, <1>8 DEF SubscriptionCreate_execute, SubscriptionDelete_execute
<1>25. Ok(ImportOneTimeBoot_execute(o))
  <2>1. Ok(If("reboot", o, <<Reboot("ignore")>> \o Ends("raised")))
    BY <1>1, <1>2, <1>3, <1>4 DEF If
  <2> QED BY <1>1, <1>2, <1>5, <2>1 DEF ImportOneTimeBoot_execute
<1>26. Ok(ChassisUpdate_execute(o)) /\ Ok(GetNetworkIsoAttachStatus_execute(o))
  BY <1>1, <1>2, <1>5, <1>11
     DEF ChassisUpdate_execute, GetNetworkIsoAttachStatus_execute
<1>27. Ok(AssetTagSet_execute(o)) /\ Ok(IdentifyLed_execute(o))
  BY <1>1, <1>2, <1>5, <1>6, <1>7 DEF AssetTagSet_execute, IdentifyLed_execute
<1>28. Ok(DnsSet_execute(o)) /\ Ok(NtpSet_execute(o))
  BY <1>1, <1>3, <1>5, <1>8 DEF DnsSet_execute, NtpSet_execute
<1>29. Ok(ManagerTime_execute(o))
  BY <1>1, <1>2, <1>3, <1>5, <1>6 DEF ManagerTime_execute
<1>30. Ok(DellNetworkAttributes_execute(o))
  BY <1>1, <1>2, <1>5, <1>7 DEF DellNetworkAttributes_execute
<1>31. Ok(SerialConsoleConfig_execute(o))
  BY <1>1, <1>2, <1>3, <1>5, <1>6, <1>7 DEF SerialConsoleConfig_execute
<1>32. Ok(GetAttachStatus_execute(o)) /\ Ok(VolumeInit_execute(o))
  BY <1>1, <1>2, <1>5 DEF GetAttachStatus_execute, VolumeInit_execute
<1>33. Ok(ConvertNoneRaid_execute(o)) /\ Ok(ConvertToRaid_execute(o))
  BY <1>1, <1>2, <1>5 DEF ConvertNoneRaid_execute, ConvertToRaid_execute
<1>34. Ok(<<Run(VirtualMediaEject_execute({}), "report"), ReturnIfError>>)
       /\ In(Run(VirtualMediaEject_execute({}), "report"))
  BY <1>1, <1>2, <1>3, <1>5 DEF VirtualMediaEject_execute
<1>35. c = "VirtualMediaInsert" => Ok(VirtualMediaInsert_execute(o))
  BY <1>1, <1>2, <1>4, <1>5, <1>34 DEF VirtualMediaInsert_execute
<1>36. c = "MountCdrom" => Ok(MountCdrom_execute(o))
  BY <1>1, <1>2, <1>3, <1>4, <1>5, <1>7, <1>34 DEF MountCdrom_execute
<1>37. c = "SmcVirtualMediaMount" => Ok(SmcVirtualMediaMount_execute(o))
  BY <1>1, <1>2, <1>4, <1>5 DEF SmcVirtualMediaMount_execute
<1>38. Ok(VolumeCreate_execute(o)) /\ Ok(VolumeDelete_execute(o))
  BY <1>1, <1>2, <1>5, <1>6, <1>7 DEF VolumeCreate_execute, VolumeDelete_execute
<1>39. Ok(FirmwareUpdate_execute(o))
  <2> DEFINE upload == Unless("file", o, Ends("failed"))
                       \o ConfirmedAndNotDry(o)
                       \o <<Might({"failed"}), Request("upload", "_push_result", "report")>>
  <2>1. Ok(upload)
    BY <1>1, <1>2, <1>5, <1>6, <1>7
  <2> HIDE DEF upload
  <2>2. Ok(<<Might({"failed"}), Maybe(upload \o <<ReturnIfError>> \o Ends("ended"))>>)
    BY <1>1, <1>2, <1>3, <2>1
  <2> QED BY <1>1, <1>5, <1>7, <2>2 DEF FirmwareUpdate_execute, upload
<1>40. c \in CommandNames
  BY CommandsByName
<1>41. Ok(ProgramOf(c, o))
  BY SMTT(60), <1>13, <1>14, <1>15, <1>16, <1>17, <1>18, <1>19, <1>20, <1>21, <1>22,
     <1>23,
     <1>24, <1>25, <1>26, <1>27, <1>28, <1>29, <1>30, <1>31, <1>32, <1>33, <1>35, <1>36,
     <1>37, <1>38, <1>39, <1>40
  DEF ProgramOf, CommandNames, Stagers
<1> QED BY <1>41 DEF Ok, T

-----------------------------------------------------------------------------
(* A program that is held back ends before it writes. *)

\* The command was told not to write, or not told to.
HeldBack(c, o) ==
    \/ "confirm" \in OptionsOf[c] /\ "confirm" \notin o
    \/ o \cap {"dry", "show", "status"} # {}

\* Programs that were held back end before they write.
LEMMA HeldBackPrograms ==
    ASSUME NEW c \in DirectCommands, NEW o \in SUBSET OptionsOf[c], HeldBack(c, o)
    PROVE  Confined({"snapshot"}, ProgramOf(c, o))
<1> DEFINE Ok(p) == Confined({"snapshot"}, p)
           In(s) == Within({"snapshot"}, s)
           Calm(p) == Ok(p) /\ Plain(p)
           Stops(p) == Calm(p) /\ Halts(p)
<1>1. /\ Ok(<<>>)
      /\ \A a : In(a) => Ok(<<a>>)
      /\ \A a, b : In(a) /\ In(b) => Ok(<<a, b>>)
      /\ \A a, b, d : In(a) /\ In(b) /\ In(d) => Ok(<<a, b, d>>)
      /\ \A p, q : Ok(p) /\ Ok(q) => Ok(p \o q)
      /\ \A p, q : Stops(p) /\ Plain(q) => Ok(p \o q)
  BY Zenon, ConfinedParts
<1>2. /\ \A endings : In(Might(endings))
      /\ \A ending : Ok(Ends(ending))
      /\ In(ReturnIfError)
      /\ \A by, heed : In(Request("snapshot", by, heed))
      /\ \A steps : Ok(steps) => In(Maybe(steps))
      /\ \A steps, heed : Ok(steps) => In(Run(steps, heed))
  BY WithinSteps
<1> HIDE DEF Ok, In
<1>3. /\ \A p, q : Stops(p) /\ Plain(q) => Stops(p \o q)
      /\ \A p, q : Calm(p) /\ Stops(q) => Stops(p \o q)
      /\ \A p, q : Calm(p) /\ Calm(q) => Calm(p \o q)
      /\ \A endings : Calm(<<Might(endings)>>)
      /\ \A ending : Stops(Ends(ending)) /\ Calm(Ends(ending))
      /\ Calm(<<>>)
  BY <1>1, <1>2, PlainParts, PlainSteps
<1>4. \A p : Stops(p) => Ok(p)
  OBVIOUS
<1>5. \A p : Ok(p) => Calm(<<Might({"failed"}), Maybe(p)>>)
  BY <1>1, <1>2, PlainParts, PlainSteps
<1> HIDE DEF Calm, Stops
<1>6. \A x, e, p : Calm(p) => Calm(If(x, e, p)) /\ Calm(Unless(x, e, p))
  BY <1>3 DEF If, Unless
<1>7. \A x, e, p : Plain(p) => Plain(If(x, e, p)) /\ Plain(Unless(x, e, p))
  BY PlainParts DEF If, Unless
<1>8. \A e : Plain(Commit(e))
  BY <1>7, PlainParts, PlainSteps DEF Commit
<1>9. \A x, e : x \in e => Stops(If(x, e, Ends("shown"))) /\ Stops(If(x, e, Ends("preview")))
  BY SMTT(30), <1>3 DEF If
<1>10. ASSUME NEW e, "show" \in e PROVE Stops(BiosChangeSettings_execute(e))
  BY Zenon, <1>3, <1>7, <1>8, <1>9, <1>10, PlainParts, PlainSteps
     DEF BiosChangeSettings_execute
<1>11. CASE "show" \in o
  <2>1. Stops(BootSourceUpdate_execute(o))
    BY Zenon, <1>3, <1>7, <1>8, <1>9, <1>11, PlainParts, PlainSteps
       DEF BootSourceUpdate_execute
  <2>2. c \in {"BiosChangeSettings", "BootSourceUpdate"}
    BY <1>11, HoldingOptions
  <2> QED BY SMTT(30), <1>4, <1>10, <1>11, <2>1, <2>2 DEF ProgramOf, Ok
<1>12. CASE "status" \in o
  <2>1. Stops(SmcVirtualMediaMount_execute(o))
    BY <1>3, <1>12 DEF SmcVirtualMediaMount_execute
  <2>2. c = "SmcVirtualMediaMount"
    BY <1>12, HoldingOptions
  <2> QED BY <1>4, <2>1, <2>2 DEF ProgramOf, Ok
<1>13. ASSUME "confirm" \notin o \/ "dry" \in o PROVE Ok(BiosProfile_execute(o))
  <2>1. Ok(BiosChangeSettings_execute({"show"}))
    BY <1>4, <1>10
  <2>2. Ok(_apply_profile(o))
    BY <1>1, <1>2, <1>13, <2>1 DEF _apply_profile, BiosSnapshot_execute
  <2> QED BY <1>1, <1>2, <2>2 DEF BiosProfile_execute
<1>14. ASSUME "confirm" \notin o \/ "dry" \in o
       PROVE  /\ Stops(DellNetworkAttributes_execute(o))
              /\ Stops(VolumeCreate_execute(o)) /\ Stops(VolumeDelete_execute(o))
              /\ Stops(FirmwareUpdate_execute(o))
  <2>1. Stops(ConfirmedAndNotDry(o))
    BY <1>3, <1>14 DEF ConfirmedAndNotDry
  <2>2. Stops(DellNetworkAttributes_execute(o))
    BY SMTT(30), <1>3, <2>1, PlainParts, PlainSteps DEF DellNetworkAttributes_execute
  <2>3. Stops(VolumeCreate_execute(o)) /\ Stops(VolumeDelete_execute(o))
    BY SMTT(30), <1>3, <1>7, <2>1, PlainParts, PlainSteps
       DEF VolumeCreate_execute, VolumeDelete_execute
  <2>4. Stops(FirmwareUpdate_execute(o))
    <3> DEFINE upload == Unless("file", o, Ends("failed"))
                         \o ConfirmedAndNotDry(o)
                         \o <<Might({"failed"}), Request("upload", "_push_result", "report")>>
    <3>1. Stops(upload)
      BY SMTT(30), <1>3, <1>6, <2>1, PlainParts, PlainSteps
    <3> HIDE DEF upload
    <3>2. Ok(upload \o <<ReturnIfError>> \o Ends("ended"))
      BY Zenon, <1>3, <1>4, <3>1, PlainParts, PlainSteps
    <3> QED BY Zenon, <1>3, <1>5, <2>1, <3>2, PlainParts, PlainSteps
               DEF FirmwareUpdate_execute, upload
  <2> QED BY <2>2, <2>3, <2>4
<1>15. CASE "dry" \in o
  <2>1. Stops(BootOneShot_execute(o))
    BY <1>3, <1>7, <1>9, <1>15, PlainParts, PlainSteps DEF BootOneShot_execute
  <2>2. c \in {"BiosProfile", "BootOneShot", "DellNetworkAttributes", "VolumeCreate",
               "VolumeDelete", "FirmwareUpdate"}
    BY <1>15, HoldingOptions
  <2> QED BY <1>4, <1>13, <1>14, <1>15, <2>1, <2>2 DEF ProgramOf, Ok
<1>16. CASE "confirm" \in OptionsOf[c] /\ "confirm" \notin o
  <2>1. Stops(Confirmed(o))
    BY <1>3, <1>16 DEF Confirmed, Unless
  <2>2. Stops(AccountCreate_execute(o)) /\ Stops(AccountUpdate_execute(o))
    BY <1>3, <2>1, PlainParts, PlainSteps
       DEF AccountCreate_execute, AccountUpdate_execute
  <2>3. Stops(AccountDelete_execute(o)) /\ Stops(AccountImportSSHKey_execute(o))
    BY SMTT(30), <1>3, <2>1, PlainParts, PlainSteps
       DEF AccountDelete_execute, AccountImportSSHKey_execute
  <2>4. Stops(AssetTagSet_execute(o)) /\ Stops(IdentifyLed_execute(o))
    BY SMTT(30), <1>3, <1>6, <2>1, PlainParts, PlainSteps
       DEF AssetTagSet_execute, IdentifyLed_execute
  <2>5. Stops(DnsSet_execute(o)) /\ Stops(NtpSet_execute(o))
    BY Zenon, <1>3, <2>1, PlainParts, PlainSteps DEF DnsSet_execute, NtpSet_execute
  <2>6. Stops(SerialConsoleConfig_execute(o)) /\ Stops(MountCdrom_execute(o))
    <3>1. Stops(SerialConsoleConfig_execute(o))
      BY SMTT(30), <1>3, <1>6, <2>1, PlainParts, PlainSteps
         DEF SerialConsoleConfig_execute
    <3>2. Stops(MountCdrom_execute(o))
      BY SMTT(30), <1>3, <1>6, <2>1, PlainParts, PlainSteps DEF MountCdrom_execute
    <3> QED BY <3>1, <3>2
  <2>7. Stops(SubscriptionCreate_execute(o)) /\ Stops(SubscriptionDelete_execute(o))
    BY Zenon, <1>3, <2>1, PlainParts, PlainSteps
       DEF SubscriptionCreate_execute, SubscriptionDelete_execute
  <2>8. c \in {"BiosProfile", "AccountCreate", "AccountUpdate", "AccountDelete",
               "AccountImportSSHKey", "AssetTagSet", "IdentifyLed", "DnsSet", "NtpSet",
               "DellNetworkAttributes", "SerialConsoleConfig", "MountCdrom",
               "VolumeCreate", "VolumeDelete", "FirmwareUpdate", "SubscriptionCreate",
               "SubscriptionDelete"}
    BY <1>16, HoldingOptions
  <2> QED BY <1>4, <1>13, <1>14, <1>16, <2>2, <2>3, <2>4, <2>5, <2>6, <2>7, <2>8
          DEF ProgramOf, Ok
<1> QED BY <1>11, <1>12, <1>15, <1>16 DEF HeldBack

-----------------------------------------------------------------------------
(* Refusals are kept by every program that looks at its answers. *)

\* The requests whose refusal a program is allowed to lose.
Tolerant(T, c, o) ==
    /\ {"snapshot", "upload"} \subseteq T
    /\ c = "BootOneShot" \/ "reboot" \in T
    /\ "commit_pending" \in o => "commit" \in T

\* Every program but the ones that do not look at the answers to their requests
\* keeps the refusals of the others.
LEMMA HeedingPrograms ==
    ASSUME NEW c \in DirectCommands \ Unheeding, NEW o, NEW T, Tolerant(T, c, o)
    PROVE  GoodProgram(T, ProgramOf(c, o))
<1> DEFINE Ok(p) == GoodProgram(T, p)
           Qt(p) == Quiet(T, p)
           Fm(p) == Firm(T, p)
           qt(s) == QuietStep(T, s)
           fm(s) == FirmStep(T, s)
<1>0. \A p : Qt(p) \/ Fm(p) => Ok(p)
  BY DEF Quiet, Firm
<1>r. Confined({"snapshot"}, ProgramOf("BiosChangeSettings", {"show"}))
  <2>1. /\ "BiosChangeSettings" \in DirectCommands
        /\ {"show"} \in SUBSET OptionsOf["BiosChangeSettings"]
    BY Zenon DEF DirectCommands, OptionsOf, BiosChangeSettings_options
  <2>2. HeldBack("BiosChangeSettings", {"show"})
    BY DEF HeldBack
  <2> QED BY <2>1, <2>2, HeldBackPrograms
<1>s. Ok(BiosChangeSettings_execute({"show"})) => Qt(BiosChangeSettings_execute({"show"}))
  BY <1>r, ConfinedGrows DEF ProgramOf, Quiet, Tolerant
<1>1. /\ Qt(<<>>) /\ Fm(<<>>)
      /\ \A a : (qt(a) => Qt(<<a>>)) /\ (fm(a) => Fm(<<a>>))
      /\ \A a, b : qt(a) /\ qt(b) => Qt(<<a, b>>)
      /\ \A a, b : fm(a) /\ fm(b) => Fm(<<a, b>>)
      /\ \A a, b, d : qt(a) /\ qt(b) /\ qt(d) => Qt(<<a, b, d>>)
      /\ \A a, b, d : fm(a) /\ fm(b) /\ fm(d) => Fm(<<a, b, d>>)
      /\ \A a, b, d, e : fm(a) /\ fm(b) /\ fm(d) /\ fm(e) => Fm(<<a, b, d, e>>)
      /\ \A p, q : Qt(p) /\ Ok(q) => Ok(p \o q)
      /\ \A p, q : Ok(p) /\ Fm(q) => Ok(p \o q)
      /\ \A p, q : Qt(p) /\ Qt(q) => Qt(p \o q)
      /\ \A p, q : Fm(p) /\ Fm(q) => Fm(p \o q)
  BY Zenon, QuietAndFirmParts, QuietAndFirmTuples
<1>2. /\ \A endings \in SUBSET Endings : qt(Might(endings))
      /\ \A endings \in SUBSET {"raised", "failed"} : fm(Might(endings))
      /\ \A ending \in Endings : Qt(Ends(ending))
      /\ \A ending \in {"raised", "failed"} : Fm(Ends(ending))
      /\ qt(ReturnIfError) /\ fm(ReturnIfError) /\ qt(FetchTask) /\ fm(FetchTask)
      /\ \A what \in T : \A by, heed : qt(Request(what, by, heed)) /\ fm(Request(what, by, heed))
      /\ \A what : \A by \in Readers : fm(Request(what, by, "report"))
  BY Zenon, QuietAndFirmSteps
<1>3. /\ \A replies, p : (Qt(p) => qt(After(replies, p))) /\ (Fm(p) => fm(After(replies, p)))
      /\ \A p : (Qt(p) => qt(Maybe(p))) /\ (Fm(p) => fm(Maybe(p)))
      /\ \A m, p : (Qt(p) => qt(By(m, p))) /\ (Fm(p) => fm(By(m, p)))
      /\ \A p : \A heed \in {"report", "catch"} : Ok(p) => fm(Run(p, heed))
      /\ \A p : \A heed \in Heeds : Qt(p) => qt(Run(p, heed)) /\ fm(Run(p, heed))
      /\ fm(Reboot("catch"))
      /\ "reboot" \in T => \A heed \in Heeds : qt(Reboot(heed)) /\ fm(Reboot(heed))
  BY Zenon, QuietAndFirmSteps
<1> HIDE DEF Ok, Qt, Fm, qt, fm
<1>4. /\ \A p : \A heed \in {"report", "catch", "ignore"} : Qt(p) => qt(Run(p, heed)) /\ fm(Run(p, heed))
      /\ "reboot" \in T => qt(Reboot("ignore")) /\ fm(Reboot("ignore"))
  BY <1>3 DEF Heeds
<1>5. /\ qt(Might({"raised"})) /\ qt(Might({"failed"})) /\ qt(Might({"raised", "failed"}))
      /\ qt(Might({"raised", "shown"})) /\ qt(Might({"raised", "failed", "shown"}))
      /\ fm(Might({"raised"})) /\ fm(Might({"failed"})) /\ fm(Might({"raised", "failed"}))
  BY <1>2 DEF Endings
<1>6. /\ \A ending \in {"raised", "failed", "shown", "preview", "ended"} : Qt(Ends(ending))
      /\ \A ending \in {"raised", "failed"} : Fm(Ends(ending))
  BY SMTT(30), <1>2 DEF Endings
<1>7. /\ fm(ReturnIfError) /\ qt(ReturnIfError)
      /\ \A what : fm(Write(what)) /\ Fm(WriteAndWatch(what))
      /\ \A what : fm(Request(what, "_subscription_mutation", "report"))
      /\ \A by, heed : qt(Request("snapshot", by, heed)) /\ qt(Request("upload", by, heed))
      /\ \A what \in T : qt(Write(what)) /\ Qt(WriteAndWatch(what))
  BY <1>1, <1>2 DEF Write, WriteAndWatch, Readers, Tolerant
<1>8. \A x, e, p : /\ Qt(p) => Qt(If(x, e, p)) /\ Qt(Unless(x, e, p))
                   /\ Fm(p) => Fm(If(x, e, p)) /\ Fm(Unless(x, e, p))
  BY <1>1 DEF If, Unless
<1>9. \A e : Qt(Confirmed(e)) /\ Qt(ConfirmedAndNotDry(e))
  BY <1>1, <1>6, <1>8 DEF Confirmed, ConfirmedAndNotDry
<1>p. \A m, p : qt(m) /\ Ok(p) => Ok(<<m>> \o p) /\ Ok(<<m>> \o Confirmed(o) \o p)
  BY <1>1, <1>9
<1>q. \A what : Ok(WriteAndWatch(what)) /\ Ok(<<Write(what)>>)
  BY <1>0, <1>1, <1>7
<1>10. CASE c = "BootOneShot"
  <2>1. Ok(ChassisReset_execute({}))
    BY SMTT(30), <1>0, <1>1, <1>5, <1>7 DEF ChassisReset_execute
  <2>2. Ok(BootOneShot_execute(o))
    BY <1>0, <1>1, <1>3, <1>5, <1>6, <1>7, <1>8, <2>1 DEF BootOneShot_execute
  <2> QED BY <1>10, <2>2 DEF ProgramOf, Ok
<1>11. CASE c # "BootOneShot"
  <2>1. qt(Reboot("ignore")) /\ fm(Reboot("ignore"))
    BY <1>4, <1>11 DEF Tolerant
  <2>2. ASSUME NEW e
        PROVE  Fm(JobApply_execute(e)) /\ ("commit" \in T => Qt(JobApply_execute(e)))
    BY SMTT(30), <1>1, <1>3, <1>5, <1>7, <1>8, <2>1 DEF JobApply_execute
  <2>3. /\ Fm(InvokeJobApply("report"))
        /\ "commit" \in T => Qt(InvokeJobApply("ignore")) /\ Fm(InvokeJobApply("ignore"))
    BY SMTT(30), <1>0, <1>1, <1>3, <1>4, <1>6, <2>2 DEF InvokeJobApply
  <2>4. ASSUME NEW e PROVE Fm(Commit(e)) /\ Fm(If("reboot", e, <<Reboot("ignore")>>))
    BY SMTT(30), <1>1, <1>3, <1>7, <1>8, <2>1, <2>3 DEF Commit
  <2>5. ASSUME NEW e, "commit_pending" \in e => "commit" \in T
        PROVE  Ok(BiosChangeSettings_execute(e))
    <3> DEFINE inner == IF "commit_pending" \in e THEN InvokeJobApply("ignore") ELSE Ends("raised")
    <3>1. Fm(inner)
      BY <1>6, <2>3, <2>5
    <3> HIDE DEF inner
    <3>2. Fm(<<By("IDracManager", <<Might({"raised"}), Maybe(inner)>>)>>)
      BY <1>1, <1>3, <1>5, <3>1
    <3> QED BY <1>0, <1>1, <1>5, <1>6, <1>7, <1>8, <2>4, <3>2
            DEF BiosChangeSettings_execute, inner
  <2>6. "commit_pending" \in o => "commit" \in T
    BY DEF Tolerant
  <2>7. Ok(JobApply_execute(o)) /\ Ok(BiosChangeSettings_execute(o))
    BY <1>0, <2>2, <2>5, <2>6
  <2>8. Ok(ChangeBootOrder_execute(o))
    <3>1. Fm(If("commit_pending", o, InvokeJobApply("ignore")))
      BY <1>1, <2>3, <2>6 DEF If
    <3> QED BY <1>0, <1>1, <1>5, <1>7, <2>4, <3>1 DEF ChangeBootOrder_execute
  <2>9. Ok(BiosProfile_execute(o))
    <3>1. Ok(BiosChangeSettings_execute({})) /\ Qt(BiosChangeSettings_execute({"show"}))
      BY <1>s, <2>5
    <3>2. qt(Run(BiosSnapshot_execute, "report")) /\ fm(Run(BiosSnapshot_execute, "report"))
      BY SMTT(30), <1>1, <1>4, <1>7 DEF BiosSnapshot_execute
    <3>3. Ok(_apply_profile(o))
      BY SMTT(30), <1>0, <1>1, <1>3, <1>4, <1>5, <1>6, <1>7, <3>1, <3>2
         DEF _apply_profile
    <3> QED BY <1>0, <1>1, <1>5, <1>6, <3>3 DEF BiosProfile_execute
  <2>10. Ok(FirmwareUpdate_execute(o))
    <3> DEFINE upload == Unless("file", o, Ends("failed"))
                         \o ConfirmedAndNotDry(o)
                         \o <<Might({"failed"}), Request("upload", "_push_result", "report")>>
    <3>1. Qt(upload)
      BY SMTT(30), <1>1, <1>5, <1>6, <1>7, <1>8, <1>9
    <3> HIDE DEF upload
    <3>2. Qt(<<Might({"failed"}), Maybe(upload \o <<ReturnIfError>> \o Ends("ended"))>>)
      BY SMTT(30), <1>1, <1>3, <1>5, <1>6, <1>7, <3>1
    <3> QED BY SMTT(30), <1>0, <1>1, <1>7, <1>9, <3>2 DEF FirmwareUpdate_execute, upload
  <2>11. /\ Ok(JobDel_execute(o)) /\ Ok(BootOptionsClearPending_execute(o))
         /\ Ok(GetRemoteServicesAPIStatus_execute(o)) /\ Ok(GetRemoteRssAPIStatus_execute(o))
         /\ Ok(ManagerReset_execute(o))
    BY Zenon, <1>q
       DEF JobDel_execute, BootOptionsClearPending_execute, ManagerReset_execute,
       GetRemoteServicesAPIStatus_execute, GetRemoteRssAPIStatus_execute
  <2>12. /\ Ok(JobRmDellServices_execute(o)) /\ Ok(ChassisReset_execute(o))
         /\ Ok(AttributesUpdate_execute(o)) /\ Ok(BiosClearPending_execute(o))
         /\ Ok(AttributeClearPending_execute(o))
    BY Zenon, <1>5, <1>p, <1>q DEF JobRmDellServices_execute, ChassisReset_execute,
       AttributesUpdate_execute, BiosClearPending_execute, AttributeClearPending_execute
  <2>13. /\ Ok(DellOemAttach_execute(o)) /\ Ok(DellOemNetIsoBoot_execute(o))
         /\ Ok(DellOemDetach_execute(o)) /\ Ok(DellOemDisconnect_execute(o))
    BY Zenon, <1>5, <1>p, <1>q DEF DellOemAttach_execute, DellOemNetIsoBoot_execute,
       DellOemDetach_execute, DellOemDisconnect_execute
  <2>14. \A e : Ok(VirtualMediaEject_execute(e))
    BY Zenon, <1>5, <1>p, <1>q DEF VirtualMediaEject_execute
  <2>15. Ok(Ends("shown")) /\ Ok(Ends("raised"))
    BY <1>0, <1>6
  <2>16. /\ Ok(JobWatch_execute(o)) /\ Ok(GetTask_execute(o))
         /\ Ok(ExportSystemConfig_execute(o)) /\ Ok(ImportSystemConfig_execute(o))
    BY <1>5, <1>p, <2>15
       DEF JobWatch_execute, GetTask_execute, ExportSystemConfig_execute,
       ImportSystemConfig_execute, MalformedUrl
  <2>17. Ok(BootSourceUpdate_execute(o))
    BY <1>0, <1>1, <1>5, <1>6, <1>7, <1>8, <2>4 DEF BootSourceUpdate_execute
  <2>18. \A m, what : qt(m) => Ok(<<m>> \o WriteAndWatch(what) \o If("reboot", o, <<Reboot("ignore")>>))
    BY Zenon, <1>1, <1>p, <1>q, <2>4
  <2>19. /\ Ok(EnableBootOptions_execute(o)) /\ Ok(ChassisUpdate_execute(o))
         /\ Ok(GetNetworkIsoAttachStatus_execute(o))
    BY <1>5, <2>18 DEF EnableBootOptions_execute, ChassisUpdate_execute,
       GetNetworkIsoAttachStatus_execute
  <2>20. /\ Ok(AccountCreate_execute(o)) /\ Ok(AccountUpdate_execute(o))
         /\ Ok(AccountDelete_execute(o)) /\ Ok(AccountImportSSHKey_execute(o))
    BY SMTT(30), <1>1, <1>5, <1>9, <1>p, <1>q
       DEF AccountCreate_execute, AccountUpdate_execute,
       AccountDelete_execute, AccountImportSSHKey_execute
  <2>21. Ok(SubscriptionCreate_execute(o)) /\ Ok(SubscriptionDelete_execute(o))
    BY SMTT(30), <1>0, <1>1, <1>5, <1>7, <1>p
       DEF SubscriptionCreate_execute, SubscriptionDelete_execute
  <2>22. Fm(<<Write("patch"), ReturnIfError, Might({"raised"})>>)
    BY <1>1, <1>5, <1>7
  <2>23. Ok(AssetTagSet_execute(o))
    BY <1>0, <1>1, <1>5, <1>6, <1>8, <1>9, <2>22 DEF AssetTagSet_execute
  <2>24. Ok(DellNetworkAttributes_execute(o))
    BY SMTT(30), <1>0, <1>1, <1>5, <1>6, <1>9, <2>22 DEF DellNetworkAttributes_execute
  <2>25. Ok(NtpSet_execute(o))
    BY SMTT(30), <1>0, <1>1, <1>3, <1>5, <1>7, <1>p DEF NtpSet_execute
  <2>26. Ok(GetAttachStatus_execute(o))
    BY SMTT(30), <1>0, <1>1, <1>5, <1>7 DEF GetAttachStatus_execute
  <2>27. /\ fm(Run(VirtualMediaEject_execute({}), "report"))
         /\ Fm(<<Run(VirtualMediaEject_execute({}), "report"), ReturnIfError>>)
    BY SMTT(30), <1>1, <1>3, <1>7, <2>14
  <2>28. Ok(VirtualMediaInsert_execute(o))
    BY SMTT(30), <1>0, <1>1, <1>5, <1>7, <2>27 DEF VirtualMediaInsert_execute
  <2>29. Ok(MountCdrom_execute(o))
    BY <1>0, <1>1, <1>3, <1>5, <1>7, <1>9, <2>27 DEF MountCdrom_execute
  <2>30. Ok(SmcVirtualMediaMount_execute(o))
    BY Zenon, <1>0, <1>1, <1>6, <1>7 DEF SmcVirtualMediaMount_execute
  <2>31. Ok(VolumeCreate_execute(o))
    BY SMTT(30), <1>1, <1>5, <1>9, <1>q DEF VolumeCreate_execute
  <2>32. Ok(VolumeDelete_execute(o))
    BY <1>1, <1>5, <1>6, <1>8, <1>9, <1>q DEF VolumeDelete_execute
  <2>33. c \in CommandNames
    BY CommandsByName
  <2>34. Ok(ProgramOf(c, o))
    BY SMTT(60), <1>11, <2>7, <2>8, <2>9, <2>10, <2>11, <2>12, <2>13, <2>14, <2>16,
       <2>17,
       <2>19, <2>20, <2>21, <2>23, <2>24, <2>25, <2>26, <2>28, <2>29, <2>30, <2>31, <2>32,
       <2>33
    DEF ProgramOf, CommandNames, Unheeding
  <2> QED BY <2>34 DEF Ok
<1> QED BY <1>10, <1>11

-----------------------------------------------------------------------------
(* The requests that wait for others. *)

\* A program that never makes the request x, or does so at a gate.
Waits(x, p) ==
    \/ Without(x, p)
    \/ \E a, k : Confined({}, a) /\ Gate(x, k) /\ p = a \o k

\* The drive is ejected before a medium is inserted, the share is configured
\* before it is mounted, the host is powered on before the override is set.
LEMMA WaitingPrograms ==
    ASSUME NEW o
    PROVE  /\ Waits("eject", VirtualMediaInsert_execute(o))
           /\ Waits("eject", MountCdrom_execute(o))
           /\ Waits("configure", SmcVirtualMediaMount_execute(o))
           /\ Waits("power_on", BootOneShot_execute(o))
<1> DEFINE Run1(x, es, heed) == Run(<<Might(es)>> \o WriteAndWatch(x), heed)
<1>p. ASSUME NEW T
      PROVE  /\ Confined(T, <<>>)
             /\ \A a : Within(T, a) => Confined(T, <<a>>)
             /\ \A a, b : Within(T, a) /\ Within(T, b) => Confined(T, <<a, b>>)
             /\ \A p, q : Confined(T, p) /\ Confined(T, q) => Confined(T, p \o q)
             /\ \A endings : Within(T, Might(endings)) /\ Confined(T, <<Might(endings)>>)
             /\ \A ending : Confined(T, Ends(ending))
             /\ Within(T, ReturnIfError)
             /\ \A what \in T : Within(T, Write(what)) /\ Confined(T, WriteAndWatch(what))
             /\ "reboot" \in T => \A heed : Within(T, Reboot(heed))
  <2>1. /\ Confined(T, <<>>)
        /\ \A a : Within(T, a) => Confined(T, <<a>>)
        /\ \A a, b : Within(T, a) /\ Within(T, b) => Confined(T, <<a, b>>)
        /\ \A p, q : Confined(T, p) /\ Confined(T, q) => Confined(T, p \o q)
    BY Zenon, ConfinedParts
  <2>2. /\ \A endings : Within(T, Might(endings))
        /\ \A ending : Confined(T, Ends(ending))
        /\ Within(T, ReturnIfError) /\ Within(T, FetchTask)
        /\ \A what \in T : \A by, heed : Within(T, Request(what, by, heed))
        /\ "reboot" \in T => \A heed : Within(T, Reboot(heed))
    BY WithinSteps
  <2>3. \A what \in T : Within(T, Write(what)) /\ Confined(T, WriteAndWatch(what))
    BY SMTT(30), <2>1, <2>2 DEF Write, WriteAndWatch
  <2> QED BY <2>1, <2>2, <2>3
<1>s. /\ \A endings : Plain(<<Might(endings)>>)
      /\ \A what : Plain(WriteAndWatch(what))
      /\ \A p, q : Plain(p) /\ Plain(q) => Plain(p \o q)
      /\ \A p : Plain(p) => IsSeq(p)
  BY Zenon, PlainParts, PlainSteps DEF Plain
<1>1. Waits("eject", VirtualMediaInsert_execute(o))
  <2> DEFINE T == {"insert"}
             m == <<Might({"raised", "failed"})>>
             run == Run1("eject", {"raised", "failed", "shown"}, "report")
             w == WriteAndWatch("insert")
             b == <<Might({"raised"})>> \o w
  <2>1. CASE "eject" \notin o
    <3>1. VirtualMediaInsert_execute(o) = (m \o <<>>) \o w
      BY <2>1 DEF VirtualMediaInsert_execute
    <3>2. Confined(T, (m \o <<>>) \o w)
      BY Zenon, <1>p
    <3> QED BY <3>1, <3>2 DEF Waits, Without
  <2>2. CASE "eject" \in o
    <3>1. VirtualMediaInsert_execute(o) = (m \o <<run, ReturnIfError, Might({"raised"})>>) \o w
      BY <2>2 DEF VirtualMediaInsert_execute, VirtualMediaEject_execute
    <3>2. Confined(T, b) /\ Plain(b)
      BY Zenon, <1>p, <1>s
    <3>3. Gate("eject", Then(run, Then(ReturnIfError, b)))
      BY Zenon, <3>2 DEF Gate, Without
    <3>4. IsSeq(m) /\ IsSeq(w) /\ Confined({}, m)
      BY <1>p, <1>s
    <3> HIDE DEF run, m, w
    <3>u. PICK u : u = Might({"raised"})
      OBVIOUS
    <3>5. PICK t : t = <<run, ReturnIfError, u>>
      BY Zenon
    <3>6. t \o w = Then(run, Then(ReturnIfError, Then(u, w)))
      BY <3>4, <3>5, TuplesThen
    <3>8. Then(u, w) = b
      BY <3>u DEF Then
    <3>a. IsSeq(m) /\ IsSeq(t) /\ IsSeq(w)
      BY <3>4, <3>5, TupleFacts
    <3>7. m \o (t \o w) = (m \o t) \o w
      BY <3>a, ConcatAssoc
    <3> QED BY Zenon, <3>1, <3>3, <3>4, <3>u, <3>5, <3>6, <3>7, <3>8 DEF Waits
  <2> QED BY <2>1, <2>2
<1>2. Waits("eject", MountCdrom_execute(o))
  <2> DEFINE T == {"insert"}
             a == <<Might({"raised", "failed"})>> \o Confirmed(o)
             run == Run1("eject", {"raised", "failed", "shown"}, "report")
             t == <<Maybe(<<run, ReturnIfError>>)>>
             w == WriteAndWatch("insert")
  <2>0. \A U : Confined(U, a)
    <3>1. \A U : Confined(U, Confirmed(o))
      BY Zenon, <1>p DEF Confirmed, Unless
    <3> QED BY Zenon, <1>p, <3>1
  <2>1. CASE "eject" \notin o
    <3>1. MountCdrom_execute(o) = (a \o <<Might({"failed"})>>) \o w
      BY <2>1 DEF MountCdrom_execute
    <3>2. Confined(T, (a \o <<Might({"failed"})>>) \o w)
      BY Zenon, <1>p, <2>0
    <3> QED BY <3>1, <3>2 DEF Waits, Without
  <2>2. CASE "eject" \in o
    <3>1. MountCdrom_execute(o) = (a \o t) \o w
      BY <2>2 DEF MountCdrom_execute, VirtualMediaEject_execute
    <3>2. Confined(T, w) /\ Plain(w)
      BY <1>p, <1>s
    <3>3. Gate("eject", t \o w)
      BY Zenon, <3>2 DEF Gate, Without, Then
    <3>4. IsSeq(a) /\ IsSeq(t) /\ IsSeq(w) /\ Confined({}, a)
      BY <1>s, <2>0, TupleFacts DEF Confined
    <3> HIDE DEF a, t, w
    <3>5. a \o (t \o w) = (a \o t) \o w
      BY <3>4, ConcatAssoc
    <3> QED BY Zenon, <3>1, <3>3, <3>4, <3>5 DEF Waits
  <2> QED BY <2>1, <2>2
<1>3. Waits("configure", SmcVirtualMediaMount_execute(o))
  <2>1. CASE "status" \in o \/ ("unmount" \notin o /\ "share" \notin o)
    <3>1. SmcVirtualMediaMount_execute(o) = Ends("shown")
      BY <2>1 DEF SmcVirtualMediaMount_execute
    <3>2. Confined({}, Ends("shown"))
      BY Zenon, <1>p
    <3> QED BY <3>1, <3>2 DEF Waits, Without
  <2>2. CASE "status" \notin o /\ "unmount" \in o
    <3>1. SmcVirtualMediaMount_execute(o) = <<Write("unmount"), ReturnIfError>>
      BY <2>2 DEF SmcVirtualMediaMount_execute
    <3>2. Confined({"unmount"}, <<Write("unmount"), ReturnIfError>>)
      BY Zenon, <1>p
    <3> QED BY <3>1, <3>2 DEF Waits, Without
  <2>3. CASE "status" \notin o /\ "unmount" \notin o /\ "share" \in o
    <3> DEFINE b == <<Write("mount"), ReturnIfError>>
               t == <<Write("configure"), ReturnIfError>>
    <3>1. SmcVirtualMediaMount_execute(o)
             = <<Write("configure"), ReturnIfError, Write("mount"), ReturnIfError>>
      BY <2>3 DEF SmcVirtualMediaMount_execute
    <3>2. Confined({"mount"}, b) /\ Plain(b) /\ IsSeq(b)
      BY Zenon, <1>p, <1>s, PlainParts, PlainSteps
    <3>3. Gate("configure", Then(Write("configure"), Then(ReturnIfError, b)))
      BY Zenon, <3>2 DEF Gate, Without
    <3>4. SmcVirtualMediaMount_execute(o) = <<>> \o (t \o b)
      BY <3>1
    <3>5. t \o b = Then(Write("configure"), Then(ReturnIfError, b))
      BY Zenon, <3>2, TuplesThen
    <3> QED BY Zenon, <1>p, <3>3, <3>4, <3>5 DEF Waits
  <2> QED BY <2>1, <2>2, <2>3
<1>4. Waits("power_on", BootOneShot_execute(o))
  <2> DEFINE T == {"patch", "reboot"}
             m == <<Might({"raised"})>> \o If("dry", o, Ends("preview"))
             run == Run1("power_on", {"raised"}, "catch")
             t == <<run, ReturnIfError>>
             w == WriteAndWatch("patch")
             r == If("reboot", o, <<Reboot("catch"), ReturnIfError>>)
  <2>0. \A U : Confined(U, m)
    <3>1. \A U : Confined(U, If("dry", o, Ends("preview")))
      BY Zenon, <1>p DEF If
    <3> QED BY Zenon, <1>p, <3>1
  <2>r. Confined(T, w) /\ Confined(T, r) /\ Plain(w) /\ Plain(r)
    BY <1>p, <1>s, PlainParts, PlainSteps DEF If
  <2>1. CASE "power_on" \notin o
    <3>1. BootOneShot_execute(o) = ((m \o <<>>) \o w) \o r
      BY Zenon, <2>1 DEF BootOneShot_execute, If
    <3> HIDE DEF T, m, w, r
    <3>2. Confined(T, ((m \o <<>>) \o w) \o r)
      BY Zenon, <1>p, <2>0, <2>r
    <3>3. "power_on" \notin T
      BY DEF T
    <3> QED BY <3>1, <3>2, <3>3 DEF Waits, Without
  <2>2. CASE "power_on" \in o
    <3>1. BootOneShot_execute(o) = ((m \o t) \o w) \o r
      BY Zenon, <2>2 DEF BootOneShot_execute, ChassisReset_execute, If
    <3>2. Confined(T, w \o r) /\ Plain(w \o r) /\ "power_on" \notin T
      BY <1>p, <1>s, <2>r
    <3>3. Gate("power_on", Then(run, Then(ReturnIfError, w \o r)))
      BY Zenon, <3>2 DEF Gate, Without
    <3>4. IsSeq(m) /\ IsSeq(t) /\ IsSeq(w) /\ IsSeq(r) /\ IsSeq(w \o r) /\ Confined({}, m)
      BY <1>s, <2>0, <2>r, <3>2, TupleFacts DEF Confined
    <3> HIDE DEF run, m, w, r
    <3>q. PICK q : q = w \o r
      BY Zenon
    <3>s. IsSeq(q)
      BY Zenon, <3>4, <3>q
    <3>5. t \o q = Then(run, Then(ReturnIfError, q))
      BY <3>s, TuplesThen
    <3> HIDE DEF t
    <3>a. IsSeq(m) /\ IsSeq(t) /\ IsSeq(w) /\ IsSeq(r)
      BY Zenon, <3>4
    <3>p. PICK p : p = m \o t
      BY Zenon
    <3>b. IsSeq(q) /\ IsSeq(p)
      BY <3>a, <3>q, <3>p, ConcatFacts
    <3>6. m \o (t \o q) = (m \o t) \o q
      BY <3>a, <3>b, ConcatAssoc
    <3>7. p \o (w \o r) = (p \o w) \o r
      BY SMTT(30), <3>a, <3>b, ConcatAssoc
    <3> QED BY Zenon, <3>1, <3>3, <3>4, <3>5, <3>6, <3>7, <3>q, <3>p DEF Waits
  <2> QED BY <2>1, <2>2
<1> QED BY <1>1, <1>2, <1>3, <1>4

\* A program that makes the request y behind x only, and if that came to "ok".
Earns(x, y, p) ==
    \/ Without(y, p)
    \/ \E a, steps, b :
          /\ Confined({}, a) /\ Plain(b) /\ Without(y, b)
          /\ p = a \o Then(Write(x), Then(FetchTask, Then(After({"ok"}, steps), b)))

\* Jobs are applied behind the settings that were staged, unless pending ones
\* are to be applied first, and so are the restarts that come with the jobs.
LEMMA EarningPrograms ==
    ASSUME NEW o, "commit_pending" \notin o,
           NEW y \in {"commit", "reboot"}, y = "reboot" => "reboot" \notin o
    PROVE  /\ Earns("patch", y, BiosChangeSettings_execute(o))
           /\ Earns("patch", y, ChangeBootOrder_execute(o))
           /\ Earns("patch", y, BootSourceUpdate_execute(o))
<1>p. ASSUME NEW T
      PROVE  /\ Confined(T, <<>>)
             /\ \A a : Within(T, a) => Confined(T, <<a>>)
             /\ \A a, b : Within(T, a) /\ Within(T, b) => Confined(T, <<a, b>>)
             /\ \A p, q : Confined(T, p) /\ Confined(T, q) => Confined(T, p \o q)
             /\ \A endings : Within(T, Might(endings))
             /\ \A ending : Confined(T, Ends(ending))
             /\ \A p : Confined(T, p) => Within(T, Maybe(p))
             /\ \A m, p : Confined(T, p) => Within(T, By(m, p))
             /\ "reboot" \in T => Within(T, Reboot("ignore"))
             /\ "patch" \in T => Confined(T, WriteAndWatch("patch"))
  <2>1. /\ Confined(T, <<>>)
        /\ \A a : Within(T, a) => Confined(T, <<a>>)
        /\ \A a, b : Within(T, a) /\ Within(T, b) => Confined(T, <<a, b>>)
        /\ \A p, q : Confined(T, p) /\ Confined(T, q) => Confined(T, p \o q)
    BY Zenon, ConfinedParts
  <2>2. /\ \A endings : Within(T, Might(endings))
        /\ \A ending : Confined(T, Ends(ending))
        /\ Within(T, FetchTask)
        /\ "patch" \in T => \A by, heed : Within(T, Request("patch", by, heed))
        /\ "reboot" \in T => Within(T, Reboot("ignore"))
    BY WithinSteps
  <2>3. /\ \A p : Confined(T, p) => Within(T, Maybe(p))
        /\ \A m, p : Confined(T, p) => Within(T, By(m, p))
    BY Zenon, WithinSteps
  <2>4. "patch" \in T => Confined(T, WriteAndWatch("patch"))
    BY <2>1, <2>2 DEF Write, WriteAndWatch
  <2> QED BY <2>1, <2>2, <2>3, <2>4
<1> DEFINE w == WriteAndWatch("patch")
           r == If("reboot", o, <<Reboot("ignore")>>)
           u == After({"ok"}, InvokeJobApply("report") \o <<ReturnIfError>>)
           c == Commit(o)
           T == {"patch", "reboot"} \ {y}
<1>t. "patch" \in T /\ y \notin T /\ ("reboot" \in o => "reboot" \in T)
  OBVIOUS
<1>r. Confined(T, r) /\ Plain(r) /\ IsSeq(r) /\ y \notin T /\ Confined(T, w) /\ IsSeq(w)
  <2> HIDE DEF T
  <2> QED BY Zenon, <1>p, <1>t, PlainParts, PlainSteps DEF If, Plain
<1>c. c = IF "commit" \in o THEN <<u>> ELSE <<>>
  BY DEF Commit, If
<1>w. ASSUME NEW q, IsSeq(q) PROVE w \o q = Then(Write("patch"), Then(FetchTask, q))
  BY <1>w, TuplesThen DEF WriteAndWatch
<1> HIDE DEF w, r, u, c, T
<1>1. ASSUME NEW a, \A U : Confined(U, a)
      PROVE  Earns("patch", y, ((a \o w) \o c) \o r)
  <2>1. CASE "commit" \notin o
    <3>1. Confined(T, ((a \o w) \o <<>>) \o r)
      BY <1>p, <1>r, <1>1
    <3> QED BY <1>c, <1>r, <2>1, <3>1 DEF Earns, Without
  <2>2. CASE "commit" \in o
    <3>1. c = <<u>> /\ IsSeq(c) /\ IsSeq(a)
      BY <1>c, <1>1, <2>2, TupleFacts DEF Confined
    <3>2. PICK q : q = c \o r
      BY Zenon
    <3>3. PICK p : p = a \o w
      BY Zenon
    <3>4. IsSeq(q) /\ IsSeq(p)
      BY <1>r, <3>1, <3>2, <3>3, ConcatFacts
    <3>5. p \o (c \o r) = (p \o c) \o r
      BY <1>r, <3>1, <3>4, ConcatAssoc
    <3>6. a \o (w \o q) = (a \o w) \o q
      BY SMTT(30), <1>r, <3>1, <3>4, ConcatAssoc
    <3>7. q = Then(u, r)
      BY <3>1, <3>2 DEF Then
    <3>8. ((a \o w) \o c) \o r = a \o Then(Write("patch"), Then(FetchTask, Then(u, r)))
      BY Zenon, <1>w, <3>2, <3>3, <3>4, <3>5, <3>6, <3>7
    <3> QED BY Zenon, <1>1, <1>r, <3>8 DEF Earns, Without, u
  <2> QED BY <2>1, <2>2
<1>s. \A U : Confined(U, If("show", o, Ends("shown")))
  BY Zenon, <1>p DEF If
<1>2. Earns("patch", y, BiosChangeSettings_execute(o))
  <2> DEFINE by == By("IDracManager", <<Might({"raised"}), Maybe(Ends("raised"))>>)
             a == (<<Might({"raised", "shown"})>> \o If("show", o, Ends("shown"))) \o <<by>>
  <2>1. ASSUME NEW U PROVE Confined(U, a)
    <3>1. Within(U, by)
      BY Zenon, <1>p
    <3> HIDE DEF by
    <3> QED BY Zenon, <1>p, <1>s, <3>1
  <2>2. BiosChangeSettings_execute(o) = ((a \o w) \o c) \o r
    BY DEF BiosChangeSettings_execute, w, c, r
  <2> HIDE DEF a
  <2> QED BY <1>1, <2>1, <2>2
<1>3. Earns("patch", y, ChangeBootOrder_execute(o))
  <2> DEFINE a == <<Might({"raised", "failed"})>> \o <<>>
  <2>1. \A U : Confined(U, a)
    BY Zenon, <1>p
  <2>2. ChangeBootOrder_execute(o) = ((a \o w) \o c) \o r
    BY DEF ChangeBootOrder_execute, w, c, r, If
  <2> HIDE DEF a
  <2> QED BY <1>1, <2>1, <2>2
<1>4. Earns("patch", y, BootSourceUpdate_execute(o))
  <2> DEFINE a == <<Might({"raised", "shown"})>> \o If("show", o, Ends("shown"))
  <2>1. \A U : Confined(U, a)
    BY Zenon, <1>p, <1>s
  <2>2. BootSourceUpdate_execute(o) = ((a \o w) \o c) \o r
    BY DEF BootSourceUpdate_execute, w, c, r
  <2> HIDE DEF a
  <2> QED BY <1>1, <2>1, <2>2
<1> QED BY <1>2, <1>3, <1>4

-----------------------------------------------------------------------------
(* What a command that writes keeps to. *)

\* The requests whose refusal a command does not report, by the command and its
\* options alone.
Lost(c, o) ==
    (IF c = "BootOneShot" THEN {} ELSE {"reboot"})
    \cup {"snapshot", "upload"}
    \cup (IF "commit_pending" \in o THEN {"commit"} ELSE {})

\* The requests that wait for others, by the command that makes them.
InOrder ==
    /\ command \in {"VirtualMediaInsert", "MountCdrom"} => Heeded("eject", "insert")
    /\ command = "SmcVirtualMediaMount" => Heeded("configure", "mount")
    /\ command = "BootOneShot" => Heeded("power_on", "patch")
    /\ command \in Stagers /\ "commit_pending" \notin options => Earned("patch", "commit")
    /\ command \in Stagers /\ options \cap {"reboot", "commit_pending"} = {} =>
          Earned("patch", "reboot")

\* The inductive invariant: no command of this kind runs, or one does, and what
\* it has sent and what is left to do keep to its options and to its order.
WriteInv ==
    \/ /\ command = Nothing /\ outcome = "idle"
       /\ taken = {} /\ refused = {}
    \/ /\ command \in DirectCommands
       /\ options \in SUBSET OptionsOf[command]
       /\ manager \in Managers
       /\ SendsOnly(Needs(command, options))
       /\ HeldBack(command, options) => SendsOnly({"snapshot"})
       /\ command \notin Unheeding => Remembers(Lost(command, options))
       /\ InOrder

\* A program as it is written loses no refusal.
LEMMA GoodIsSound ==
    ASSUME NEW T, NEW p, GoodProgram(T, p)
    PROVE  Sound(T, p)
<1>1. IsSeq(p) /\ \A i \in DOMAIN p : ~ Ret(p, i)
  BY DEF GoodProgram, Plain, Ret
<1> QED BY <1>1 DEF Sound, GoodProgram, Sheltered, Leaky, StepsOf

\* Every command starts within its options and in order.
LEMMA WriteInvInit == DirectInit => WriteInv
<1> SUFFICES ASSUME DirectInit PROVE WriteInv
  OBVIOUS
<1>1. /\ command \in DirectCommands /\ options \in SUBSET OptionsOf[command]
      /\ todo = ProgramOf(command, options) /\ outcome = Nothing
      /\ taken = {} /\ refused = {} /\ Sent = {}
  BY DEF DirectInit, Sent
<1>2. manager \in Managers
  BY DEF DirectInit, _runtime_command_class, Managers
<1>3. HeldBack(command, options) => SendsOnly({"snapshot"})
  BY <1>1, HeldBackPrograms DEF SendsOnly
<1>4. SendsOnly(Needs(command, options))
  BY <1>1, SendingPrograms DEF SendsOnly
<1>5. command \notin Unheeding => Remembers(Lost(command, options))
  <2>1. Tolerant(Lost(command, options), command, options)
    BY DEF Lost, Tolerant
  <2>2. command \notin Unheeding => GoodProgram(Lost(command, options), todo)
    BY SMTT(30), <1>1, <2>1, HeedingPrograms
  <2> QED BY <1>1, <2>2, GoodIsSound DEF Remembers, Nothing
<1>6. InOrder
  <2>1. ASSUME NEW x, NEW y, Waits(x, todo) PROVE Heeded(x, y)
    BY Zenon, <1>1, <2>1 DEF Waits, Heeded
  <2>2. ASSUME NEW x, NEW y, Earns(x, y, todo) PROVE Earned(x, y)
    BY Zenon, <1>1, <2>2 DEF Earns, Earned
  <2>3. command \in {"VirtualMediaInsert", "MountCdrom"} => Waits("eject", todo)
    BY Zenon, <1>1, WaitingPrograms DEF ProgramOf
  <2>4. command = "SmcVirtualMediaMount" => Waits("configure", todo)
    BY <1>1, WaitingPrograms DEF ProgramOf
  <2>5. command = "BootOneShot" => Waits("power_on", todo)
    BY SMTT(30), <1>1, WaitingPrograms DEF ProgramOf
  <2>6. command \in Stagers /\ "commit_pending" \notin options => Earns("patch", "commit", todo)
    <3>1. "commit" \in {"commit", "reboot"} /\ "commit" # "reboot"
      BY SMT
    <3> QED BY Zenon, <1>1, <3>1, EarningPrograms DEF ProgramOf, Stagers
  <2>7. command \in Stagers /\ options \cap {"reboot", "commit_pending"} = {} =>
           Earns("patch", "reboot", todo)
    BY Zenon, <1>1, EarningPrograms DEF ProgramOf, Stagers
  <2> QED BY Zenon, <2>1, <2>2, <2>3, <2>4, <2>5, <2>6, <2>7 DEF InOrder
<1> QED BY <1>1, <1>2, <1>3, <1>4, <1>5, <1>6 DEF WriteInv

\* A command goes on only until it has come to something, and keeps its name,
\* its options and its manager.
LEMMA DirectNextKeeps ==
    ASSUME DirectNext
    PROVE  outcome = Nothing /\ UNCHANGED <<command, manager, options>>
BY Zenon
   DEF DirectNext, StopEarly, PassCheck, Return, HandOnError, Send, FollowTask, Branch,
       TakeOrSkip, EnterCall, LeaveCall, LeaveCommand, At, Static

\* Every step of a command keeps to its options and to its order.
LEMMA WriteInvStep == WriteInv /\ [DirectNext]_directVars => WriteInv'
<1> SUFFICES ASSUME WriteInv, [DirectNext]_directVars PROVE WriteInv'
  OBVIOUS
<1>1. CASE DirectNext
  <2>1. outcome = Nothing /\ command' = command /\ options' = options /\ manager' = manager
    BY <1>1, DirectNextKeeps
  <2>2. /\ command \in DirectCommands /\ options \in SUBSET OptionsOf[command]
        /\ manager \in Managers
        /\ SendsOnly(Needs(command, options))
        /\ HeldBack(command, options) => SendsOnly({"snapshot"})
        /\ command \notin Unheeding => Remembers(Lost(command, options))
        /\ InOrder
    BY <2>1 DEF WriteInv, Nothing
  <2>3. HeldBack(command, options) => SendsOnly({"snapshot"})'
    BY <1>1, <2>2, NextSendsOnly
  <2>4. PICK T : T = Lost(command, options)
    OBVIOUS
  <2>5. PICK N : N = Needs(command, options)
    BY SMTT(30)
  <2>6. command \notin Unheeding => Remembers(T)'
    BY <1>1, <2>2, <2>4, NextRemembers
  <2>7. SendsOnly(N)'
    BY <1>1, <2>2, <2>5, NextSendsOnly
  <2>8. T = Lost(command, options)' /\ N = Needs(command, options)'
    BY <2>1, <2>4, <2>5 DEF Lost, Needs
  <2>9. command \notin Unheeding => Remembers(Lost(command, options))'
    BY <2>6, <2>8 DEF Remembers
  <2>10. SendsOnly(Needs(command, options))'
    BY <2>7, <2>8 DEF SendsOnly
  <2>11. InOrder'
    <3>1. /\ Heeded("eject", "insert") => Heeded("eject", "insert")'
          /\ Heeded("configure", "mount") => Heeded("configure", "mount")'
          /\ Heeded("power_on", "patch") => Heeded("power_on", "patch")'
          /\ Earned("patch", "commit") => Earned("patch", "commit")'
          /\ Earned("patch", "reboot") => Earned("patch", "reboot")'
      <4>1. /\ "eject" # "insert" /\ "configure" # "mount" /\ "power_on" # "patch"
            /\ "patch" # "commit" /\ "patch" # "reboot"
        BY SMTT(30)
      <4> QED BY Zenon, <1>1, <2>2, <4>1, NextHeeds, NextEarns
    <3> QED BY Zenon, <2>1, <2>2, <3>1 DEF InOrder
  <2> QED BY <2>1, <2>2, <2>3, <2>9, <2>10, <2>11 DEF WriteInv
<1>2. CASE UNCHANGED directVars
  <2>1. /\ todo' = todo /\ taken' = taken /\ refused' = refused /\ fault' = fault
        /\ answer' = answer /\ command' = command /\ options' = options /\ Sent' = Sent
    BY <1>2 DEF directVars, Sent
  <2>2. \A x, y : (Heeded(x, y) => Heeded(x, y)') /\ (Earned(x, y) => Earned(x, y)')
    <3> SUFFICES ASSUME NEW x, NEW y
                 PROVE  (Heeded(x, y) => Heeded(x, y)') /\ (Earned(x, y) => Earned(x, y)')
      OBVIOUS
    <3>1. ASSUME Heeded(x, y) PROVE Heeded(x, y)'
      BY Zenon, <2>1, <3>1 DEF Heeded
    <3>2. ASSUME Earned(x, y) PROVE Earned(x, y)'
      BY SMT, <2>1, <3>2 DEF Earned
    <3> QED BY Zenon, <3>1, <3>2
  <2>3. InOrder => InOrder'
    BY Zenon, <2>1, <2>2 DEF InOrder
  <2> QED BY Zenon, <1>2, <2>3 DEF directVars, WriteInv, SendsOnly, Sent, Remembers
<1> QED BY <1>1, <1>2

\* The four properties follow.
LEMMA WriteInvImplies ==
    WriteInv => /\ WritesAreConfirmed /\ RestartsAreEarned /\ RefusalIsReported
                /\ NothingOnTopOfARefusal
<1> SUFFICES ASSUME WriteInv
             PROVE  /\ WritesAreConfirmed /\ RestartsAreEarned /\ RefusalIsReported
                    /\ NothingOnTopOfARefusal
  OBVIOUS
<1>1. CASE command = Nothing /\ outcome = "idle" /\ taken = {} /\ refused = {}
  BY <1>1 DEF WritesAreConfirmed, RestartsAreEarned, RefusalIsReported, Sent,
     NothingOnTopOfARefusal
<1>2. CASE /\ command \in DirectCommands
           /\ options \in SUBSET OptionsOf[command]
           /\ SendsOnly(Needs(command, options))
           /\ HeldBack(command, options) => SendsOnly({"snapshot"})
           /\ command \notin Unheeding => Remembers(Lost(command, options))
           /\ InOrder
  <2>1. WritesAreConfirmed
    BY <1>2 DEF WritesAreConfirmed, HeldBack, SendsOnly
  <2>2. RefusalIsReported
    BY <1>2 DEF RefusalIsReported, Dropped, Lost, Remembers, Sent
  <2>3. /\ \A x, y : Heeded(x, y) /\ y \in Sent => x \notin refused
        /\ \A x, y : Earned(x, y) /\ y \in Sent => x \in taken
    BY Zenon DEF Heeded, Earned
  <2>4. Sent \subseteq Needs(command, options)
    BY <1>2 DEF SendsOnly
  <2>5. NothingOnTopOfARefusal
    <3>1. "insert" \in Sent => command \in {"VirtualMediaInsert", "MountCdrom"}
      BY <2>4 DEF Needs
    <3>2. "mount" \in Sent => command = "SmcVirtualMediaMount"
      BY <2>4 DEF Needs
    <3>3. "commit" \in Sent => command = "JobApply" \/ command \in Stagers
      BY <2>4 DEF Needs
    <3> QED BY Zenon, <1>2, <2>3, <3>1, <3>2, <3>3 DEF InOrder, NothingOnTopOfARefusal
  <2>6. RestartsAreEarned
    <3>1. "reboot" \in Sent /\ "reboot" \notin options =>
             \/ command = "JobApply"
             \/ command \in Stagers /\ options \cap {"commit", "commit_pending"} # {}
      BY <2>4 DEF Needs
    <3>2. "reboot" \in Sent /\ command \in Stagers /\ options \cap {"reboot", "commit_pending"} = {} =>
             "patch" \in taken
      BY Zenon, <1>2, <2>3 DEF InOrder
    <3> QED BY <3>1, <3>2 DEF RestartsAreEarned
  <2> QED BY <2>1, <2>2, <2>5, <2>6
<1> QED BY <1>1, <1>2 DEF WriteInv
=============================================================================
