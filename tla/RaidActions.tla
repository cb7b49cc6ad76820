----------------------------- MODULE RaidActions ----------------------------
(***************************************************************************)
(* The commands over DellRaidService (redfish_ctl/raid).  For each: the    *)
(* arguments its parser admits, what its discovery returns, and execute(). *)
(***************************************************************************)
EXTENDS Invocation

DellRaidBlink_args ==
    Arguments({"#DellRaidService.BlinkTarget", "#DellRaidService.UnBlinkTarget"},
              {"given", "pick", "confirm", "dry"})
DellRaidBlink_rows(a, site, lost) == AllWithFallback(site, lost)
\* Faulty variant: the first service that offers the action is taken.
DellRaidBlink_first(a, seen) ==
    LET rows == Offering(seen.rows, a.op) IN
    IF rows = {} THEN Failed
    ELSE IF ~a.given THEN Shown
    ELSE InvokeIfConfirmed(TheResource(rows), a)
DellRaidBlink_execute(a, seen) ==
    LET rows == Picked(seen.rows, a.pick)
        services == ResourcesIn(rows) IN
    IF a.pick # None /\ rows = {} THEN Raised
    ELSE IF rows = {} THEN Failed
    ELSE IF ~a.given THEN (IF a.confirm \/ a.dry THEN Failed ELSE Shown)
    ELSE IF ~Single(services) \/ ~Offers(rows, a.op) THEN Failed
    ELSE InvokeIfConfirmed(TheResource(rows), a)

DellRaidCancelActions_args ==
    Arguments({None, "#DellRaidService.CancelBackgroundInitialization",
               "#DellRaidService.CancelCheckConsistency",
               "#DellRaidService.CancelRebuildPhysicalDisk"}, {"pick", "confirm", "dry"})
DellRaidCancelActions_rows(a, site, lost) == AllTolerant(site, lost)
DellRaidCancelActions_execute(a, seen) ==
    LET matches == Picked(Offering(seen.rows, a.op), a.pick) IN
    IF a.op = None THEN Shown
    ELSE IF ~Single(matches) THEN Failed
    ELSE Invoke(TheResource(matches), a)

\* The preview of _invoke_sync and of the asynchronous path is a first call of
\* invoke_action that is always dry.
DellRaidCheckValues_args ==
    Requiring(Arguments({"#DellRaidService.CheckVDValues"},
                        {"given", "filled", "dry", "async"}))
DellRaidCheckValues_rows(a, site, lost) == OneTolerant(site, lost)
DellRaidCheckValues_execute(a, seen) ==
    IF ~a.given THEN Shown
    ELSE IF ~a.filled THEN Raised
    ELSE IF ~Offers(seen.rows, a.op) THEN Failed
    ELSE [kind |-> "call", call |-> [InvokeFreely(Primary, a).call EXCEPT !.probe = TRUE]]

DellRaidClearActions_args ==
    Arguments({None, Unknown, "#DellRaidService.ClearForeignConfig",
               "#DellRaidService.ClearControllerPreservedCache"},
              {"confirm", "token", "dry"})
DellRaidClearActions_rows(a, site, lost) == OneOrError(site, lost)
DellRaidClearActions_execute(a, seen) ==
    IF seen.st = "unavailable" THEN Failed
    ELSE IF a.op = None THEN Shown
    ELSE IF a.op = Unknown THEN Raised
    ELSE IF ~Offers(seen.rows, a.op) THEN Failed
    ELSE InvokeWithToken(Primary, a)

DellRaidConfigActions_args ==
    Arguments({None, "#DellRaidService.SetAssetName", "#DellRaidService.SetBootVD"},
              {"filled", "confirm", "dry"})
DellRaidConfigActions_rows(a, site, lost) == OneTolerant(site, lost)
DellRaidConfigActions_execute(a, seen) ==
    IF a.op = None THEN Shown
    ELSE IF ~Offers(seen.rows, a.op) THEN Failed
    ELSE IF ~a.filled THEN Raised
    ELSE Invoke(Primary, a)

DellRaidForeignConfigActions_args ==
    Arguments({None, Unknown, "#DellRaidService.ImportForeignConfig",
               "#DellRaidService.UnLockSecureForeignConfig"},
              {"confirm", "token", "dry"})
DellRaidForeignConfigActions_rows(a, site, lost) == OneOrError(site, lost)
DellRaidForeignConfigActions_execute(a, seen) ==
    IF seen.st = "unavailable" THEN Failed
    ELSE IF a.op = None THEN Shown
    ELSE IF a.op = Unknown THEN Raised
    ELSE IF ~Offers(seen.rows, a.op) THEN Failed
    ELSE InvokeWithToken(Primary, a)

DellRaidRenameVD_args ==
    Requiring(Arguments({"#DellRaidService.RenameVD"},
                        {"given", "filled", "confirm", "dry"}))
DellRaidRenameVD_rows(a, site, lost) == OneTolerant(site, lost)
DellRaidRenameVD_execute(a, seen) ==
    IF ~a.given THEN Shown
    ELSE IF ~Offers(seen.rows, a.op) THEN Failed
    ELSE IF ~a.filled THEN Raised
    ELSE Invoke(Primary, a)

DellRaidSpareActions_args ==
    Requiring(Arguments({None, Unknown, "#DellRaidService.AssignSpare",
                         "#DellRaidService.UnassignSpare"},
                        {"given", "filled", "confirm", "dry"}))
DellRaidSpareActions_rows(a, site, lost) == OneOrError(site, lost)
DellRaidSpareActions_execute(a, seen) ==
    IF a.op = None /\ ~a.given THEN (IF seen.st = "unavailable" THEN Failed ELSE Shown)
    ELSE IF a.op \in {None, Unknown} THEN Raised
    ELSE IF seen.st = "unavailable" THEN Failed
    ELSE IF ~a.filled THEN Raised
    ELSE Invoke(Primary, a)

DellRaidPhysicalDiskActions_args ==
    Requiring(Arguments({None, Unknown, "#DellRaidService.PrepareToRemove",
                         "#DellRaidService.RebuildPhysicalDisk",
                         "#DellRaidService.ChangePDState"},
                        {"given", "filled", "confirm", "dry"}))
DellRaidPhysicalDiskActions_rows(a, site, lost) == OneOrError(site, lost)
DellRaidPhysicalDiskActions_execute(a, seen) ==
    IF seen.st = "unavailable" THEN Failed
    ELSE IF a.op = None /\ ~a.given THEN Shown
    ELSE IF a.op \in {None, Unknown} THEN Raised
    ELSE IF ~Offers(seen.rows, a.op) THEN Failed
    ELSE IF ~a.filled THEN Raised
    ELSE Invoke(Primary, a)

DellRaidPatrolRead_args ==
    Arguments({None, "#DellRaidService.StartPatrolRead", "#DellRaidService.StopPatrolRead"},
              {"confirm", "dry"})
DellRaidPatrolRead_rows(a, site, lost) ==
    IF a.op = None THEN OneStrict(site, lost) ELSE NoDiscovery
DellRaidPatrolRead_execute(a, seen) ==
    IF seen.st = "threw" THEN Raised
    ELSE IF a.op = None THEN Shown
    ELSE InvokeIfConfirmed(Primary, a)
-----------------------------------------------------------------------------
\* The commands of this module.
RaidCommands ==
    {"DellRaidBlink", "DellRaidCancelActions", "DellRaidCheckValues",
     "DellRaidClearActions", "DellRaidConfigActions", "DellRaidForeignConfigActions",
     "DellRaidRenameVD", "DellRaidSpareActions", "DellRaidPhysicalDiskActions",
     "DellRaidPatrolRead"}
RaidArgs(c) ==
    CASE c = "DellRaidBlink" -> DellRaidBlink_args
      [] c = "DellRaidCancelActions" -> DellRaidCancelActions_args
      [] c = "DellRaidCheckValues" -> DellRaidCheckValues_args
      [] c = "DellRaidClearActions" -> DellRaidClearActions_args
      [] c = "DellRaidConfigActions" -> DellRaidConfigActions_args
      [] c = "DellRaidForeignConfigActions" -> DellRaidForeignConfigActions_args
      [] c = "DellRaidRenameVD" -> DellRaidRenameVD_args
      [] c = "DellRaidSpareActions" -> DellRaidSpareActions_args
      [] c = "DellRaidPhysicalDiskActions" -> DellRaidPhysicalDiskActions_args
      [] c = "DellRaidPatrolRead" -> DellRaidPatrolRead_args
RaidRows(c, a, site, lost) ==
    CASE c = "DellRaidBlink" -> DellRaidBlink_rows(a, site, lost)
      [] c = "DellRaidCancelActions" -> DellRaidCancelActions_rows(a, site, lost)
      [] c = "DellRaidCheckValues" -> DellRaidCheckValues_rows(a, site, lost)
      [] c = "DellRaidClearActions" -> DellRaidClearActions_rows(a, site, lost)
      [] c = "DellRaidConfigActions" -> DellRaidConfigActions_rows(a, site, lost)
      [] c = "DellRaidForeignConfigActions" -> DellRaidForeignConfigActions_rows(a, site, lost)
      [] c = "DellRaidRenameVD" -> DellRaidRenameVD_rows(a, site, lost)
      [] c = "DellRaidSpareActions" -> DellRaidSpareActions_rows(a, site, lost)
      [] c = "DellRaidPhysicalDiskActions" -> DellRaidPhysicalDiskActions_rows(a, site, lost)
      [] c = "DellRaidPatrolRead" -> DellRaidPatrolRead_rows(a, site, lost)
RaidOutcome(c, a, seen) ==
    CASE c = "DellRaidBlink" -> DellRaidBlink_execute(a, seen)
      [] c = "DellRaidCancelActions" -> DellRaidCancelActions_execute(a, seen)
      [] c = "DellRaidCheckValues" -> DellRaidCheckValues_execute(a, seen)
      [] c = "DellRaidClearActions" -> DellRaidClearActions_execute(a, seen)
      [] c = "DellRaidConfigActions" -> DellRaidConfigActions_execute(a, seen)
      [] c = "DellRaidForeignConfigActions" -> DellRaidForeignConfigActions_execute(a, seen)
      [] c = "DellRaidRenameVD" -> DellRaidRenameVD_execute(a, seen)
      [] c = "DellRaidSpareActions" -> DellRaidSpareActions_execute(a, seen)
      [] c = "DellRaidPhysicalDiskActions" -> DellRaidPhysicalDiskActions_execute(a, seen)
      [] c = "DellRaidPatrolRead" -> DellRaidPatrolRead_execute(a, seen)
=============================================================================
