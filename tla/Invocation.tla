----------------------------- MODULE Invocation -----------------------------
(***************************************************************************)
(* The vocabulary of the commands that end in RedfishManager.invoke_action *)
(* (redfish_manager.py): their arguments, what their discovery finds, and  *)
(* what execute() does before it calls invoke_action.                      *)
(*                                                                         *)
(* An action is named by its full Redfish type; the selector a user types  *)
(* (--action rebuild) stands for that type.  A row is a resource together  *)
(* with an action it offers.  Payloads are abstracted to whether all the   *)
(* required arguments are there and well formed.                           *)
(***************************************************************************)
EXTENDS Naturals, FiniteSets

CONSTANTS
    Services,     \* resources that may offer the actions of a command
    Primary       \* the one a command that looks at a single resource reads

ASSUME ServicesAssumption == IsFiniteSet(Services) /\ Primary \in Services

None == "none"        \* an argument that was not given
Unknown == "unknown"  \* a selector outside the table of the command
Root == "root"        \* the collections a discovery starts from
ASSUME NamesAssumption == None \notin Services /\ Root \notin Services

-----------------------------------------------------------------------------
(* Arguments.  `opts` names the optional arguments that a parser declares; *)
(* the others keep the default of execute().                               *)

Flag(name, opts, default) == IF name \in opts THEN BOOLEAN ELSE {default}

\* op       the action selected, or None
\* given    the argument that turns a listing into an operation is there
\* filled   the arguments that the payload needs are there and well formed
\* pick     the resource named by --resource-uri, --service-uri, ...
\* confirm, dry, token   --confirm, --dry_run, --i-understand-irreversible
\* async    --async
Arguments(ops, opts) ==
    [op : ops,
     given : Flag("given", opts, TRUE),
     filled : Flag("filled", opts, TRUE),
     pick : {None} \cup (IF "pick" \in opts THEN Services ELSE {}),
     confirm : Flag("confirm", opts, FALSE),
     dry : Flag("dry", opts, FALSE),
     token : Flag("token", opts, FALSE),
     async : Flag("async", opts, FALSE)]

\* Arguments of which the required ones include the one that selects.
Requiring(args) == {a \in args : a.filled => a.given}

-----------------------------------------------------------------------------
(* Discovery.  `site` maps each resource to the actions it offers, `lost`  *)
(* is the set of reads that fail (an exception, or a body that is no       *)
(* object).                                                                *)

Rows(site, answering) == {r \in answering \X UNION {site[s] : s \in DOMAIN site} :
                              r[2] \in site[r[1]]}

Found(rows) == [st |-> "found", rows |-> rows]
Unavailable == [st |-> "unavailable", rows |-> {}]  \* a CommandResult with an error
Threw == [st |-> "threw", rows |-> {}]              \* an exception leaves execute()

\* The resources that a discovery reads: the one named by the user, or those
\* below the collections, or only a well-known one if these cannot be read.
Reachable(pick, site, lost, wellKnown) ==
    (IF pick # None THEN {pick} \cap DOMAIN site
     ELSE IF Root \in lost THEN wellKnown
     ELSE DOMAIN site) \ lost

\* Every resource below the collections is tried, a failing read skips it.
AllTolerant(site, lost) == Found(Rows(site, Reachable(None, site, lost, {})))

\* The same, with a well-known resource tried when the collections fail.
AllWithFallback(site, lost) == Found(Rows(site, Reachable(None, site, lost, {Primary})))

\* The same, for a command that reads only the resource named by the user.
NamedOrAll(pick, site, lost) == Found(Rows(site, Reachable(pick, site, lost, {Primary})))

\* The collections are read outside any handler, the resources inside one.
AllUnderRoot(site, lost) == IF Root \in lost THEN Threw ELSE AllTolerant(site, lost)

\* Every read is outside any handler.
AllStrict(site, lost) ==
    IF lost # {} THEN Threw ELSE Found(Rows(site, DOMAIN site))

\* The first resource that offers anything, in the order of the collections
\* with the well-known resource first.
FirstOffering(pick, site, lost) ==
    LET offering == {s \in Reachable(pick, site, lost, {Primary}) : site[s] # {}} IN
    Found(Rows(site, {s \in offering : Primary \in offering => s = Primary}))

\* One resource, read as an empty object when the read fails.
OneTolerant(site, lost) == Found(Rows(site, {Primary} \ lost))

\* One resource, reported as an error when it cannot be read.
OneOrError(site, lost) ==
    IF Primary \in lost THEN Unavailable ELSE Found(Rows(site, {Primary}))

\* One resource, with the exception of a failing read let through.
OneStrict(site, lost) ==
    IF Primary \in lost THEN Threw ELSE Found(Rows(site, {Primary}))

\* No discovery: invoke_action is told the resource.
NoDiscovery == Found({})

ResourcesIn(rows) == {r[1] : r \in rows}
Offering(rows, op) == {r \in rows : r[2] = op}
Picked(rows, pick) == {r \in rows : pick = None \/ r[1] = pick}
Offers(rows, op) == Offering(rows, op) # {}
Single(rows) == Cardinality(rows) = 1

-----------------------------------------------------------------------------
(* What execute() comes to before invoke_action.                           *)

NoCall == [svc |-> None, op |-> None, dry |-> FALSE, confirm |-> FALSE,
           token |-> FALSE, probe |-> FALSE, masked |-> FALSE]

Ended(kind) == [kind |-> kind, call |-> NoCall]
Shown == Ended("shown")     \* a CommandResult without an error, nothing sent
Failed == Ended("failed")   \* a CommandResult with an error
Raised == Ended("raised")   \* an exception

Call(svc, op, dry, confirm, token) ==
    [kind |-> "call",
     call |-> [svc |-> svc, op |-> op, dry |-> dry, confirm |-> confirm,
               token |-> token, probe |-> FALSE, masked |-> FALSE]]

\* The first row in discovery order, where the command does not insist on one.
TheResource(rows) ==
    IF Primary \in ResourcesIn(rows) THEN Primary ELSE CHOOSE s \in ResourcesIn(rows) : TRUE

\* invoke_action with the flags as the user gave them.
Invoke(svc, a) == Call(svc, a.op, a.dry, a.confirm, FALSE)

\* invoke_action in a command that previews unless --confirm is given, also
\* where the policy would let the action run.
InvokeIfConfirmed(svc, a) == Call(svc, a.op, a.dry \/ ~a.confirm, a.confirm, FALSE)

\* invoke_action with the token for irreversible actions.
InvokeWithToken(svc, a) == Call(svc, a.op, a.dry, a.confirm, a.token)

\* invoke_action in a command without --confirm.
InvokeFreely(svc, a) == Call(svc, a.op, a.dry, FALSE, FALSE)
=============================================================================
