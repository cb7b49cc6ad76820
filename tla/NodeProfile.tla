----------------------------- MODULE NodeProfile -----------------------------
(***************************************************************************)
(* The RedfishNodeProfile operator: plan, approve, apply.                  *)
(*                                                                         *)
(* k8s/controller/redfish_node_profile_controller.py runs one handler,     *)
(* reconcile_redfish_node_profile, from kopf's create/update callback and  *)
(* from a 30 second timer.  The handler snapshots the object, plans with a *)
(* dry-run reconcile (redfish_ctl/reconcile.py), compares the hash of that *)
(* plan with spec.approvedPlanHash and status.consumedPlanHash, perhaps    *)
(* reconciles again with confirm=True, and merge-patches the status.       *)
(* Every request to the BMC is one step, so handlers, the operator's user, *)
(* out-of-band changes of the node and controller crashes interleave.      *)
(*                                                                         *)
(* A plan hash is modelled by the set of required steps it digests (SHA-256*)
(* is taken to be injective); plan_hash returns None for the empty set.    *)
(***************************************************************************)
EXTENDS Naturals, FiniteSets

CONSTANTS
    Timers,        \* slots of the kopf timer: one invocation each at a time
    Changes,       \* slots of the kopf create/update handler
    Values,        \* what a BMC setting can read as
    Want,          \* the value the desired state asks for
    Cleared,       \* the one-time boot override after a boot consumed it
    DesiredSpecs,  \* the spec.desiredState blocks a user may write
    Serial,        \* TRUE: kopf never overlaps two handlers of the object
    MaxEdits,      \* bound on edits of the spec
    MaxDrifts,     \* bound on out-of-band changes of the node
    MaxFailures,   \* bound on handler invocations that end in an exception
    MaxTaskFails,  \* bound on accepted writes whose Redfish task then fails
    MaxCrashes     \* bound on controller restarts

Kinds == {"bios-profile", "ntp", "boot", "reboot"}

ConfigKinds == {"bios-profile", "ntp", "boot"}

Handlers == Timers \cup Changes

ASSUME ValueAssumption == Want \in Values /\ Cleared \in Values

ASSUME DesiredAssumption ==
    DesiredSpecs \subseteq SUBSET Kinds /\ DesiredSpecs # {}

ASSUME FlagAssumption == Serial \in BOOLEAN

ASSUME BoundAssumption ==
    /\ MaxEdits \in Nat /\ MaxDrifts \in Nat /\ MaxFailures \in Nat
    /\ MaxTaskFails \in Nat /\ MaxCrashes \in Nat

VARIABLES
    spec,     \* the object's .spec, with the serial number of its approval
    status,   \* the object's .status
    unseen,   \* kopf still owes the create/update handler a call
    bmc,      \* the node: settings, and a BIOS change staged for the next reset
    handler,  \* local state of each handler invocation
    env,      \* how often the environment has acted
    ledger    \* history: plans published, granted, attempted, applied, applied last

vars == <<spec, status, unseen, bmc, handler, env, ledger>>

-----------------------------------------------------------------------------
(* Plans and hashes. *)

Unseen == "-"

Step == [kind : Kinds, seen : Values \cup {Unseen}]

NoHash == {}

\* The digest of the required steps; None when no step is required.
plan_hash(requiredSteps) == requiredSteps

\* reconcile() visits the blocks of the desired state in this order.
Rank == [k \in Kinds |-> CASE k = "bios-profile" -> 1
                           [] k = "ntp" -> 2
                           [] k = "boot" -> 3
                           [] k = "reboot" -> 4]

\* Faulty variant: the reset runs first.
FirstReversed(todo) == {k \in todo : \A j \in todo : Rank[k] >= Rank[j]}

First(todo) == {k \in todo : \A j \in todo : Rank[k] <= Rank[j]}

\* Whether a block differs from the node; a reset is always required.
Required(k, node) == IF k = "reboot" THEN TRUE ELSE node.cur[k] # Want

\* The previews of the BIOS diff and of the boot step quote the current value,
\* those of ntp-set and of the reset do not.
ReconcileStep(k, node) ==
    [kind |-> k,
     seen |-> IF k \in {"bios-profile", "boot"} THEN node.cur[k] ELSE Unseen]

-----------------------------------------------------------------------------
(* The node. *)

\* A host reset makes staged BIOS attributes current and uses up the override.
Reset(node) ==
    [cur |-> [node.cur EXCEPT
                !["bios-profile"] = IF node.staged THEN Want ELSE @,
                !["boot"] = Cleared],
     staged |-> FALSE]

\* bios-profile apply: snapshot the values, then bios-change stages the profile
\* for the next reset.
StageProfile(node) == [node EXCEPT !.staged = TRUE]

\* ntp-set --confirm takes effect at once.
SetNtp(node) == [node EXCEPT !.cur["ntp"] = Want]

\* boot-one-shot sets the override for the next boot.
SetBootOnce(node) == [node EXCEPT !.cur["boot"] = Want]

\* The guarded command each block delegates to.
Write(k, node) ==
    CASE k = "bios-profile" -> StageProfile(node)
      [] k = "ntp" -> SetNtp(node)
      [] k = "boot" -> SetBootOnce(node)
      [] k = "reboot" -> Reset(node)

-----------------------------------------------------------------------------
(* The status object. *)

NoCondition == "-"

\* _approval_reason
approval_reason(approved, current, granted, consumed) ==
    IF approved THEN "Approved"
    ELSE IF current # NoHash /\ consumed = current THEN "ApprovalConsumed"
    ELSE IF granted # NoHash /\ granted # current THEN "ApprovalHashMismatch"
    ELSE "ApprovalRequired"

\* Faulty variant: a standing approval is reported as drift.
build_status_sticky(steps, approved, granted, current, consumed) ==
    [dryRun |-> ~approved,
     drift |-> IF steps # {} \/ granted # NoHash THEN "true" ELSE "false",
     reason |-> approval_reason(approved, current, granted, consumed),
     applied |-> IF steps # {} /\ approved THEN "Applied"
                 ELSE IF approved THEN "NoChanges" ELSE "DryRun",
     ready |-> TRUE,
     planHash |-> current,
     consumed |-> IF approved /\ current # NoHash THEN current ELSE consumed]

\* The keys a successful pass writes.  planHash and consumedPlanHash are left
\* out of the patch when they are None.
build_status(steps, approved, granted, current, consumed) ==
    [dryRun |-> ~approved,
     drift |-> IF steps # {} THEN "true" ELSE "false",
     reason |-> approval_reason(approved, current, granted, consumed),
     applied |-> IF steps # {} /\ approved THEN "Applied"
                 ELSE IF approved THEN "NoChanges" ELSE "DryRun",
     ready |-> TRUE,
     planHash |-> current,
     consumed |-> IF approved /\ current # NoHash THEN current ELSE consumed]

build_error_status ==
    [dryRun |-> TRUE, drift |-> "null", reason |-> NoCondition,
     applied |-> NoCondition, ready |-> FALSE,
     planHash |-> NoHash, consumed |-> NoHash]

\* JSON merge-patch: a key the patch does not carry keeps its value.
MergePatch(old, patch) ==
    [patch EXCEPT
        !.planHash = IF patch.planHash # NoHash THEN @ ELSE old.planHash,
        !.consumed = IF patch.consumed # NoHash THEN @ ELSE old.consumed]

Idle == [pc |-> "idle", desired |-> {}, granted |-> NoHash, approval |-> 0,
         consumed |-> NoHash, todo |-> {}, steps |-> {}, hash |-> NoHash,
         writes |-> "ok", outcome |-> NoCondition]

-----------------------------------------------------------------------------
(* The handler. *)

\* kopf calls the handler: the timer at any time, the change handler when a
\* creation or an edit is unhandled.  The handler snapshots spec and status.
Start(h) ==
    /\ handler[h].pc = "idle"
    /\ Serial => \A g \in Handlers : handler[g].pc = "idle"
    /\ h \in Changes => unseen
    /\ unseen' = (unseen /\ h \notin Changes)
    /\ handler' = [handler EXCEPT ![h] =
                     [Idle EXCEPT !.pc = "plan",
                                  !.desired = spec.desired,
                                  !.granted = spec.approved,
                                  !.approval = spec.approval,
                                  !.consumed = status.consumed,
                                  !.todo = spec.desired]]
    /\ UNCHANGED <<spec, status, bmc, env, ledger>>

\* One block of the dry-run reconcile: read the node, plan a step.
PlanStep(h) ==
    /\ handler[h].pc = "plan"
    /\ \E k \in First(handler[h].todo) :
         handler' = [handler EXCEPT
                       ![h].todo = @ \ {k},
                       ![h].steps = IF Required(k, bmc)
                                    THEN @ \cup {ReconcileStep(k, bmc)} ELSE @]
    /\ UNCHANGED <<spec, status, unseen, bmc, env, ledger>>

\* Faulty variants: any standing approval will do; the consumed hash is ignored.
ApprovedAnyPlan(r) ==
    /\ plan_hash(r.steps) # NoHash
    /\ r.granted # NoHash
    /\ r.consumed # plan_hash(r.steps)

ApprovedAgain(r) ==
    /\ plan_hash(r.steps) # NoHash
    /\ r.granted = plan_hash(r.steps)

\* reconcile_profile's approval test, on the snapshot.
Approved(r) ==
    /\ plan_hash(r.steps) # NoHash
    /\ r.granted = plan_hash(r.steps)
    /\ r.consumed # plan_hash(r.steps)

\* The history counts attempts as none, one, or more than one.
OneMore(n) == IF n = 0 THEN 1 ELSE 2

\* The dry run is complete: report the plan, or go on to apply it.
Decide(h) ==
    /\ handler[h].pc = "plan"
    /\ handler[h].todo = {}
    /\ LET r == handler[h] IN
       \/ /\ ~Approved(r)
          /\ handler' = [handler EXCEPT ![h].pc = "patch",
                                        ![h].hash = plan_hash(r.steps),
                                        ![h].outcome = "dry"]
          /\ UNCHANGED ledger
       \/ /\ Approved(r)
          /\ handler' = [handler EXCEPT ![h].pc = "apply",
                                        ![h].hash = plan_hash(r.steps),
                                        ![h].steps = {},
                                        ![h].todo = r.desired]
          /\ ledger' = [ledger EXCEPT !.attempts[r.approval] = OneMore(@)]
    /\ UNCHANGED <<spec, status, unseen, bmc, env>>

\* One block of the confirmed reconcile reads the node again.
ApplyRead(h) ==
    /\ handler[h].pc = "apply"
    /\ \E k \in First(handler[h].todo) :
         handler' = IF Required(k, bmc)
                    THEN [handler EXCEPT ![h].pc = "write"]
                    ELSE [handler EXCEPT ![h].todo = @ \ {k}]
    /\ UNCHANGED <<spec, status, unseen, bmc, env, ledger>>

\* The guarded command writes the node.
ApplyWrite(h) ==
    /\ handler[h].pc = "write"
    /\ \E k \in First(handler[h].todo) :
         /\ bmc' = Write(k, bmc)
         /\ handler' = [handler EXCEPT
                          ![h].pc = "apply",
                          ![h].todo = @ \ {k},
                          ![h].steps = @ \cup {[kind |-> k, seen |-> Unseen]}]
    /\ UNCHANGED <<spec, status, unseen, env, ledger>>

\* Every block of the confirmed reconcile is done.
ApplyDone(h) ==
    /\ handler[h].pc = "apply"
    /\ handler[h].todo = {}
    /\ handler' = [handler EXCEPT ![h].pc = "patch", ![h].outcome = "applied"]
    /\ ledger' = [ledger EXCEPT !.applied = @ \cup {handler[h].hash},
                                !.last = handler[h].hash]
    /\ UNCHANGED <<spec, status, unseen, bmc, env>>

\* Faulty variant: the error is noted and the next block runs.
RaiseAndGoOn(h) ==
    handler' = [handler EXCEPT ![h].pc = "apply",
                               ![h].todo = @ \ First(@),
                               ![h].writes = "failed"]

\* _invoke_data raises, or an exception passes through it, and the handler turns
\* it into an error status.
Raise(h) ==
    handler' = [handler EXCEPT ![h].pc = "patch",
                               ![h].writes = "failed",
                               ![h].outcome = "error"]

\* A credential lookup, a read or a command raises: no later block runs.
ReadFails(h) ==
    /\ handler[h].pc \in {"plan", "apply"}
    /\ handler[h].todo # {}
    /\ env.failures < MaxFailures
    /\ env' = [env EXCEPT !.failures = @ + 1]
    /\ Raise(h)
    /\ UNCHANGED <<spec, status, unseen, bmc, ledger>>

\* A write raises before or after it took effect (a rejected request; a lost
\* answer, or a reset whose task or wait fails).
WriteFails(h) ==
    /\ handler[h].pc = "write"
    /\ env.failures < MaxFailures
    /\ env' = [env EXCEPT !.failures = @ + 1]
    /\ \E k \in First(handler[h].todo) :
         bmc' \in {bmc, Write(k, bmc)}
    /\ Raise(h)
    /\ UNCHANGED <<spec, status, unseen, ledger>>

\* The write is accepted (202) and its task ends in Exception, Killed or
\* Cancelled: fetch_task returns that state, the command puts it in its result,
\* and nothing looks at it.
WriteTaskFails(h) ==
    /\ handler[h].pc = "write"
    /\ env.taskFails < MaxTaskFails
    /\ env' = [env EXCEPT !.taskFails = @ + 1]
    /\ \E k \in First(handler[h].todo) :
         handler' = [handler EXCEPT
                       ![h].pc = "apply",
                       ![h].todo = @ \ {k},
                       ![h].steps = @ \cup {[kind |-> k, seen |-> Unseen]},
                       ![h].writes = "failed"]
    /\ UNCHANGED <<spec, status, unseen, bmc, ledger>>

\* Faulty variants: a failed pass consumes the approval; an applied one does not;
\* a dry run hands the approved hash on as the consumed one.
ConsumeOnError(r) ==
    build_status(r.steps, r.outcome # "dry", r.granted, r.hash, r.consumed)

NeverConsume(r) ==
    build_status(r.steps, FALSE, r.granted, r.hash, r.consumed)

ConsumeGranted(r) ==
    CASE r.outcome = "dry" ->
            build_status(r.steps, FALSE, r.granted, r.hash, r.granted)
      [] r.outcome = "applied" ->
            build_status(r.steps, TRUE, r.granted, r.hash, r.hash)
      [] OTHER -> build_error_status

\* What the handler puts in its patch: the dry run's status, the applied status,
\* or the error status.
StatusPatch(r) ==
    CASE r.outcome = "dry" ->
            build_status(r.steps, FALSE, r.granted, r.hash, r.consumed)
      [] r.outcome = "applied" ->
            build_status(r.steps, TRUE, r.granted, r.hash, r.hash)
      [] OTHER -> build_error_status

\* kopf sends the status the handler put in its patch object.
Patch(h) ==
    /\ handler[h].pc = "patch"
    /\ status' = MergePatch(status, StatusPatch(handler[h]))
    /\ ledger' = [ledger EXCEPT !.published = @ \cup {status'.planHash}]
    /\ handler' = [handler EXCEPT ![h] = Idle]
    /\ UNCHANGED <<spec, unseen, bmc, env>>

-----------------------------------------------------------------------------
(* The environment. *)

\* The controller restarts; kopf calls the change handler again if it had not
\* finished.
Crash ==
    /\ env.crashes < MaxCrashes
    /\ \E h \in Handlers : handler[h].pc # "idle"
    /\ env' = [env EXCEPT !.crashes = @ + 1]
    /\ unseen' = (unseen \/ \E h \in Changes : handler[h].pc # "idle")
    /\ handler' = [h \in Handlers |-> Idle]
    /\ UNCHANGED <<spec, status, bmc, ledger>>

EditSpec(newSpec) ==
    /\ env.edits < MaxEdits
    /\ env' = [env EXCEPT !.edits = @ + 1]
    /\ spec' = newSpec
    /\ unseen' = TRUE
    /\ UNCHANGED <<status, bmc, handler>>

\* The user copies the reported .status.planHash into spec.approvedPlanHash.
Approve ==
    /\ status.planHash \notin {NoHash, spec.approved}
    /\ EditSpec([spec EXCEPT !.approved = status.planHash,
                             !.approval = env.edits + 1])
    /\ ledger' = [ledger EXCEPT !.grants[env.edits + 1] = status.planHash]

\* The user withdraws the approval.
Withdraw ==
    /\ spec.approved # NoHash
    /\ EditSpec([spec EXCEPT !.approved = NoHash, !.approval = env.edits + 1])
    /\ UNCHANGED ledger

\* The user edits spec.desiredState.
EditDesired ==
    /\ \E d \in DesiredSpecs \ {spec.desired} :
         EditSpec([spec EXCEPT !.desired = d])
    /\ UNCHANGED ledger

\* The node changes outside the operator's control.
Drift ==
    /\ env.drifts < MaxDrifts
    /\ env' = [env EXCEPT !.drifts = @ + 1]
    /\ \/ \E k \in ConfigKinds : \E v \in Values \ {bmc.cur[k]} :
            bmc' = [bmc EXCEPT !.cur[k] = v]
       \/ bmc' = Reset(bmc)
    /\ UNCHANGED <<spec, status, unseen, handler, ledger>>

-----------------------------------------------------------------------------

Init ==
    /\ \E d \in DesiredSpecs :
         spec = [desired |-> d, approved |-> NoHash, approval |-> 0]
    /\ status = [dryRun |-> TRUE, drift |-> "null", reason |-> NoCondition,
                 applied |-> NoCondition, ready |-> FALSE,
                 planHash |-> NoHash, consumed |-> NoHash]
    /\ unseen = TRUE
    /\ \E cur \in [ConfigKinds -> Values] : bmc = [cur |-> cur, staged |-> FALSE]
    /\ handler = [h \in Handlers |-> Idle]
    /\ env = [edits |-> 0, drifts |-> 0, failures |-> 0, taskFails |-> 0,
              crashes |-> 0]
    /\ ledger = [published |-> {}, applied |-> {}, last |-> NoHash,
                 grants |-> [a \in 0..MaxEdits |-> NoHash],
                 attempts |-> [a \in 0..MaxEdits |-> 0]]

HandlerStep(h) ==
    \/ PlanStep(h)
    \/ Decide(h)
    \/ ApplyRead(h)
    \/ ApplyWrite(h)
    \/ ApplyDone(h)
    \/ Patch(h)

Failure(h) == ReadFails(h) \/ WriteFails(h) \/ WriteTaskFails(h)

Environment == Crash \/ Approve \/ Withdraw \/ EditDesired \/ Drift

Next ==
    \/ \E h \in Handlers : Start(h) \/ HandlerStep(h) \/ Failure(h)
    \/ Environment

Spec == Init /\ [][Next]_vars

\* kopf keeps firing the timer, and an invocation it started runs to its end.
Fairness ==
    /\ \A h \in Handlers : WF_vars(HandlerStep(h))
    /\ \A h \in Timers : WF_vars(Start(h))

FairSpec == Spec /\ Fairness

-----------------------------------------------------------------------------
(* Properties. *)

Hash == SUBSET Step

StatusType ==
    [dryRun : BOOLEAN, drift : {"true", "false", "null"},
     reason : {"Approved", "ApprovalConsumed", "ApprovalHashMismatch",
               "ApprovalRequired", NoCondition},
     applied : {"Applied", "NoChanges", "DryRun", NoCondition},
     ready : BOOLEAN, planHash : Hash, consumed : Hash]

HandlerType ==
    [pc : {"idle", "plan", "apply", "write", "patch"},
     desired : SUBSET Kinds, granted : Hash, approval : 0..MaxEdits,
     consumed : Hash, todo : SUBSET Kinds, steps : Hash, hash : Hash,
     writes : {"ok", "failed"}, outcome : {"dry", "applied", "error", NoCondition}]

SpecType == [desired : SUBSET Kinds, approved : Hash, approval : 0..MaxEdits]

NodeType == [cur : [ConfigKinds -> Values], staged : BOOLEAN]

EnvType ==
    [edits : 0..MaxEdits, drifts : 0..MaxDrifts, failures : 0..MaxFailures,
     taskFails : 0..MaxTaskFails, crashes : 0..MaxCrashes]

LedgerType ==
    [published : SUBSET Hash, applied : SUBSET Hash, last : Hash,
     grants : [0..MaxEdits -> Hash], attempts : [0..MaxEdits -> 0..2]]

\* Type invariant.
TypeOK ==
    /\ spec \in SpecType
    /\ status \in StatusType
    /\ unseen \in BOOLEAN
    /\ bmc \in NodeType
    /\ handler \in [Handlers -> HandlerType]
    /\ env \in EnvType
    /\ ledger \in LedgerType

Applying(h) == handler[h].pc \in {"apply", "write"}

\* Nothing is written to a node unless the plan the handler computed is the one
\* the user approved, and the user approved it after the controller published it
\* as .status.planHash (reconcile_profile's gate, whatever overlaps, fails or
\* crashes, and however stale the handler's snapshot is).
ApprovedBeforeWritten ==
    \A h \in Handlers : Applying(h) =>
        /\ handler[h].hash # NoHash
        /\ ledger.grants[handler[h].approval] = handler[h].hash
        /\ handler[h].hash \in ledger.published

\* .status.consumedPlanHash names only plans some confirmed pass ran to its end:
\* an approval is never reported consumed by a pass that raised or crashed.
ConsumedWasApplied ==
    status.consumed # NoHash => status.consumed \in ledger.applied

\* "after apply, .status.consumedPlanHash records it" (k8s/README.md): the record
\* only ever moves to the plan that was applied last.  No later status, of a dry
\* run, of an error or of a pass that had begun before, takes it back to none, to
\* an older plan or to one that was not applied.
ConsumptionIsRemembered ==
    [][status'.consumed # status.consumed => status'.consumed = ledger.last]_vars

\* "Current status.planHash value approved for exactly one apply attempt" (the
\* CRD's description of spec.approvedPlanHash).
OneAttemptPerApproval ==
    \A a \in 0..MaxEdits : ledger.attempts[a] <= 1

\* The confirmed pass writes only blocks the approved plan lists.
WritesWithinApproval ==
    \A h \in Handlers : handler[h].pc = "write" =>
        \A k \in First(handler[h].todo) :
            \E s \in handler[h].hash : s.kind = k

\* A pass that reports its plan applied leaves the node as desired: NTP set, the
\* BIOS profile staged or (with a reset in the plan) current, the one-time boot
\* override set or (with a reset) used up.
AppliedMeansInSync ==
    \A h \in Handlers :
        (handler[h].pc = "patch" /\ handler[h].outcome = "applied") =>
            LET d == handler[h].desired IN
            /\ "ntp" \in d => bmc.cur["ntp"] = Want
            /\ "bios-profile" \in d =>
                 bmc.cur["bios-profile"] = Want \/ (bmc.staged /\ "reboot" \notin d)
            /\ "boot" \in d =>
                 bmc.cur["boot"] = IF "reboot" \in d THEN Cleared ELSE Want

\* "A failed write never escalates into a restart": the reset of a pass runs only
\* when every write before it in that pass succeeded.
FailedWriteNeverRestarts ==
    \A h \in Handlers :
        (handler[h].pc = "write" /\ handler[h].todo = {"reboot"}) =>
            handler[h].writes = "ok"

CurrentPlan ==
    {ReconcileStep(k, bmc) : k \in {j \in spec.desired : Required(j, bmc)}}

AwaitsApply ==
    /\ spec.approved # NoHash
    /\ spec.approved = CurrentPlan
    /\ status.consumed # spec.approved

\* An approved plan that still describes the node does not wait forever: the
\* timer applies it and records it, unless the user or the node moves on.
ApprovedPlanIsApplied == AwaitsApply ~> ~AwaitsApply

\* Once the user and the node come to rest, the status comes to describe the node
\* for good: Ready, and drift reported exactly when a block differs.
StatusConverges ==
    <>[](status.ready /\ status.drift = IF CurrentPlan # {} THEN "true" ELSE "false")

Gate == INSTANCE OneShotApproval
            WITH Approvals <- 0..MaxEdits, Plans <- Hash, NoPlan <- NoHash,
                 published <- ledger.published, grants <- ledger.grants,
                 uses <- ledger.attempts

\* Where handlers do not overlap, fail or crash, the operator implements the
\* one-shot approval gate: publish, then grant, then at most one attempt.
ImplementsOneShot == Gate!Spec

=============================================================================
