-------------------------- MODULE NodeProfileProofs --------------------------
(***************************************************************************)
(* Proofs about NodeProfile, for any desired states, values and bounds.    *)
(***************************************************************************)
EXTENDS NodeProfile, TLAPS

-----------------------------------------------------------------------------
(* What the operators the handler is built from return. *)

\* A planned step is a step.
LEMMA ReconcileStepType ==
    ASSUME NEW k \in Kinds, NEW node \in NodeType
    PROVE  ReconcileStep(k, node) \in Step
BY DEF ReconcileStep, Step, NodeType, Kinds, ConfigKinds

\* A write and a host reset leave a well-formed node.
LEMMA WriteType ==
    ASSUME NEW k \in Kinds, NEW node \in NodeType
    PROVE  Reset(node) \in NodeType /\ Write(k, node) \in NodeType
<1>1. Reset(node) \in NodeType
  BY ValueAssumption DEF Reset, NodeType, ConfigKinds
<1>2. Write(k, node) \in NodeType
  BY <1>1, ValueAssumption, Zenon DEF Write, StageProfile, SetNtp, SetBootOnce,
       NodeType, ConfigKinds, Kinds
<1> QED BY <1>1, <1>2

\* The statuses the handler builds, merged into a status, are statuses.
LEMMA PatchType ==
    ASSUME NEW old \in StatusType, NEW r \in HandlerType
    PROVE  /\ StatusPatch(r) \in StatusType
           /\ MergePatch(old, StatusPatch(r)) \in StatusType
<1>1. ASSUME NEW a \in BOOLEAN, NEW c \in Hash
      PROVE  build_status(r.steps, a, r.granted, r.hash, c) \in StatusType
  <2>1. approval_reason(a, r.hash, r.granted, c) \in
          {"Approved", "ApprovalConsumed", "ApprovalHashMismatch", "ApprovalRequired"}
    BY DEF approval_reason
  <2> QED BY <2>1 DEF build_status, StatusType, HandlerType
<1>2. build_error_status \in StatusType
  BY DEF build_error_status, StatusType, Hash, NoHash, NoCondition
<1>3. StatusPatch(r) \in StatusType
  BY <1>1, <1>2, Zenon DEF StatusPatch, HandlerType
<1>4. ASSUME NEW patch \in StatusType
      PROVE  MergePatch(old, patch) \in StatusType
  BY Zenon DEF MergePatch, StatusType
<1> QED BY <1>3, <1>4

\* The record of a handler that is not running.
LEMMA IdleType == Idle \in HandlerType
BY BoundAssumption DEF Idle, HandlerType, Hash, NoHash, NoCondition

-----------------------------------------------------------------------------
(* Type correctness. *)

\* Every initial state is well typed.
LEMMA InitTypeOK == Init => TypeOK
<1> SUFFICES ASSUME Init PROVE TypeOK
  OBVIOUS
<1>1. spec \in SpecType
  BY DesiredAssumption, BoundAssumption DEF Init, SpecType, Hash, NoHash
<1>2. status \in StatusType
  BY DEF Init, StatusType, Hash, NoHash, NoCondition
<1>3. bmc \in NodeType /\ unseen \in BOOLEAN
  BY DEF Init, NodeType
<1>4. handler \in [Handlers -> HandlerType]
  BY IdleType DEF Init
<1>5. env \in EnvType
  BY BoundAssumption DEF Init, EnvType
<1>6. ledger \in LedgerType
  BY BoundAssumption DEF Init, LedgerType, Hash, NoHash
<1> QED BY <1>1, <1>2, <1>3, <1>4, <1>5, <1>6 DEF TypeOK

\* Every step keeps the state well typed.
LEMMA NextTypeOK == TypeOK /\ [Next]_vars => TypeOK'
<1> SUFFICES ASSUME TypeOK, [Next]_vars PROVE TypeOK'
  OBVIOUS
<1>t. /\ spec \in SpecType /\ status \in StatusType /\ unseen \in BOOLEAN
      /\ bmc \in NodeType /\ handler \in [Handlers -> HandlerType]
      /\ env \in EnvType /\ ledger \in LedgerType
  BY DEF TypeOK
<1>1. ASSUME NEW h \in Handlers, Start(h) PROVE TypeOK'
  <2>1. handler' \in [Handlers -> HandlerType]
    BY <1>1, <1>t, IdleType, Zenon DEF Start, HandlerType, SpecType, StatusType
  <2> QED BY <1>1, <1>t, <2>1 DEF Start, TypeOK
<1>2. ASSUME NEW h \in Handlers, PlanStep(h) PROVE TypeOK'
  <2>1. PICK k \in First(handler[h].todo) :
          handler' = [handler EXCEPT
                       ![h].todo = @ \ {k},
                       ![h].steps = IF Required(k, bmc)
                                    THEN @ \cup {ReconcileStep(k, bmc)} ELSE @]
    BY <1>2, Zenon DEF PlanStep
  <2>2. k \in Kinds /\ ReconcileStep(k, bmc) \in Step
    BY <1>t, <2>1, ReconcileStepType DEF First, HandlerType
  <2> DEFINE steps == IF Required(k, bmc)
                      THEN handler[h].steps \cup {ReconcileStep(k, bmc)}
                      ELSE handler[h].steps
  <2>3. steps \in Hash
    BY <2>2, <1>t DEF HandlerType, Hash
  <2> DEFINE r == [handler[h] EXCEPT !.todo = @ \ {k}, !.steps = steps]
  <2>4. r \in HandlerType /\ handler' = [handler EXCEPT ![h] = r]
    BY <2>1, <2>3, <1>t, ZenonT(60) DEF HandlerType
  <2> HIDE DEF r
  <2>5. handler' \in [Handlers -> HandlerType]
    BY <2>4, <1>t
  <2> QED BY <1>2, <1>t, <2>5 DEF PlanStep, TypeOK
<1>3. ASSUME NEW h \in Handlers, Decide(h) PROVE TypeOK'
  <2>1. handler' \in [Handlers -> HandlerType]
    BY <1>3, <1>t DEF Decide, HandlerType, Hash, plan_hash
  <2>2. ledger' \in LedgerType
    <3>1. handler[h].approval \in 0..MaxEdits
      BY <1>t DEF HandlerType
    <3>2. \A n \in 0..2 : OneMore(n) \in 0..2
      BY DEF OneMore
    <3>3. CASE ledger' = [ledger EXCEPT !.attempts[handler[h].approval] = OneMore(@)]
      BY <3>1, <3>2, <3>3, <1>t, Zenon DEF LedgerType
    <3> QED BY <1>3, <1>t, <3>3 DEF Decide
  <2> QED BY <1>3, <1>t, <2>1, <2>2 DEF Decide, TypeOK
<1>4. ASSUME NEW h \in Handlers, ApplyRead(h) PROVE TypeOK'
  <2>1. handler' \in [Handlers -> HandlerType]
    BY <1>4, <1>t DEF ApplyRead, HandlerType
  <2> QED BY <1>4, <1>t, <2>1 DEF ApplyRead, TypeOK
<1>5. ASSUME NEW h \in Handlers, ApplyWrite(h) PROVE TypeOK'
  <2>1. PICK k \in First(handler[h].todo) :
          /\ bmc' = Write(k, bmc)
          /\ handler' = [handler EXCEPT
                          ![h].pc = "apply",
                          ![h].todo = @ \ {k},
                          ![h].steps = @ \cup {[kind |-> k, seen |-> Unseen]}]
    BY <1>5, Zenon DEF ApplyWrite
  <2>2. k \in Kinds
    BY <1>t, <2>1 DEF First, HandlerType
  <2>3. bmc' \in NodeType
    BY <2>1, <2>2, <1>t, WriteType
  <2>4. handler' \in [Handlers -> HandlerType]
    <3>1. handler[h].steps \cup {[kind |-> k, seen |-> Unseen]} \in Hash
      BY <2>2, <1>t DEF HandlerType, Hash, Step
    <3> DEFINE r == [handler[h] EXCEPT
                       !.pc = "apply", !.todo = @ \ {k},
                       !.steps = @ \cup {[kind |-> k, seen |-> Unseen]}]
    <3>2. r \in HandlerType
      BY <3>1, <1>t, ZenonT(60) DEF HandlerType
    <3>3. handler' = [handler EXCEPT ![h] = r]
      BY <2>1, <1>t, Zenon
    <3> HIDE DEF r
    <3> QED BY <3>2, <3>3, <1>t
  <2> QED BY <1>5, <1>t, <2>3, <2>4, SMTT(60) DEF ApplyWrite, TypeOK
<1>6. ASSUME NEW h \in Handlers, ApplyDone(h) PROVE TypeOK'
  <2>1. handler' \in [Handlers -> HandlerType]
    <3> DEFINE r == [handler[h] EXCEPT !.pc = "patch", !.outcome = "applied"]
    <3>1. r \in HandlerType
      BY <1>t, ZenonT(60) DEF HandlerType
    <3>2. handler' = [handler EXCEPT ![h] = r]
      BY <1>6, <1>t, Zenon DEF ApplyDone
    <3> HIDE DEF r
    <3> QED BY <3>1, <3>2, <1>t
  <2>2. handler[h].hash \in Hash
    BY <1>t DEF HandlerType
  <2>3. ledger' \in LedgerType
    BY <1>6, <1>t, <2>2 DEF ApplyDone, LedgerType
  <2> QED BY <1>6, <1>t, <2>1, <2>3 DEF ApplyDone, TypeOK
<1>7. ASSUME NEW h \in Handlers, Raise(h) PROVE handler' \in [Handlers -> HandlerType]
  <2> DEFINE r == [handler[h] EXCEPT !.pc = "patch", !.writes = "failed",
                                     !.outcome = "error"]
  <2>1. r \in HandlerType
    BY <1>t, ZenonT(60) DEF HandlerType
  <2>2. handler' = [handler EXCEPT ![h] = r]
    BY <1>7, <1>t, Zenon DEF Raise
  <2> HIDE DEF r
  <2> QED BY <2>1, <2>2, <1>t
<1>8. ASSUME NEW h \in Handlers, ReadFails(h) PROVE TypeOK'
  <2>1. env' \in EnvType
    BY <1>8, <1>t, BoundAssumption DEF ReadFails, EnvType
  <2> QED BY <1>8, <1>7, <1>t, <2>1 DEF ReadFails, TypeOK
<1>9. ASSUME NEW h \in Handlers, WriteFails(h) PROVE TypeOK'
  <2>1. env' \in EnvType
    BY <1>9, <1>t, BoundAssumption DEF WriteFails, EnvType
  <2>2. bmc' \in NodeType
    BY <1>9, <1>t, WriteType DEF WriteFails, First, HandlerType
  <2> QED BY <1>9, <1>7, <1>t, <2>1, <2>2 DEF WriteFails, TypeOK
<1>10. ASSUME NEW h \in Handlers, WriteTaskFails(h) PROVE TypeOK'
  <2>1. PICK k \in First(handler[h].todo) :
          handler' = [handler EXCEPT
                          ![h].pc = "apply",
                          ![h].todo = @ \ {k},
                          ![h].steps = @ \cup {[kind |-> k, seen |-> Unseen]},
                          ![h].writes = "failed"]
    BY <1>10, Zenon DEF WriteTaskFails
  <2>2. k \in Kinds
    BY <1>t, <2>1 DEF First, HandlerType
  <2>3. handler' \in [Handlers -> HandlerType]
    <3>1. handler[h].steps \cup {[kind |-> k, seen |-> Unseen]} \in Hash
      BY <2>2, <1>t DEF HandlerType, Hash, Step
    <3> DEFINE r == [handler[h] EXCEPT
                       !.pc = "apply", !.todo = @ \ {k},
                       !.steps = @ \cup {[kind |-> k, seen |-> Unseen]}, !.writes = "failed"]
    <3>2. r \in HandlerType
      BY <3>1, <1>t, ZenonT(60) DEF HandlerType
    <3>3. handler' = [handler EXCEPT ![h] = r]
      BY <2>1, <1>t, Zenon
    <3> HIDE DEF r
    <3> QED BY <3>2, <3>3, <1>t
  <2>4. env' \in EnvType
    BY <1>10, <1>t, BoundAssumption DEF WriteTaskFails, EnvType
  <2> QED BY <1>10, <1>t, <2>3, <2>4 DEF WriteTaskFails, TypeOK
<1>12. ASSUME NEW h \in Handlers, Patch(h) PROVE TypeOK'
  <2>1. status' \in StatusType
    BY <1>12, <1>t, PatchType DEF Patch
  <2>2. ledger' \in LedgerType
    BY <1>12, <1>t, <2>1 DEF Patch, LedgerType, StatusType
  <2>3. handler' \in [Handlers -> HandlerType]
    BY <1>12, <1>t, IdleType DEF Patch
  <2> QED BY <1>12, <1>t, <2>1, <2>2, <2>3 DEF Patch, TypeOK
<1>13. ASSUME Crash PROVE TypeOK'
  <2>1. handler' \in [Handlers -> HandlerType]
    BY <1>13, IdleType DEF Crash
  <2>2. env' \in EnvType
    BY <1>13, <1>t, BoundAssumption DEF Crash, EnvType
  <2>3. unseen' \in BOOLEAN
    BY <1>13 DEF Crash
  <2> QED BY <1>13, <1>t, <2>1, <2>2, <2>3 DEF Crash, TypeOK
<1>14. ASSUME NEW s \in SpecType, EditSpec(s)
       PROVE  /\ spec' \in SpecType /\ env' \in EnvType /\ unseen' \in BOOLEAN
              /\ status' = status /\ bmc' = bmc /\ handler' = handler
  BY <1>14, <1>t, BoundAssumption DEF EditSpec, EnvType
<1>15. ASSUME Approve PROVE TypeOK'
  <2> DEFINE s == [spec EXCEPT !.approved = status.planHash,
                               !.approval = env.edits + 1]
  <2>1. env.edits + 1 \in 0..MaxEdits
    BY <1>15, <1>t, BoundAssumption DEF Approve, EditSpec, EnvType
  <2>2. s \in SpecType
    BY <2>1, <1>t, Zenon DEF SpecType, StatusType
  <2>3. ledger' \in LedgerType
    BY <1>15, <1>t, <2>1, Zenon DEF Approve, LedgerType, StatusType
  <2>4. EditSpec(s)
    BY <1>15 DEF Approve
  <2> QED BY <1>14, <1>t, <2>2, <2>3, <2>4 DEF TypeOK
<1>16. ASSUME Withdraw PROVE TypeOK'
  <2> DEFINE s == [spec EXCEPT !.approved = NoHash, !.approval = env.edits + 1]
  <2>1. env.edits + 1 \in 0..MaxEdits
    BY <1>16, <1>t, BoundAssumption DEF Withdraw, EditSpec, EnvType
  <2>2. s \in SpecType
    BY <2>1, <1>t, Zenon DEF SpecType, Hash, NoHash
  <2>3. EditSpec(s) /\ ledger' = ledger
    BY <1>16 DEF Withdraw
  <2> QED BY <1>14, <1>t, <2>2, <2>3 DEF TypeOK
<1>17. ASSUME EditDesired PROVE TypeOK'
  <2>1. PICK d \in DesiredSpecs : EditSpec([spec EXCEPT !.desired = d])
    BY <1>17 DEF EditDesired
  <2>2. [spec EXCEPT !.desired = d] \in SpecType
    BY <2>1, <1>t, DesiredAssumption DEF SpecType
  <2> QED BY <1>14, <1>17, <1>t, <2>1, <2>2 DEF EditDesired, TypeOK
<1>18. ASSUME Drift PROVE TypeOK'
  <2>1. bmc' \in NodeType
    <3>1. CASE bmc' = Reset(bmc)
      BY <3>1, <1>t, WriteType DEF Kinds
    <3>2. CASE \E k \in ConfigKinds : \E v \in Values \ {bmc.cur[k]} :
                 bmc' = [bmc EXCEPT !.cur[k] = v]
      BY <3>2, <1>t DEF NodeType
    <3> QED BY <1>18, <3>1, <3>2 DEF Drift
  <2>2. env' \in EnvType
    BY <1>18, <1>t, BoundAssumption DEF Drift, EnvType
  <2> QED BY <1>18, <1>t, <2>1, <2>2 DEF Drift, TypeOK
<1>19. CASE UNCHANGED vars
  BY <1>19, <1>t DEF vars, TypeOK
<1> QED
  BY <1>1, <1>2, <1>3, <1>4, <1>5, <1>6, <1>8, <1>9, <1>10, <1>12, <1>13,
     <1>15, <1>16, <1>17, <1>18, <1>19
  DEF Next, HandlerStep, Failure, Environment

\* The type invariant holds of the operator whatever the bounds, the desired
\* states and the number of handler slots.
THEOREM TypeCorrect == Spec => []TypeOK
BY InitTypeOK, NextTypeOK, PTL DEF Spec

-----------------------------------------------------------------------------
(* Writes need a published and granted plan. *)

\* The object carries the hash of its latest grant; later grants are open.
GrantsRecorded ==
    /\ spec.approval <= env.edits
    /\ spec.approved = ledger.grants[spec.approval]
    /\ \A a \in 0..MaxEdits : a > env.edits => ledger.grants[a] = NoHash

\* What the user granted, and what the status shows, has been published.
GrantsPublished ==
    /\ status.planHash # NoHash => status.planHash \in ledger.published
    /\ \A a \in 0..MaxEdits :
         ledger.grants[a] # NoHash => ledger.grants[a] \in ledger.published

\* A running handler's snapshot is of some grant, and it applies that grant only.
SnapshotGranted(r) ==
    r.pc # "idle" =>
        /\ r.approval <= env.edits
        /\ r.granted = ledger.grants[r.approval]
        /\ r.pc \in {"apply", "write"} => r.hash # NoHash /\ r.hash = r.granted

ApprovalInv ==
    /\ GrantsRecorded
    /\ GrantsPublished
    /\ \A h \in Handlers : SnapshotGranted(handler[h])

\* The steps of a handler leave the user's side of the approval alone.
LEMMA HandlerFrame ==
    ASSUME TypeOK, NEW h \in Handlers, Start(h) \/ HandlerStep(h) \/ Failure(h)
    PROVE  /\ spec' = spec
           /\ env'.edits = env.edits
           /\ ledger'.grants = ledger.grants
           /\ ledger.published \subseteq ledger'.published
           /\ \A g \in Handlers : g # h => handler'[g] = handler[g]
<1> USE DEF TypeOK, EnvType, LedgerType
<1>1. CASE Start(h) \/ PlanStep(h) \/ ApplyRead(h)
  BY <1>1, Zenon DEF Start, PlanStep, ApplyRead
<1>2. CASE Decide(h) \/ ApplyDone(h)
  BY <1>2 DEF Decide, ApplyDone
<1>3. CASE ApplyWrite(h) \/ WriteTaskFails(h)
  BY <1>3, Zenon DEF ApplyWrite, WriteTaskFails
<1>4. CASE ReadFails(h) \/ WriteFails(h)
  BY <1>4 DEF ReadFails, WriteFails, Raise
<1>5. CASE Patch(h)
  BY <1>5, SMTT(60) DEF Patch
<1> QED BY <1>1, <1>2, <1>3, <1>4, <1>5 DEF HandlerStep, Failure

\* A handler keeps the grant it snapshotted; it enters the confirmed pass only
\* through reconcile_profile's test.
LEMMA HandlerKeepsGrant ==
    ASSUME TypeOK, NEW h \in Handlers, HandlerStep(h) \/ Failure(h), ~Patch(h)
    PROVE  /\ handler[h].pc # "idle"
           /\ handler'[h].approval = handler[h].approval
           /\ handler'[h].granted = handler[h].granted
           /\ handler'[h].pc \in {"apply", "write"} =>
                \/ handler[h].pc \in {"apply", "write"} /\ handler'[h].hash = handler[h].hash
                \/ handler'[h].hash # NoHash /\ handler'[h].hash = handler[h].granted
<1> USE DEF TypeOK, HandlerType
<1>1. CASE PlanStep(h)
  BY <1>1 DEF PlanStep
<1>2. CASE Decide(h)
  BY <1>2 DEF Decide, Approved
<1>3. CASE ApplyRead(h)
  BY <1>3 DEF ApplyRead
<1>4. CASE ApplyWrite(h) \/ WriteTaskFails(h)
  <2>1. handler[h].pc = "write"
    BY <1>4, Zenon DEF ApplyWrite, WriteTaskFails
  <2>2. CASE ApplyWrite(h)
    BY <2>1, <2>2 DEF ApplyWrite
  <2>3. CASE WriteTaskFails(h)
    BY <2>1, <2>3 DEF WriteTaskFails
  <2> QED BY <1>4, <2>2, <2>3, SMTT(60)
<1>5. CASE ApplyDone(h)
  BY <1>5 DEF ApplyDone
<1>6. CASE ReadFails(h) \/ WriteFails(h)
  BY <1>6, SMTT(60) DEF ReadFails, WriteFails, Raise
<1> QED BY <1>1, <1>2, <1>3, <1>4, <1>5, <1>6 DEF HandlerStep, Failure

\* Only a patch changes the status, and it publishes the plan it shows.
LEMMA StatusFrame ==
    ASSUME TypeOK, NEW h \in Handlers, Start(h) \/ HandlerStep(h) \/ Failure(h)
    PROVE  \/ status' = status
           \/ Patch(h) /\ status'.planHash \in ledger'.published
<1> USE DEF TypeOK, LedgerType
<1>1. CASE Patch(h)
  BY <1>1 DEF Patch
<1> QED BY <1>1, Zenon DEF HandlerStep, Failure, Start, PlanStep, Decide, ApplyRead,
        ApplyWrite, WriteTaskFails, ApplyDone, ReadFails, WriteFails

\* The initial states satisfy the invariant.
LEMMA InitApprovalInv == Init => ApprovalInv
BY BoundAssumption DEF Init, ApprovalInv, GrantsRecorded, GrantsPublished,
   SnapshotGranted, Idle

\* Every step preserves the invariant.
LEMMA NextApprovalInv == TypeOK /\ ApprovalInv /\ [Next]_vars => ApprovalInv'
<1> SUFFICES ASSUME TypeOK, ApprovalInv, [Next]_vars PROVE ApprovalInv'
  OBVIOUS
<1>1. ASSUME NEW h \in Handlers, Start(h) \/ HandlerStep(h) \/ Failure(h)
      PROVE  ApprovalInv'
  <2>1. GrantsRecorded'
    BY <1>1, HandlerFrame DEF ApprovalInv, GrantsRecorded
  <2>2. GrantsPublished'
    BY <1>1, HandlerFrame, StatusFrame DEF ApprovalInv, GrantsPublished
  <2>3. ASSUME NEW g \in Handlers PROVE SnapshotGranted(handler[g])'
    <3>1. CASE g # h
      BY <1>1, <3>1, HandlerFrame DEF ApprovalInv, SnapshotGranted
    <3>2. CASE g = h /\ Start(h)
      BY <3>2 DEF Start, Idle, ApprovalInv, SnapshotGranted, GrantsRecorded, TypeOK
    <3>3. CASE g = h /\ Patch(h)
      BY <3>3 DEF Patch, Idle, SnapshotGranted, TypeOK
    <3>4. CASE g = h /\ ~Start(h) /\ ~Patch(h)
      BY <1>1, <3>4, HandlerFrame, HandlerKeepsGrant DEF ApprovalInv, SnapshotGranted
    <3> QED BY <3>1, <3>2, <3>3, <3>4
  <2> QED BY <2>1, <2>2, <2>3 DEF ApprovalInv
<1>2. ASSUME Approve \/ Withdraw \/ EditDesired PROVE ApprovalInv'
  <2>1. env.edits \in Nat /\ env'.edits = env.edits + 1 /\ env'.edits \in 0..MaxEdits
    BY <1>2, BoundAssumption
       DEF Approve, Withdraw, EditDesired, EditSpec, TypeOK, EnvType
  <2>2. UNCHANGED <<handler, status>>
    BY <1>2 DEF Approve, Withdraw, EditDesired, EditSpec
  <2>3. /\ ledger'.published = ledger.published
        /\ \A a \in 0..MaxEdits : a <= env.edits => ledger'.grants[a] = ledger.grants[a]
        /\ \A a \in 0..MaxEdits : a > env'.edits => ledger'.grants[a] = ledger.grants[a]
        /\ \/ ledger'.grants[env'.edits] = ledger.grants[env'.edits]
           \/ ledger'.grants[env'.edits] = status.planHash /\ status.planHash # NoHash
    <3>1. CASE Approve
      BY <3>1, <2>1 DEF Approve, EditSpec, TypeOK, LedgerType
    <3>2. CASE Withdraw \/ EditDesired
      BY <3>2 DEF Withdraw, EditDesired
    <3> QED BY <1>2, <3>1, <3>2
  <2>4. \/ /\ spec'.approval = env'.edits
           /\ spec'.approved = ledger'.grants[env'.edits]
        \/ spec'.approval = spec.approval /\ spec'.approved = spec.approved
    <3>1. CASE Approve
      BY <3>1, <2>1, Zenon DEF Approve, EditSpec, TypeOK, SpecType, LedgerType
    <3>2. CASE Withdraw
      BY <3>2, <2>1
         DEF Withdraw, EditSpec, TypeOK, SpecType, ApprovalInv, GrantsRecorded
    <3>3. CASE EditDesired
      BY <3>3 DEF EditDesired, EditSpec, TypeOK, SpecType
    <3> QED BY <1>2, <3>1, <3>2, <3>3
  <2>5. GrantsRecorded'
    BY <2>1, <2>3, <2>4, BoundAssumption
    DEF ApprovalInv, GrantsRecorded, TypeOK, SpecType
  <2>6. GrantsPublished'
    BY <2>1, <2>2, <2>3, BoundAssumption
       DEF ApprovalInv, GrantsRecorded, GrantsPublished
  <2>7. \A h \in Handlers : SnapshotGranted(handler[h])'
    BY <2>1, <2>2, <2>3, BoundAssumption
    DEF ApprovalInv, SnapshotGranted, TypeOK, HandlerType
  <2> QED BY <2>5, <2>6, <2>7 DEF ApprovalInv
<1>3. CASE Crash
  BY <1>3 DEF Crash, Idle, ApprovalInv, GrantsRecorded, GrantsPublished,
     SnapshotGranted, TypeOK, EnvType
<1>4. CASE Drift
  BY <1>4 DEF Drift, ApprovalInv, GrantsRecorded, GrantsPublished,
     SnapshotGranted, TypeOK, EnvType
<1>5. CASE UNCHANGED vars
  BY <1>5 DEF vars, ApprovalInv, GrantsRecorded, GrantsPublished, SnapshotGranted
<1> QED BY <1>1, <1>2, <1>3, <1>4, <1>5 DEF Next, Environment

\* No handler is ever in the confirmed pass of a plan that was not published and
\* then granted, whatever overlaps, fails, drifts or crashes.
THEOREM WritesAreApproved == Spec => []ApprovedBeforeWritten
<1>1. TypeOK /\ ApprovalInv => ApprovedBeforeWritten
  BY DEF ApprovalInv, SnapshotGranted, GrantsPublished, ApprovedBeforeWritten,
     Applying, TypeOK, HandlerType
<1> QED BY <1>1, InitTypeOK, NextTypeOK, InitApprovalInv, NextApprovalInv, PTL DEF Spec

-----------------------------------------------------------------------------
(* A consumed plan was applied. *)

\* The consumed hashes the status and the handlers' snapshots hold, and the hash
\* a finished confirmed pass is about to record, are of plans that were applied.
ConsumptionInv ==
    /\ ConsumedWasApplied
    /\ \A h \in Handlers :
         /\ handler[h].consumed # NoHash => handler[h].consumed \in ledger.applied
         /\ handler[h].outcome = "applied" => handler[h].hash \in ledger.applied
         /\ handler[h].pc # "patch" => handler[h].outcome = NoCondition

\* The consumed hash in a handler's patch is its snapshot's, or its own plan's
\* when it applied it.
LEMMA PatchConsumed ==
    ASSUME NEW r \in HandlerType
    PROVE  StatusPatch(r).consumed \in
             {NoHash, r.consumed} \cup (IF r.outcome = "applied" THEN {r.hash} ELSE {})
<1>1. CASE r.outcome = "dry"
  BY <1>1 DEF StatusPatch, build_status
<1>2. CASE r.outcome = "applied"
  BY <1>2 DEF StatusPatch, build_status
<1>3. CASE r.outcome \notin {"dry", "applied"}
  BY <1>3, Zenon DEF StatusPatch, build_error_status
<1> QED BY <1>1, <1>2, <1>3

\* The merge keeps the old consumed hash unless the patch carries one.
LEMMA MergeConsumed ==
    ASSUME NEW old \in StatusType, NEW patch \in StatusType
    PROVE  MergePatch(old, patch).consumed =
             IF patch.consumed # NoHash THEN patch.consumed ELSE old.consumed
BY DEF MergePatch, StatusType

\* Every step preserves the invariant.
LEMMA NextConsumptionInv ==
    TypeOK /\ ConsumptionInv /\ [Next]_vars => ConsumptionInv'
<1> SUFFICES ASSUME TypeOK, ConsumptionInv, [Next]_vars PROVE ConsumptionInv'
  OBVIOUS
<1> USE DEF TypeOK, HandlerType, NoCondition
<1>1. ASSUME NEW h \in Handlers, Start(h) PROVE ConsumptionInv'
  BY <1>1 DEF Start, Idle, ConsumptionInv, ConsumedWasApplied
<1>2. ASSUME NEW h \in Handlers, PlanStep(h) PROVE ConsumptionInv'
  BY <1>2 DEF PlanStep, ConsumptionInv, ConsumedWasApplied
<1>3. ASSUME NEW h \in Handlers, Decide(h) PROVE ConsumptionInv'
  <2>1. status' = status /\ ledger'.applied = ledger.applied
    BY <1>3 DEF Decide, LedgerType
  <2>2. /\ handler'[h].consumed = handler[h].consumed
        /\ \/ handler'[h].pc = "patch" /\ handler'[h].outcome = "dry"
           \/ handler'[h].pc = "apply" /\ handler'[h].outcome = handler[h].outcome
        /\ handler[h].pc = "plan"
        /\ \A g \in Handlers : g # h => handler'[g] = handler[g]
    BY <1>3 DEF Decide
  <2> QED BY <2>1, <2>2 DEF ConsumptionInv, ConsumedWasApplied
<1>4. ASSUME NEW h \in Handlers, ApplyRead(h) PROVE ConsumptionInv'
  BY <1>4 DEF ApplyRead, ConsumptionInv, ConsumedWasApplied
<1>5. ASSUME NEW h \in Handlers, ApplyWrite(h) PROVE ConsumptionInv'
  BY <1>5 DEF ApplyWrite, ConsumptionInv, ConsumedWasApplied
<1>6. ASSUME NEW h \in Handlers, ApplyDone(h) PROVE ConsumptionInv'
  BY <1>6 DEF ApplyDone, ConsumptionInv, ConsumedWasApplied, LedgerType
<1>7. ASSUME NEW h \in Handlers, ReadFails(h) \/ WriteFails(h)
      PROVE  ConsumptionInv'
  <2>1. Raise(h) /\ UNCHANGED <<status, ledger>>
    BY <1>7 DEF ReadFails, WriteFails
  <2> QED BY <2>1 DEF Raise, ConsumptionInv, ConsumedWasApplied
<1>8. ASSUME NEW h \in Handlers, WriteTaskFails(h) PROVE ConsumptionInv'
  BY <1>8 DEF WriteTaskFails, ConsumptionInv, ConsumedWasApplied
<1>9. ASSUME NEW h \in Handlers, Patch(h) PROVE ConsumptionInv'
  <2>1. ledger'.applied = ledger.applied
    BY <1>9 DEF Patch, LedgerType
  <2>2. StatusPatch(handler[h]) \in StatusType
    BY PatchType
  <2>3. status' = MergePatch(status, StatusPatch(handler[h]))
    BY <1>9 DEF Patch
  <2>4. status'.consumed # NoHash => status'.consumed \in ledger.applied
    BY <2>2, <2>3, PatchConsumed, MergeConsumed DEF ConsumptionInv, ConsumedWasApplied
  <2>5. handler' = [handler EXCEPT ![h] = Idle]
    BY <1>9 DEF Patch
  <2> QED BY <2>1, <2>4, <2>5 DEF ConsumptionInv, ConsumedWasApplied, Idle
<1>10. CASE Crash
  BY <1>10 DEF Crash, Idle, ConsumptionInv, ConsumedWasApplied
<1>11. CASE Approve
  BY <1>11 DEF Approve, EditSpec, ConsumptionInv, ConsumedWasApplied, LedgerType
<1>12. CASE Withdraw \/ EditDesired \/ Drift
  BY <1>12
     DEF Withdraw, EditDesired, EditSpec, Drift, ConsumptionInv, ConsumedWasApplied
<1>13. CASE UNCHANGED vars
  BY <1>13 DEF vars, ConsumptionInv, ConsumedWasApplied
<1> QED
  BY <1>1, <1>2, <1>3, <1>4, <1>5, <1>6, <1>7, <1>8, <1>9, <1>10, <1>11, <1>12, <1>13
  DEF Next, HandlerStep, Failure, Environment

\* .status.consumedPlanHash is only ever a plan a confirmed pass ran to its end.
THEOREM ConsumedIsApplied == Spec => []ConsumedWasApplied
<1>1. Init => ConsumptionInv
  BY DEF Init, Idle, NoCondition, ConsumptionInv, ConsumedWasApplied
<1>2. ConsumptionInv => ConsumedWasApplied
  BY DEF ConsumptionInv
<1> QED BY <1>1, <1>2, InitTypeOK, NextTypeOK, NextConsumptionInv, PTL DEF Spec

-----------------------------------------------------------------------------
(* The operator keeps the one-shot promise of its approval gate when kopf    *)
(* does not overlap two handlers of the object and no pass raises or is cut  *)
(* short.  Each hypothesis is needed: the runs that drop one find a second   *)
(* attempt.                                                                  *)

Undisturbed ==
    Serial = TRUE /\ MaxFailures = 0 /\ MaxCrashes = 0

Busy(r) == r.pc # "idle"

\* In a confirmed pass, or done with one and not yet patched.
Using(r) == r.pc \in {"apply", "write"} \/ (r.pc = "patch" /\ r.outcome = "applied")

\* At most one handler runs, and nobody changes the consumed hash under it.
OneHandler ==
    /\ \A g, h \in Handlers : Busy(handler[g]) /\ Busy(handler[h]) => g = h
    /\ \A h \in Handlers : Busy(handler[h]) =>
         /\ handler[h].consumed = status.consumed
         /\ handler[h].approval <= spec.approval
         /\ handler[h].outcome # "error"
         /\ handler[h].pc = "patch" => handler[h].outcome # NoCondition
         /\ handler[h].outcome = "applied" =>
              handler[h].hash # NoHash /\ handler[h].hash = handler[h].granted

\* Attempts are made on grants, oldest first, one each.
AttemptsInOrder ==
    /\ \A a \in 0..MaxEdits : ledger.attempts[a] <= 1
    /\ \A a \in 0..MaxEdits : a > spec.approval => ledger.attempts[a] = 0
    /\ \A h \in Handlers : Busy(handler[h]) =>
         \A a \in 0..MaxEdits : a > handler[h].approval => ledger.attempts[a] = 0

\* The current approval, once attempted, is being used or is recorded consumed;
\* a handler that is still planning sees that record.
AttemptRecorded ==
    /\ ledger.attempts[spec.approval] = 0
       \/ status.consumed = spec.approved
       \/ \E h \in Handlers : Using(handler[h]) /\ handler[h].approval = spec.approval
    /\ \A h \in Handlers :
         (handler[h].pc = "plan" /\ ledger.attempts[handler[h].approval] # 0) =>
            handler[h].consumed = handler[h].granted

OneShotInv == OneHandler /\ AttemptsInOrder /\ AttemptRecorded

\* reconcile_profile's test passes only on a grant nobody has attempted yet.
LEMMA FirstAttempt ==
    ASSUME TypeOK, ApprovalInv, AttemptRecorded, NEW h \in Handlers,
           handler[h].pc = "plan", Approved(handler[h])
    PROVE  /\ ledger.attempts[handler[h].approval] = 0
           /\ ledger.grants[handler[h].approval] # NoHash
BY DEF AttemptRecorded, Approved, ApprovalInv, SnapshotGranted

\* The initial states satisfy the invariant.
LEMMA InitOneShotInv == Init => OneShotInv
BY BoundAssumption DEF Init, Idle, OneShotInv, OneHandler, AttemptsInOrder,
   AttemptRecorded, Busy

\* Every undisturbed step preserves the invariant.
LEMMA NextOneShotInv ==
    ASSUME Undisturbed
    PROVE  TypeOK /\ ApprovalInv /\ ConsumptionInv /\ OneShotInv /\ [Next]_vars
             => OneShotInv'
<1> SUFFICES ASSUME TypeOK, ApprovalInv, ConsumptionInv, OneShotInv, [Next]_vars
             PROVE  OneShotInv'
  OBVIOUS
<1> USE DEF NoCondition
<1>t. /\ handler \in [Handlers -> HandlerType] /\ ledger \in LedgerType
      /\ spec \in SpecType /\ env \in EnvType /\ status \in StatusType
  BY DEF TypeOK
<1>1. ASSUME NEW h \in Handlers, Start(h) PROVE OneShotInv'
  <2>1. /\ \A g \in Handlers : handler[g].pc = "idle"
        /\ UNCHANGED <<spec, status, ledger>>
        /\ \A g \in Handlers : g # h => handler'[g] = handler[g]
    BY <1>1, <1>t DEF Start, Undisturbed
  <2>2. /\ handler'[h].pc = "plan" /\ handler'[h].outcome = NoCondition
        /\ handler'[h].consumed = status.consumed
        /\ handler'[h].approval = spec.approval
        /\ handler'[h].granted = spec.approved
    BY <1>1, <1>t DEF Start, Idle
  <2>3. OneHandler'
    BY <2>1, <2>2, <1>t DEF OneHandler, Busy, SpecType
  <2>4. AttemptsInOrder'
    BY <2>1, <2>2 DEF OneShotInv, AttemptsInOrder, Busy
  <2>5. AttemptRecorded'
    BY <2>1, <2>2 DEF OneShotInv, AttemptRecorded, Using
  <2> QED BY <2>3, <2>4, <2>5 DEF OneShotInv
<1>2. ASSUME NEW h \in Handlers, UNCHANGED <<spec, status, ledger>>,
             \A g \in Handlers : g # h => handler'[g] = handler[g],
             Busy(handler[h]),
             handler'[h].consumed = handler[h].consumed,
             handler'[h].approval = handler[h].approval,
             handler'[h].granted = handler[h].granted,
             handler'[h].hash = handler[h].hash,
             handler'[h].outcome = handler[h].outcome,
             \/ handler'[h].pc = handler[h].pc
             \/ Using(handler[h]) /\ handler'[h].pc \in {"apply", "write"}
      PROVE  OneShotInv'
  <2>1. OneHandler'
    BY <1>2, <1>t DEF OneShotInv, OneHandler, Busy, Using, ConsumptionInv
  <2>2. AttemptsInOrder'
    BY <1>2, <1>t DEF OneShotInv, AttemptsInOrder, Busy, Using
  <2>3. AttemptRecorded'
    BY <1>2, <1>t DEF OneShotInv, AttemptRecorded, Busy, Using
  <2> QED BY <2>1, <2>2, <2>3 DEF OneShotInv
<1>3. ASSUME NEW h \in Handlers, PlanStep(h) PROVE OneShotInv'
  <2>1. /\ handler'[h].pc = handler[h].pc /\ handler[h].pc = "plan"
        /\ handler'[h].consumed = handler[h].consumed
        /\ handler'[h].approval = handler[h].approval
        /\ handler'[h].granted = handler[h].granted
        /\ handler'[h].hash = handler[h].hash
        /\ handler'[h].outcome = handler[h].outcome
    BY <1>3, <1>t DEF PlanStep, HandlerType
  <2>2. \A g \in Handlers : g # h => handler'[g] = handler[g]
    BY <1>3, <1>t DEF PlanStep
  <2>3. UNCHANGED <<spec, status, ledger>>
    BY <1>3 DEF PlanStep
  <2> QED BY <1>2, <2>1, <2>2, <2>3 DEF Busy
<1>4. ASSUME NEW h \in Handlers, ApplyRead(h) PROVE OneShotInv'
  <2>1. /\ handler'[h].pc \in {"apply", "write"} /\ handler[h].pc = "apply"
        /\ handler'[h].consumed = handler[h].consumed
        /\ handler'[h].approval = handler[h].approval
        /\ handler'[h].granted = handler[h].granted
        /\ handler'[h].hash = handler[h].hash
        /\ handler'[h].outcome = handler[h].outcome
    BY <1>4, <1>t DEF ApplyRead, HandlerType
  <2>2. \A g \in Handlers : g # h => handler'[g] = handler[g]
    BY <1>4, <1>t DEF ApplyRead
  <2>3. UNCHANGED <<spec, status, ledger>>
    BY <1>4 DEF ApplyRead
  <2> QED BY <1>2, <2>1, <2>2, <2>3 DEF Busy, Using
<1>5. ASSUME NEW h \in Handlers, ApplyWrite(h) \/ WriteTaskFails(h) PROVE OneShotInv'
  <2>1. /\ handler'[h].pc = "apply" /\ handler[h].pc = "write"
        /\ handler'[h].consumed = handler[h].consumed
        /\ handler'[h].approval = handler[h].approval
        /\ handler'[h].granted = handler[h].granted
        /\ handler'[h].hash = handler[h].hash
        /\ handler'[h].outcome = handler[h].outcome
    <3>1. CASE ApplyWrite(h)
      BY <3>1, <1>t DEF ApplyWrite, HandlerType
    <3>2. CASE WriteTaskFails(h)
      BY <3>2, <1>t, SMTT(60) DEF WriteTaskFails, HandlerType
    <3> QED BY <1>5, <3>1, <3>2
  <2>2. \A g \in Handlers : g # h => handler'[g] = handler[g]
    BY <1>5, <1>t, ZenonT(60) DEF ApplyWrite, WriteTaskFails
  <2>3. UNCHANGED <<spec, status, ledger>>
    BY <1>5, Zenon DEF ApplyWrite, WriteTaskFails
  <2> QED BY <1>2, <2>1, <2>2, <2>3 DEF Busy, Using
<1>6. ASSUME NEW h \in Handlers, Decide(h) PROVE OneShotInv'
  <2>0. /\ handler[h].pc = "plan" /\ handler[h].outcome = NoCondition
        /\ UNCHANGED <<spec, status>>
        /\ \A g \in Handlers : g # h => handler'[g] = handler[g]
        /\ \A g \in Handlers : g # h => handler[g].pc = "idle"
    BY <1>6, <1>t DEF Decide, OneShotInv, OneHandler, Busy, ConsumptionInv
  <2>1. CASE ~Approved(handler[h])
    <3>1. /\ ledger' = ledger /\ handler'[h].pc = "patch"
          /\ handler'[h].outcome = "dry"
          /\ handler'[h].consumed = handler[h].consumed
          /\ handler'[h].approval = handler[h].approval
      BY <1>6, <2>1, <1>t DEF Decide, HandlerType
    <3>2. OneHandler'
      BY <2>0, <3>1 DEF OneShotInv, OneHandler, Busy
    <3>3. AttemptsInOrder'
      BY <2>0, <3>1 DEF OneShotInv, AttemptsInOrder, Busy
    <3>4. AttemptRecorded'
      BY <2>0, <3>1 DEF OneShotInv, AttemptRecorded, Using
    <3> QED BY <3>2, <3>3, <3>4 DEF OneShotInv
  <2>2. CASE Approved(handler[h])
    <3> DEFINE a == handler[h].approval
    <3>1. /\ handler'[h].pc = "apply" /\ handler'[h].outcome = NoCondition
          /\ handler'[h].consumed = handler[h].consumed
          /\ handler'[h].approval = a
      BY <1>6, <2>0, <2>2, <1>t DEF Decide, HandlerType
    <3>2. a \in 0..MaxEdits /\ ledger.attempts[a] = 0
      BY <2>0, <2>2, <1>t, FirstAttempt DEF HandlerType, OneShotInv
    <3>3. /\ ledger'.attempts[a] = 1
          /\ \A b \in 0..MaxEdits : b # a => ledger'.attempts[b] = ledger.attempts[b]
      <4>1. ledger' = [ledger EXCEPT !.attempts[a] = OneMore(@)]
        BY <1>6, <2>2 DEF Decide
      <4>2. OneMore(0) = 1
        BY DEF OneMore
      <4> QED BY <3>2, <4>1, <4>2, <1>t, Zenon DEF LedgerType
    <3>4. OneHandler'
      BY <2>0, <3>1 DEF OneShotInv, OneHandler, Busy
    <3>5. AttemptsInOrder'
      <4>1. a <= spec.approval
        BY <2>0 DEF OneShotInv, OneHandler, Busy
      <4>2. \A b \in 0..MaxEdits : b > a => ledger'.attempts[b] = 0
        BY <2>0, <3>2, <3>3 DEF OneShotInv, AttemptsInOrder, Busy
      <4> QED BY <2>0, <3>1, <3>2, <3>3, <4>1, <4>2, <1>t
              DEF OneShotInv, AttemptsInOrder, Busy, SpecType
    <3>6. AttemptRecorded'
      <4>1. CASE a = spec.approval
        BY <2>0, <3>1, <4>1 DEF AttemptRecorded, Using
      <4>2. CASE a # spec.approval
        <5>1. ledger'.attempts[spec.approval] = ledger.attempts[spec.approval]
          BY <3>3, <4>2, <1>t DEF SpecType
        <5>2. \A g \in Handlers : ~Using(handler[g])
          BY <2>0 DEF Using
        <5> QED BY <2>0, <3>1, <5>1, <5>2 DEF OneShotInv, AttemptRecorded
      <4> QED BY <4>1, <4>2
    <3> QED BY <3>4, <3>5, <3>6 DEF OneShotInv
  <2> QED BY <2>1, <2>2
<1>7. ASSUME NEW h \in Handlers, ApplyDone(h) PROVE OneShotInv'
  <2>1. /\ handler'[h].pc = "patch" /\ handler[h].pc = "apply"
        /\ handler'[h].outcome = "applied"
        /\ handler'[h].consumed = handler[h].consumed
        /\ handler'[h].approval = handler[h].approval
        /\ handler'[h].granted = handler[h].granted
        /\ handler'[h].hash = handler[h].hash
    BY <1>7, <1>t DEF ApplyDone, HandlerType
  <2>2. /\ \A g \in Handlers : g # h => handler'[g] = handler[g]
        /\ UNCHANGED <<spec, status>> /\ ledger'.attempts = ledger.attempts
    BY <1>7, <1>t DEF ApplyDone, LedgerType
  <2>3. handler[h].hash # NoHash /\ handler[h].hash = handler[h].granted
    BY <2>1 DEF ApprovalInv, SnapshotGranted
  <2>4. OneHandler'
    BY <2>1, <2>2, <2>3 DEF OneShotInv, OneHandler, Busy
  <2>5. AttemptsInOrder'
    BY <2>1, <2>2 DEF OneShotInv, AttemptsInOrder, Busy
  <2>6. AttemptRecorded'
    BY <2>1, <2>2 DEF OneShotInv, AttemptRecorded, Using
  <2> QED BY <2>4, <2>5, <2>6 DEF OneShotInv
<1>8. ASSUME NEW h \in Handlers, Patch(h) PROVE OneShotInv'
  <2> DEFINE r == handler[h]
  <2>0. /\ r.pc = "patch" /\ r.outcome \in {"dry", "applied"} /\ spec' = spec
        /\ ledger'.attempts = ledger.attempts
        /\ r.consumed = status.consumed
        /\ r.approval <= spec.approval
        /\ r.outcome = "applied" => r.hash # NoHash /\ r.hash = r.granted
    BY <1>8, <1>t DEF Patch, LedgerType, HandlerType, OneShotInv, OneHandler, Busy
  <2>1. /\ handler'[h].pc = "idle"
        /\ \A g \in Handlers : g # h => handler'[g] = handler[g]
        /\ \A g \in Handlers : g # h => handler[g].pc = "idle"
    BY <1>8, <1>t, <2>0 DEF Patch, Idle, OneShotInv, OneHandler, Busy
  <2>2. StatusPatch(r) \in StatusType
    BY <1>t, PatchType
  <2>3. CASE r.outcome = "dry"
    <3>1. StatusPatch(r).consumed = status.consumed
      BY <2>0, <2>3 DEF StatusPatch, build_status
    <3>2. status'.consumed = status.consumed
      BY <1>8, <1>t, <2>2, <3>1, MergeConsumed DEF Patch
    <3>3. \A g \in Handlers : ~Using(handler[g])
      BY <2>0, <2>1, <2>3 DEF Using
    <3>4. AttemptRecorded'
      BY <2>0, <2>1, <3>2, <3>3 DEF OneShotInv, AttemptRecorded
    <3> QED BY <2>0, <2>1, <3>4 DEF OneShotInv, OneHandler, AttemptsInOrder, Busy
  <2>4. CASE r.outcome = "applied"
    <3>1. StatusPatch(r).consumed = r.hash
      BY <2>0, <2>4 DEF StatusPatch, build_status
    <3>2. status'.consumed = r.granted
      BY <1>8, <1>t, <2>0, <2>2, <2>4, <3>1, MergeConsumed DEF Patch
    <3>3. r.granted = ledger.grants[r.approval] /\ spec.approved = ledger.grants[spec.approval]
      BY <2>0 DEF ApprovalInv, SnapshotGranted, GrantsRecorded
    <3>4. r.approval # spec.approval => ledger.attempts[spec.approval] = 0
      BY <2>0, <1>t, BoundAssumption
      DEF OneShotInv, AttemptsInOrder, Busy, SpecType, HandlerType
    <3>5. AttemptRecorded'
      BY <2>0, <2>1, <3>2, <3>3, <3>4 DEF AttemptRecorded
    <3> QED BY <2>0, <2>1, <3>5 DEF OneShotInv, OneHandler, AttemptsInOrder, Busy
  <2> QED BY <2>0, <2>3, <2>4
<1>9. ASSUME NEW h \in Handlers, ReadFails(h) \/ WriteFails(h)
      PROVE  FALSE
  BY <1>9, <1>t DEF ReadFails, WriteFails, Undisturbed, EnvType
<1>10. ASSUME Crash PROVE FALSE
  BY <1>10, <1>t DEF Crash, Undisturbed, EnvType
<1>11. ASSUME Approve \/ Withdraw \/ EditDesired PROVE OneShotInv'
  <2>1. UNCHANGED <<handler, status>> /\ ledger'.attempts = ledger.attempts
    BY <1>11, <1>t DEF Approve, Withdraw, EditDesired, EditSpec, LedgerType
  <2>2. \/ spec'.approval = spec.approval /\ spec'.approved = spec.approved
        \/ spec'.approval > spec.approval /\ spec'.approval \in 0..MaxEdits
    <3>1. spec.approval <= env.edits /\ env.edits + 1 \in 0..MaxEdits
      BY <1>11, <1>t, BoundAssumption
      DEF Approve, Withdraw, EditDesired, EditSpec, EnvType, ApprovalInv, GrantsRecorded
    <3>2. CASE Approve
      BY <3>1, <3>2, <1>t DEF Approve, EditSpec, EnvType, SpecType
    <3>3. CASE Withdraw
      BY <3>1, <3>3, <1>t DEF Withdraw, EditSpec, EnvType, SpecType
    <3>4. CASE EditDesired
      BY <3>4, <1>t DEF EditDesired, EditSpec, SpecType
    <3> QED BY <1>11, <3>2, <3>3, <3>4
  <2>3. OneHandler'
    BY <2>1, <2>2, <1>t DEF OneShotInv, OneHandler, SpecType, HandlerType
  <2>4. AttemptsInOrder'
    BY <2>1, <2>2, <1>t DEF OneShotInv, AttemptsInOrder, SpecType
  <2>5. AttemptRecorded'
    BY <2>1, <2>2, <1>t DEF OneShotInv, AttemptsInOrder, AttemptRecorded, SpecType
  <2> QED BY <2>3, <2>4, <2>5 DEF OneShotInv
<1>12. CASE Drift \/ UNCHANGED vars
  BY <1>12 DEF Drift, vars, OneShotInv, OneHandler, AttemptsInOrder, AttemptRecorded
<1> QED
  BY <1>1, <1>3, <1>4, <1>5, <1>6, <1>7, <1>8, <1>9, <1>10, <1>11, <1>12
  DEF Next, HandlerStep, Failure, Environment

\* A grant is used for at most one apply attempt.
THEOREM OneAttempt ==
    ASSUME Undisturbed
    PROVE  Spec => []OneAttemptPerApproval
<1>1. OneShotInv => OneAttemptPerApproval
  BY DEF OneShotInv, AttemptsInOrder, OneAttemptPerApproval
<1>2. Init => ConsumptionInv
  BY DEF Init, Idle, NoCondition, ConsumptionInv, ConsumedWasApplied
<1> QED
  BY <1>1, <1>2, InitTypeOK, NextTypeOK, InitApprovalInv, NextApprovalInv,
     NextConsumptionInv, InitOneShotInv, NextOneShotInv, PTL DEF Spec

-----------------------------------------------------------------------------
(* Refinement: the operator implements OneShotApproval. *)

gateVars == <<ledger.published, ledger.grants, ledger.attempts>>

\* Every undisturbed step is a step of the gate or leaves the gate alone.
LEMMA StepSimulation ==
    ASSUME Undisturbed, TypeOK, ApprovalInv, OneShotInv, [Next]_vars
    PROVE  [Gate!Next]_gateVars
<1>t. ledger \in LedgerType /\ handler \in [Handlers -> HandlerType] /\ env \in EnvType
  BY DEF TypeOK
<1>1. ASSUME NEW h \in Handlers, Decide(h), Approved(handler[h]) PROVE Gate!Next
  <2> DEFINE a == handler[h].approval
  <2>1. ledger.attempts[a] = 0 /\ ledger.grants[a] # NoHash
    BY <1>1, FirstAttempt DEF Decide, OneShotInv
  <2>2. ledger' = [ledger EXCEPT !.attempts[a] = OneMore(@)] /\ OneMore(0) = 1
    BY <1>1 DEF Decide, OneMore
  <2>3. /\ ledger'.attempts = [ledger.attempts EXCEPT ![a] = 1]
        /\ ledger'.published = ledger.published
        /\ ledger'.grants = ledger.grants
    BY <2>1, <2>2, <1>t DEF LedgerType
  <2>4. a \in 0..MaxEdits
    BY <1>t DEF HandlerType
  <2>5. Gate!Use(a)
    BY <2>1, <2>3 DEF Gate!Use
  <2> QED BY <2>4, <2>5 DEF Gate!Next
<1>2. ASSUME NEW h \in Handlers, Patch(h) PROVE Gate!Next
  <2>1. status'.planHash \in Hash
    BY <1>2, PatchType DEF Patch, TypeOK, StatusType
  <2>2. /\ ledger'.published = ledger.published \cup {status'.planHash}
        /\ ledger'.grants = ledger.grants /\ ledger'.attempts = ledger.attempts
    BY <1>2, <1>t DEF Patch, LedgerType
  <2>3. Gate!Publish(status'.planHash)
    BY <2>2 DEF Gate!Publish
  <2> QED BY <2>1, <2>3 DEF Gate!Next
<1>3. ASSUME Approve PROVE Gate!Next
  <2> DEFINE a == env.edits + 1
  <2>1. a \in 0..MaxEdits /\ ledger.grants[a] = NoHash
    BY <1>3, <1>t, BoundAssumption
    DEF Approve, EditSpec, EnvType, ApprovalInv, GrantsRecorded
  <2>2. status.planHash # NoHash /\ status.planHash \in ledger.published
    BY <1>3 DEF Approve, ApprovalInv, GrantsPublished
  <2>3. /\ ledger'.grants = [ledger.grants EXCEPT ![a] = status.planHash]
        /\ ledger'.published = ledger.published
        /\ ledger'.attempts = ledger.attempts
    BY <1>3, <1>t DEF Approve, LedgerType
  <2>4. Gate!Grant(a)
    BY <2>1, <2>2, <2>3 DEF Gate!Grant
  <2> QED BY <2>1, <2>4 DEF Gate!Next
<1>4. ASSUME NEW h \in Handlers, ApplyDone(h) PROVE UNCHANGED gateVars
  BY <1>4, <1>t, SMTT(60) DEF ApplyDone, LedgerType, gateVars
<1>5. ASSUME NEW h \in Handlers,
             \/ Start(h) \/ PlanStep(h) \/ (Decide(h) /\ ~Approved(handler[h]))
             \/ ApplyRead(h) \/ ApplyWrite(h) \/ Failure(h)
      PROVE  UNCHANGED gateVars
  BY <1>5, Zenon
     DEF Start, PlanStep, Decide, ApplyRead, ApplyWrite, Failure,
     ReadFails, WriteFails, WriteTaskFails, gateVars
<1>6. ASSUME Crash \/ Withdraw \/ EditDesired \/ Drift \/ UNCHANGED vars
      PROVE  UNCHANGED gateVars
  BY <1>6 DEF Crash, Withdraw, EditDesired, Drift, vars, gateVars
<1> QED
  BY <1>1, <1>2, <1>3, <1>4, <1>5, <1>6 DEF Next, HandlerStep, Environment

\* The operator implements the one-shot approval gate.
THEOREM Implementation ==
    ASSUME Undisturbed
    PROVE  Spec => ImplementsOneShot
<1>1. Init => Gate!Init
  BY DEF Init, Gate!Init
<1>2. Init => ConsumptionInv
  BY DEF Init, Idle, NoCondition, ConsumptionInv, ConsumedWasApplied
<1>3. TypeOK /\ ApprovalInv /\ OneShotInv /\ [Next]_vars => [Gate!Next]_gateVars
  BY StepSimulation
<1> QED
  BY <1>1, <1>2, <1>3, InitTypeOK, NextTypeOK, InitApprovalInv, NextApprovalInv,
     NextConsumptionInv, InitOneShotInv, NextOneShotInv, PTL
  DEF Spec, ImplementsOneShot, Gate!Spec, gateVars

-----------------------------------------------------------------------------
(* What a pass does, step by step. *)

\* The order of the blocks.
LEMMA Ranks ==
    /\ Rank["bios-profile"] = 1 /\ Rank["ntp"] = 2
    /\ Rank["boot"] = 3 /\ Rank["reboot"] = 4
BY DEF Rank, Kinds

\* reconcile() has one block to visit next, and the reset only when it is the
\* last one left.
LEMMA OneFirst ==
    ASSUME NEW todo \in SUBSET Kinds, NEW k \in First(todo)
    PROVE  /\ k \in todo /\ k \in Kinds
           /\ \A j \in First(todo) : j = k
           /\ k = "reboot" => todo = {"reboot"}
<1>1. k \in todo /\ \A j \in todo : Rank[k] <= Rank[j]
  BY DEF First
<1>2. ASSUME NEW i \in Kinds, NEW j \in Kinds, Rank[i] <= Rank[j], Rank[j] <= Rank[i]
      PROVE  i = j
  BY <1>2, Ranks DEF Kinds
<1>3. \A j \in First(todo) : j = k
  BY <1>1, <1>2 DEF First
<1>4. ASSUME k = "reboot" PROVE todo = {"reboot"}
  <2>1. \A j \in todo : Rank[j] >= 4 /\ j \in Kinds
    BY <1>1, <1>4, Ranks
  <2>2. \A j \in Kinds : Rank[j] >= 4 => j = "reboot"
    BY Ranks DEF Kinds
  <2> QED BY Zenon, <1>1, <1>4, <2>1, <2>2
<1> QED BY <1>1, <1>3, <1>4

\* The command of a configuration block leaves the settings of the others alone.
LEMMA WriteEffect ==
    ASSUME NEW node \in NodeType
    PROVE  /\ Write("bios-profile", node).cur = node.cur
           /\ Write("bios-profile", node).staged = TRUE
           /\ Write("ntp", node).cur["ntp"] = Want
           /\ \A j \in {"bios-profile", "boot"} : Write("ntp", node).cur[j] = node.cur[j]
           /\ Write("ntp", node).staged = node.staged
           /\ Write("boot", node).cur["boot"] = Want
           /\ \A j \in {"bios-profile", "ntp"} : Write("boot", node).cur[j] = node.cur[j]
           /\ Write("boot", node).staged = node.staged
           /\ Write("reboot", node).cur["ntp"] = node.cur["ntp"]
           /\ Write("reboot", node).cur["boot"] = Cleared
           /\ Write("reboot", node).cur["bios-profile"] =
                IF node.staged THEN Want ELSE node.cur["bios-profile"]
<1>1. /\ Write("bios-profile", node) = [node EXCEPT !.staged = TRUE]
      /\ Write("ntp", node) = [node EXCEPT !.cur["ntp"] = Want]
      /\ Write("boot", node) = [node EXCEPT !.cur["boot"] = Want]
      /\ Write("reboot", node) = Reset(node)
  BY Zenon DEF Write, StageProfile, SetNtp, SetBootOnce
<1>2. /\ Write("bios-profile", node).cur = node.cur
      /\ Write("bios-profile", node).staged = TRUE
  BY <1>1 DEF NodeType
<1>3. /\ Write("ntp", node).cur["ntp"] = Want
      /\ \A j \in {"bios-profile", "boot"} : Write("ntp", node).cur[j] = node.cur[j]
      /\ Write("ntp", node).staged = node.staged
  BY <1>1 DEF NodeType, ConfigKinds
<1>4. /\ Write("boot", node).cur["boot"] = Want
      /\ \A j \in {"bios-profile", "ntp"} : Write("boot", node).cur[j] = node.cur[j]
      /\ Write("boot", node).staged = node.staged
  BY <1>1, Zenon DEF NodeType, ConfigKinds
<1>5. /\ Write("reboot", node).cur["ntp"] = node.cur["ntp"]
      /\ Write("reboot", node).cur["boot"] = Cleared
      /\ Write("reboot", node).cur["bios-profile"] =
           IF node.staged THEN Want ELSE node.cur["bios-profile"]
  BY <1>1 DEF Reset, NodeType, ConfigKinds
<1> QED BY <1>2, <1>3, <1>4, <1>5

\* A write makes no later block of the pass necessary.
LEMMA WriteNeedsNoMore ==
    ASSUME NEW node \in NodeType, NEW todo \in SUBSET Kinds, NEW k \in First(todo),
           NEW j \in todo \ {k}, Required(j, Write(k, node))
    PROVE  Required(j, node)
<1>1. k \in Kinds /\ k # "reboot" /\ j \in Kinds
  BY OneFirst
<1>2. CASE j = "reboot"
  BY <1>2 DEF Required
<1>3. CASE j # "reboot"
  <2>1. Write(k, node).cur[j] # Want
    BY <1>3 DEF Required
  <2>2. Write(k, node).cur[j] = node.cur[j]
    <3>1. CASE k = "bios-profile"
      BY Zenon, <3>1, WriteEffect
    <3>2. CASE k = "ntp"
      <4>1. j \in {"bios-profile", "boot"}
        BY <1>1, <1>3, <3>2 DEF Kinds
      <4>2. \A i \in {"bios-profile", "boot"} : Write("ntp", node).cur[i] = node.cur[i]
        BY Zenon, WriteEffect
      <4> QED BY <3>2, <4>1, <4>2, Zenon
    <3>3. CASE k = "boot"
      <4>1. j \in {"bios-profile", "ntp"}
        BY <1>1, <1>3, <3>3 DEF Kinds
      <4>2. \A i \in {"bios-profile", "ntp"} : Write("boot", node).cur[i] = node.cur[i]
        BY Zenon, WriteEffect
      <4> QED BY <3>3, <4>1, <4>2, Zenon
    <3> QED BY <1>1, <3>1, <3>2, <3>3 DEF Kinds
  <2> QED BY <1>3, <2>1, <2>2 DEF Required
<1> QED BY <1>2, <1>3

\* Whether a plan lists a block.
Lists(steps, k) == \E s \in steps : s.kind = k

\* With Serial, one handler runs at a time.
SoloInv ==
    \A g, h \in Handlers : Busy(handler[g]) /\ Busy(handler[h]) => g = h

\* The plan lists the blocks that the node needs, and while nothing but this
\* pass changes the node, so does the plan that was approved: the confirmed pass
\* finds no block necessary that the dry run did not.
PlanInv ==
    \A h \in Handlers :
        LET r == handler[h] IN
        /\ r.pc = "plan" => \A k \in r.desired \ r.todo :
             Required(k, bmc) => Lists(r.steps, k)
        /\ r.pc \in {"apply", "write"} => \A k \in r.todo :
             Required(k, bmc) => Lists(r.hash, k)
        /\ r.pc = "write" => \A k \in First(r.todo) : Required(k, bmc)

\* What the blocks that a pass is done with have left on the node, before the
\* reset and after it.
Settled(r, node) ==
    LET done == r.desired \ r.todo IN
    /\ Busy(r) => r.todo \subseteq r.desired
    /\ r.pc \in {"apply", "write"} \/ (r.pc = "patch" /\ r.outcome = "applied") =>
         /\ "ntp" \in done => node.cur["ntp"] = Want
         /\ "bios-profile" \in done =>
              node.cur["bios-profile"] = Want \/ (node.staged /\ "reboot" \notin done)
         /\ "boot" \in done =>
              node.cur["boot"] = IF "reboot" \in done THEN Cleared ELSE Want
         /\ "reboot" \in done \/ r.pc = "patch" => r.todo = {}

DoneInv == \A h \in Handlers : Settled(handler[h], bmc)

\* A pass in which a write failed does not go on.
UnfailedInv ==
    \A h \in Handlers : handler[h].pc # "patch" => handler[h].writes = "ok"

\* The call of the handler.
LEMMA StartFields ==
    ASSUME TypeOK, NEW h \in Handlers, Start(h)
    PROVE  /\ handler'[h].pc = "plan" /\ handler'[h].steps = {}
           /\ handler'[h].desired = spec.desired /\ handler'[h].todo = spec.desired
           /\ handler'[h].writes = "ok" /\ bmc' = bmc
           /\ Serial = TRUE => \A g \in Handlers : ~ Busy(handler[g])
BY DEF Start, Idle, Busy, TypeOK

\* A block of the dry run.
LEMMA PlanFields ==
    ASSUME TypeOK, NEW h \in Handlers, PlanStep(h)
    PROVE  /\ handler[h].pc = "plan" /\ handler'[h].pc = "plan" /\ bmc' = bmc
           /\ handler'[h].desired = handler[h].desired
           /\ handler'[h].writes = handler[h].writes
           /\ \E k \in First(handler[h].todo) :
                /\ handler'[h].todo = handler[h].todo \ {k}
                /\ handler'[h].steps = IF Required(k, bmc)
                     THEN handler[h].steps \cup {ReconcileStep(k, bmc)}
                     ELSE handler[h].steps
<1>1. PICK k \in First(handler[h].todo) :
        handler' = [handler EXCEPT
                      ![h].todo = @ \ {k},
                      ![h].steps = IF Required(k, bmc)
                                   THEN @ \cup {ReconcileStep(k, bmc)} ELSE @]
  BY Zenon DEF PlanStep
<1>2. /\ handler'[h].todo = handler[h].todo \ {k}
      /\ handler'[h].steps = IF Required(k, bmc)
           THEN handler[h].steps \cup {ReconcileStep(k, bmc)} ELSE handler[h].steps
      /\ handler'[h].pc = handler[h].pc /\ handler'[h].desired = handler[h].desired
      /\ handler'[h].writes = handler[h].writes
  BY <1>1, ZenonT(60) DEF TypeOK, HandlerType
<1>3. handler[h].pc = "plan" /\ bmc' = bmc
  BY DEF PlanStep
<1> QED BY <1>1, <1>2, <1>3, Zenon

\* The end of the dry run.
LEMMA DecideFields ==
    ASSUME TypeOK, NEW h \in Handlers, Decide(h)
    PROVE  /\ handler[h].pc = "plan" /\ handler[h].todo = {} /\ bmc' = bmc
           /\ handler'[h].desired = handler[h].desired
           /\ handler'[h].writes = handler[h].writes
           /\ \/ /\ handler'[h].pc = "patch" /\ handler'[h].outcome = "dry"
                 /\ handler'[h].todo = {}
              \/ /\ handler'[h].pc = "apply" /\ handler'[h].hash = handler[h].steps
                 /\ handler'[h].todo = handler[h].desired
BY DEF Decide, TypeOK, HandlerType, plan_hash

\* A block of the confirmed pass reads the node.
LEMMA ReadFields ==
    ASSUME TypeOK, NEW h \in Handlers, ApplyRead(h)
    PROVE  /\ handler[h].pc = "apply" /\ bmc' = bmc
           /\ handler'[h].desired = handler[h].desired
           /\ handler'[h].hash = handler[h].hash
           /\ handler'[h].writes = handler[h].writes
           /\ \E k \in First(handler[h].todo) :
                \/ /\ Required(k, bmc) /\ handler'[h].pc = "write"
                   /\ handler'[h].todo = handler[h].todo
                \/ /\ ~ Required(k, bmc) /\ handler'[h].pc = "apply"
                   /\ handler'[h].todo = handler[h].todo \ {k}
BY DEF ApplyRead, TypeOK, HandlerType

\* A block of the confirmed pass writes the node, or its task fails.
LEMMA WriteFields ==
    ASSUME TypeOK, NEW h \in Handlers, ApplyWrite(h) \/ WriteTaskFails(h)
    PROVE  /\ handler[h].pc = "write" /\ handler'[h].pc = "apply"
           /\ handler'[h].desired = handler[h].desired
           /\ handler'[h].hash = handler[h].hash
           /\ \E k \in First(handler[h].todo) :
                /\ handler'[h].todo = handler[h].todo \ {k}
                /\ \/ /\ bmc' = Write(k, bmc)
                      /\ handler'[h].writes = handler[h].writes
                   \/ bmc' = bmc /\ MaxTaskFails # 0
<1>1. CASE ApplyWrite(h)
  <2>1. PICK k \in First(handler[h].todo) :
          /\ bmc' = Write(k, bmc)
          /\ handler' = [handler EXCEPT
                          ![h].pc = "apply",
                          ![h].todo = @ \ {k},
                          ![h].steps = @ \cup {[kind |-> k, seen |-> Unseen]}]
    BY <1>1, Zenon DEF ApplyWrite
  <2>2. /\ handler'[h].pc = "apply" /\ handler'[h].todo = handler[h].todo \ {k}
        /\ handler'[h].desired = handler[h].desired
        /\ handler'[h].hash = handler[h].hash
        /\ handler'[h].writes = handler[h].writes
    BY <2>1 DEF TypeOK, HandlerType
  <2>3. handler[h].pc = "write"
    BY Zenon, <1>1 DEF ApplyWrite
  <2> QED BY Zenon, <2>1, <2>2, <2>3
<1>2. CASE WriteTaskFails(h)
  <2>1. PICK k \in First(handler[h].todo) :
          handler' = [handler EXCEPT
                          ![h].pc = "apply",
                          ![h].todo = @ \ {k},
                          ![h].steps = @ \cup {[kind |-> k, seen |-> Unseen]},
                          ![h].writes = "failed"]
    BY <1>2, Zenon DEF WriteTaskFails
  <2>2. /\ handler'[h].pc = "apply" /\ handler'[h].todo = handler[h].todo \ {k}
        /\ handler'[h].desired = handler[h].desired
        /\ handler'[h].hash = handler[h].hash
    BY <2>1 DEF TypeOK, HandlerType
  <2>3. handler[h].pc = "write" /\ bmc' = bmc /\ env.taskFails < MaxTaskFails
    BY Zenon, <1>2 DEF WriteTaskFails
  <2>4. MaxTaskFails # 0
    BY <2>3 DEF TypeOK, EnvType
  <2> QED BY Zenon, <2>1, <2>2, <2>3, <2>4
<1> QED BY <1>1, <1>2

\* The end of the confirmed pass.
LEMMA DoneFields ==
    ASSUME TypeOK, NEW h \in Handlers, ApplyDone(h)
    PROVE  /\ handler[h].pc = "apply" /\ handler[h].todo = {} /\ bmc' = bmc
           /\ handler'[h].pc = "patch" /\ handler'[h].outcome = "applied"
           /\ handler'[h].desired = handler[h].desired /\ handler'[h].todo = {}
BY DEF ApplyDone, TypeOK, HandlerType

\* A pass that raises ends with an error status.
LEMMA RaiseFields ==
    ASSUME TypeOK, NEW h \in Handlers, ReadFails(h) \/ WriteFails(h)
    PROVE  /\ Busy(handler[h])
           /\ handler'[h].pc = "patch" /\ handler'[h].outcome = "error"
           /\ handler'[h].desired = handler[h].desired
           /\ handler'[h].todo = handler[h].todo
<1>1. Raise(h) /\ Busy(handler[h])
  BY DEF ReadFails, WriteFails, Busy
<1> QED BY <1>1 DEF Raise, TypeOK, HandlerType

\* A handler that has sent its patch is over.
LEMMA PatchFields ==
    ASSUME TypeOK, NEW h \in Handlers, Patch(h)
    PROVE  Busy(handler[h]) /\ handler'[h] = Idle /\ bmc' = bmc
BY SMTT(30) DEF Patch, Busy, TypeOK

\* A handler that takes a step other than its start is running.
LEMMA StepIsBusy ==
    ASSUME TypeOK, NEW h \in Handlers, HandlerStep(h) \/ Failure(h)
    PROVE  Busy(handler[h])
BY Zenon, PlanFields, DecideFields, ReadFields, WriteFields, DoneFields, RaiseFields,
   PatchFields
   DEF HandlerStep, Failure, Busy

\* While a handler takes a step, no other one runs.
LEMMA OthersAreIdle ==
    ASSUME TypeOK, SoloInv, Serial = TRUE, NEW h \in Handlers,
           Start(h) \/ HandlerStep(h) \/ Failure(h), NEW g \in Handlers, g # h
    PROVE  handler'[g].pc = "idle"
<1>1. handler'[g] = handler[g]
  BY SMTT(30), HandlerFrame
<1>2. ~ Busy(handler[g])
  BY Zenon, StartFields, StepIsBusy DEF SoloInv
<1> QED BY <1>1, <1>2 DEF Busy

\* What changes around the handlers.
LEMMA EnvironmentFrame ==
    ASSUME TypeOK, Environment, MaxDrifts = 0
    PROVE  /\ bmc' = bmc
           /\ handler' = handler \/ \A g \in Handlers : handler'[g] = Idle
BY DEF Environment, Crash, Approve, Withdraw, EditDesired, EditSpec, Drift, TypeOK,
   EnvType

\* One handler at a time, whatever fails, drifts or crashes.
LEMMA NextSolo == Serial = TRUE /\ TypeOK /\ SoloInv /\ [Next]_vars => SoloInv'
<1> SUFFICES ASSUME Serial = TRUE, TypeOK, SoloInv, [Next]_vars PROVE SoloInv'
  OBVIOUS
<1>1. ASSUME NEW h \in Handlers, Start(h) \/ HandlerStep(h) \/ Failure(h) PROVE SoloInv'
  BY <1>1, OthersAreIdle DEF SoloInv, Busy
<1>2. CASE Environment
  <2>1. handler' = handler \/ \A g \in Handlers : handler'[g] = Idle
    BY <1>2 DEF Environment, Crash, Approve, Withdraw, EditDesired, EditSpec, Drift
  <2> QED BY <2>1 DEF SoloInv, Busy, Idle
<1>3. CASE UNCHANGED vars
  BY <1>3 DEF vars, SoloInv
<1> QED BY <1>1, <1>2, <1>3 DEF Next

\* While one handler runs nobody changes the record under it, and what it is about
\* to record as applied is the plan that was applied last.
RecordInv ==
    \A h \in Handlers : Busy(handler[h]) =>
        /\ handler[h].consumed = status.consumed
        /\ handler[h].pc # "patch" => handler[h].outcome = NoCondition
        /\ handler[h].outcome = "applied" => handler[h].hash = ledger.last

\* The only step that changes the status is the patch of the one handler that
\* runs, and the record it leaves is the old one or the plan applied last.
LEMMA PatchRecord ==
    ASSUME TypeOK, RecordInv, NEW h \in Handlers, Patch(h)
    PROVE  status'.consumed \in {status.consumed, ledger.last}
<1>1. /\ handler[h] \in HandlerType /\ Busy(handler[h])
      /\ status' = MergePatch(status, StatusPatch(handler[h]))
  BY Zenon, PatchFields DEF Patch, TypeOK
<1>2. StatusPatch(handler[h]) \in StatusType /\ status \in StatusType
  BY PatchType DEF TypeOK
<1>3. StatusPatch(handler[h]).consumed \in {NoHash, status.consumed, ledger.last}
  BY <1>1, PatchConsumed DEF RecordInv
<1>4. status'.consumed = IF StatusPatch(handler[h]).consumed # NoHash
                         THEN StatusPatch(handler[h]).consumed ELSE status.consumed
  BY <1>1, <1>2, MergeConsumed
<1> QED BY <1>3, <1>4

\* Every step of a handler other than its end keeps the invariant.
LEMMA StepRecord ==
    ASSUME TypeOK, RecordInv, NEW h \in Handlers,
           Start(h) \/ HandlerStep(h) \/ Failure(h), ~ Patch(h)
    PROVE  /\ handler'[h].consumed = status'.consumed
           /\ handler'[h].pc # "patch" => handler'[h].outcome = NoCondition
           /\ handler'[h].outcome = "applied" => handler'[h].hash = ledger'.last
<1>0. status' = status
  BY StatusFrame
<1>1. CASE Start(h)
  BY <1>0, <1>1 DEF Start, Idle, TypeOK, NoCondition
<1>2. CASE PlanStep(h) \/ ApplyRead(h) \/ ApplyWrite(h) \/ WriteTaskFails(h)
  <2>1. /\ handler'[h].consumed = handler[h].consumed
        /\ handler'[h].outcome = handler[h].outcome /\ handler[h].pc \notin {"patch", "idle"}
        /\ handler'[h].hash = handler[h].hash /\ ledger' = ledger
    <3>1. CASE PlanStep(h)
      <4>1. PICK k \in First(handler[h].todo) :
              handler' = [handler EXCEPT
                            ![h].todo = @ \ {k},
                            ![h].steps = IF Required(k, bmc)
                                         THEN @ \cup {ReconcileStep(k, bmc)} ELSE @]
        BY <3>1, Zenon DEF PlanStep
      <4>2. handler[h].pc = "plan" /\ ledger' = ledger
        BY <3>1 DEF PlanStep
      <4> QED BY <4>1, <4>2, ZenonT(60) DEF TypeOK, HandlerType
    <3>2. CASE ApplyRead(h)
      BY <3>2 DEF ApplyRead, TypeOK, HandlerType
    <3>3. CASE ApplyWrite(h)
      BY <3>3 DEF ApplyWrite, TypeOK, HandlerType
    <3>4. CASE WriteTaskFails(h)
      BY <3>4 DEF WriteTaskFails, TypeOK, HandlerType
    <3> QED BY <1>2, <3>1, <3>2, <3>3, <3>4
  <2> QED BY <1>0, <2>1 DEF RecordInv, Busy, NoCondition
<1>3. CASE Decide(h)
  <2>1. /\ handler'[h].consumed = handler[h].consumed /\ handler[h].pc = "plan"
        /\ \/ handler'[h].pc = "patch" /\ handler'[h].outcome = "dry"
           \/ handler'[h].outcome = handler[h].outcome
    BY <1>3 DEF Decide, TypeOK, HandlerType
  <2> QED BY <1>0, <2>1 DEF RecordInv, Busy, NoCondition
<1>4. CASE ApplyDone(h)
  <2>1. /\ handler'[h].consumed = handler[h].consumed /\ handler[h].pc = "apply"
        /\ handler'[h].pc = "patch" /\ handler'[h].hash = handler[h].hash
        /\ ledger'.last = handler[h].hash
    BY <1>4 DEF ApplyDone, TypeOK, HandlerType, LedgerType
  <2> QED BY <1>0, <2>1 DEF RecordInv, Busy
<1>5. CASE ReadFails(h) \/ WriteFails(h)
  <2>1. Raise(h) /\ handler[h].pc \in {"plan", "apply", "write"}
    BY <1>5 DEF ReadFails, WriteFails
  <2>2. /\ handler'[h].consumed = handler[h].consumed
        /\ handler'[h].pc = "patch" /\ handler'[h].outcome = "error"
    BY <2>1 DEF Raise, TypeOK, HandlerType
  <2> QED BY <1>0, <2>1, <2>2 DEF RecordInv, Busy
<1> QED BY <1>1, <1>2, <1>3, <1>4, <1>5 DEF HandlerStep, Failure

\* What the environment leaves alone.
LEMMA EnvironmentRecord ==
    ASSUME TypeOK, Environment
    PROVE  /\ status' = status /\ ledger'.last = ledger.last
           /\ handler' = handler \/ \A g \in Handlers : handler'[g] = Idle
BY DEF Environment, Crash, Approve, Withdraw, EditDesired, EditSpec, Drift, TypeOK,
   LedgerType

\* Every step preserves the invariant, whatever fails, drifts or crashes.
LEMMA NextRecord ==
    Serial = TRUE /\ TypeOK /\ SoloInv /\ RecordInv /\ [Next]_vars => RecordInv'
<1> SUFFICES ASSUME Serial = TRUE, TypeOK, SoloInv, RecordInv, [Next]_vars
             PROVE  RecordInv'
  OBVIOUS
<1>1. ASSUME NEW h \in Handlers, Start(h) \/ HandlerStep(h) \/ Failure(h)
      PROVE  RecordInv'
  <2>1. \A g \in Handlers : g # h => ~ Busy(handler'[g])
    BY <1>1, OthersAreIdle DEF Busy
  <2>2. CASE Patch(h)
    <3>1. ~ Busy(handler'[h])
      BY <2>2, PatchFields DEF Busy, Idle
    <3> QED BY <2>1, <3>1, Zenon DEF RecordInv
  <2>3. CASE ~ Patch(h)
    <3>1. /\ handler'[h].consumed = status'.consumed
          /\ handler'[h].pc # "patch" => handler'[h].outcome = NoCondition
          /\ handler'[h].outcome = "applied" => handler'[h].hash = ledger'.last
      BY <1>1, <2>3, StepRecord
    <3> QED BY <2>1, <3>1, Zenon DEF RecordInv
  <2> QED BY <2>2, <2>3
<1>2. CASE Environment
  BY <1>2, EnvironmentRecord DEF RecordInv, Busy, Idle
<1>3. CASE UNCHANGED vars
  BY <1>3 DEF vars, RecordInv
<1> QED BY <1>1, <1>2, <1>3 DEF Next

\* With one handler at a time, the record of what was consumed only moves to the
\* plan applied last, though passes raise, tasks fail, the node drifts and the
\* controller crashes between the last write and the patch.
THEOREM ConsumptionMovesForward ==
    ASSUME Serial = TRUE
    PROVE  Spec => ConsumptionIsRemembered
<1>1. Init => SoloInv /\ RecordInv
  BY DEF Init, Idle, SoloInv, RecordInv, Busy
<1>2. TypeOK /\ RecordInv /\ [Next]_vars =>
        [status'.consumed # status.consumed => status'.consumed = ledger.last]_vars
  <2> SUFFICES ASSUME TypeOK, RecordInv, Next
               PROVE  status'.consumed \in {status.consumed, ledger.last}
    OBVIOUS
  <2>1. ASSUME NEW h \in Handlers, Start(h) \/ HandlerStep(h) \/ Failure(h)
        PROVE  status'.consumed \in {status.consumed, ledger.last}
    BY <2>1, PatchRecord, StatusFrame
  <2>2. CASE Environment
    BY <2>2, EnvironmentRecord
  <2> QED BY <2>1, <2>2 DEF Next
<1> QED
  BY <1>1, <1>2, InitTypeOK, NextTypeOK, NextSolo, NextRecord, PTL
  DEF Spec, ConsumptionIsRemembered

\* The approved plan keeps listing what the confirmed pass finds to do.
LEMMA NextPlan ==
    ASSUME Serial = TRUE, MaxDrifts = 0
    PROVE  TypeOK /\ SoloInv /\ PlanInv /\ [Next]_vars => PlanInv'
<1> SUFFICES ASSUME TypeOK, SoloInv, PlanInv, [Next]_vars PROVE PlanInv'
  OBVIOUS
<1>t. /\ bmc \in NodeType
      /\ \A h \in Handlers : handler[h].todo \in SUBSET Kinds
  BY Zenon DEF TypeOK, HandlerType
<1>0. ASSUME NEW h \in Handlers, Start(h) \/ HandlerStep(h) \/ Failure(h),
             handler'[h].pc = "plan" =>
                 \A k \in handler'[h].desired \ handler'[h].todo :
                     Required(k, bmc') => Lists(handler'[h].steps, k),
             handler'[h].pc \in {"apply", "write"} =>
                 \A k \in handler'[h].todo : Required(k, bmc') => Lists(handler'[h].hash, k),
             handler'[h].pc = "write" =>
                 \A k \in First(handler'[h].todo) : Required(k, bmc')
      PROVE  PlanInv'
  BY Zenon, <1>0, OthersAreIdle DEF PlanInv, First
<1>1. ASSUME NEW h \in Handlers, Start(h) PROVE PlanInv'
  BY Zenon, <1>0, <1>1, StartFields
<1>2. ASSUME NEW h \in Handlers, PlanStep(h) PROVE PlanInv'
  <2>1. PICK k \in First(handler[h].todo) :
          /\ handler'[h].todo = handler[h].todo \ {k}
          /\ handler'[h].steps = IF Required(k, bmc)
               THEN handler[h].steps \cup {ReconcileStep(k, bmc)} ELSE handler[h].steps
    BY Zenon, <1>2, PlanFields
  <2>2. /\ handler[h].pc = "plan" /\ handler'[h].pc = "plan" /\ bmc' = bmc
        /\ handler'[h].desired = handler[h].desired
    BY Zenon, <1>2, PlanFields
  <2>3. ReconcileStep(k, bmc).kind = k
    BY Zenon DEF ReconcileStep
  <2>4. ASSUME NEW j \in handler'[h].desired \ handler'[h].todo, Required(j, bmc)
        PROVE  Lists(handler'[h].steps, j)
    <3>1. CASE j = k
      BY Zenon, <2>1, <2>3, <2>4, <3>1 DEF Lists
    <3>2. CASE j # k
      BY <2>1, <2>2, <2>4, <3>2 DEF PlanInv, Lists
    <3> QED BY Zenon, <3>1, <3>2
  <2> QED BY Zenon, <1>0, <1>2, <2>2, <2>4 DEF HandlerStep
<1>3. ASSUME NEW h \in Handlers, Decide(h) PROVE PlanInv'
  <2>1. /\ handler[h].pc = "plan" /\ handler[h].todo = {} /\ bmc' = bmc
        /\ \/ handler'[h].pc = "patch"
           \/ /\ handler'[h].pc = "apply" /\ handler'[h].hash = handler[h].steps
              /\ handler'[h].todo = handler[h].desired
    BY Zenon, <1>3, DecideFields
  <2>2. \A k \in handler[h].desired : Required(k, bmc) => Lists(handler[h].steps, k)
    BY Zenon, <2>1 DEF PlanInv
  <2> QED BY Zenon, <1>0, <1>3, <2>1, <2>2 DEF HandlerStep
<1>4. ASSUME NEW h \in Handlers, ApplyRead(h) PROVE PlanInv'
  <2>1. PICK k \in First(handler[h].todo) :
          \/ /\ Required(k, bmc) /\ handler'[h].pc = "write"
             /\ handler'[h].todo = handler[h].todo
          \/ /\ ~ Required(k, bmc) /\ handler'[h].pc = "apply"
             /\ handler'[h].todo = handler[h].todo \ {k}
    BY Zenon, <1>4, ReadFields
  <2>2. handler[h].pc = "apply" /\ bmc' = bmc /\ handler'[h].hash = handler[h].hash
    BY Zenon, <1>4, ReadFields
  <2>3. \A j \in handler'[h].todo : Required(j, bmc) => Lists(handler'[h].hash, j)
    BY Zenon, <2>1, <2>2 DEF PlanInv
  <2>4. handler'[h].pc = "write" => \A j \in First(handler'[h].todo) : Required(j, bmc)
    BY Zenon, <1>t, <2>1, OneFirst
  <2> QED BY Zenon, <1>0, <1>4, <2>1, <2>2, <2>3, <2>4 DEF HandlerStep
<1>5. ASSUME NEW h \in Handlers, ApplyWrite(h) \/ WriteTaskFails(h) PROVE PlanInv'
  <2>1. PICK k \in First(handler[h].todo) :
          /\ handler'[h].todo = handler[h].todo \ {k}
          /\ bmc' = Write(k, bmc) \/ bmc' = bmc
    BY Zenon, <1>5, WriteFields
  <2>2. /\ handler[h].pc = "write" /\ handler'[h].pc = "apply"
        /\ handler'[h].hash = handler[h].hash
    BY Zenon, <1>5, WriteFields
  <2>3. \A j \in handler'[h].todo : Required(j, bmc') => Required(j, bmc)
    BY <1>t, <2>1, WriteNeedsNoMore
  <2>4. \A j \in handler'[h].todo : Required(j, bmc') => Lists(handler'[h].hash, j)
    BY Zenon, <2>1, <2>2, <2>3 DEF PlanInv
  <2> QED BY Zenon, <1>0, <1>5, <2>2, <2>4 DEF HandlerStep, Failure
<1>6. ASSUME NEW h \in Handlers, ApplyDone(h) PROVE PlanInv'
  BY Zenon, <1>0, <1>6, DoneFields DEF HandlerStep
<1>7. ASSUME NEW h \in Handlers, ReadFails(h) \/ WriteFails(h)
      PROVE  PlanInv'
  BY Zenon, <1>0, <1>7, RaiseFields DEF HandlerStep, Failure
<1>8. ASSUME NEW h \in Handlers, Patch(h) PROVE PlanInv'
  <2>1. handler'[h].pc = "idle" /\ HandlerStep(h)
    BY <1>8, PatchFields DEF HandlerStep, Idle
  <2>2. handler'[h].pc # "plan" /\ handler'[h].pc \notin {"apply", "write"}
        /\ handler'[h].pc # "write"
    BY Zenon, <2>1
  <2> QED BY Zenon, <1>0, <2>1, <2>2
<1>9. CASE Environment
  BY <1>9, EnvironmentFrame DEF PlanInv, Idle
<1>10. CASE UNCHANGED vars
  BY Zenon, <1>10 DEF vars, PlanInv
<1> QED
  BY Zenon, <1>1, <1>2, <1>3, <1>4, <1>5, <1>6, <1>7, <1>8, <1>9, <1>10
  DEF Next, HandlerStep, Failure

\* What the blocks that are done have left on the node stays there.
LEMMA NextDone ==
    ASSUME Serial = TRUE, MaxDrifts = 0, MaxTaskFails = 0
    PROVE  TypeOK /\ SoloInv /\ DoneInv /\ [Next]_vars => DoneInv'
<1> SUFFICES ASSUME TypeOK, SoloInv, DoneInv, [Next]_vars PROVE DoneInv'
  OBVIOUS
<1>t. /\ bmc \in NodeType
      /\ \A h \in Handlers : handler[h].todo \in SUBSET Kinds
                             /\ handler[h].desired \in SUBSET Kinds
  BY Zenon DEF TypeOK, HandlerType
<1>s. /\ \A h \in Handlers : Settled(handler[h], bmc)
      /\ (\A h \in Handlers : Settled(handler'[h], bmc')) => DoneInv'
  BY Zenon DEF DoneInv
<1>0. ASSUME NEW h \in Handlers, Start(h) \/ HandlerStep(h) \/ Failure(h),
             Settled(handler'[h], bmc')
      PROVE  DoneInv'
  <2>1. ASSUME NEW g \in Handlers, g # h PROVE Settled(handler'[g], bmc')
    <3>1. handler'[g].pc = "idle"
      BY Zenon, <1>0, <2>1, OthersAreIdle
    <3> QED BY Zenon, <3>1 DEF Settled, Busy
  <2> QED BY Zenon, <1>0, <1>s, <2>1
<1>1. ASSUME NEW h \in Handlers, Start(h) PROVE DoneInv'
  <2>1. Settled(handler'[h], bmc')
    BY Zenon, <1>1, StartFields DEF Settled
  <2> QED BY Zenon, <1>0, <1>1, <2>1
<1>2. ASSUME NEW h \in Handlers, PlanStep(h) PROVE DoneInv'
  <2>1. Settled(handler'[h], bmc')
    BY Zenon, <1>2, <1>s, PlanFields DEF Settled, Busy
  <2> QED BY Zenon, <1>0, <1>2, <2>1 DEF HandlerStep
<1>3. ASSUME NEW h \in Handlers, Decide(h) PROVE DoneInv'
  <2>1. Settled(handler'[h], bmc')
    BY Zenon, <1>3, <1>s, DecideFields DEF Settled, Busy
  <2> QED BY Zenon, <1>0, <1>3, <2>1 DEF HandlerStep
<1>4. ASSUME NEW h \in Handlers, ApplyRead(h) PROVE DoneInv'
  <2>1. PICK k \in First(handler[h].todo) :
          \/ /\ Required(k, bmc) /\ handler'[h].pc = "write"
             /\ handler'[h].todo = handler[h].todo
          \/ /\ ~ Required(k, bmc) /\ handler'[h].pc = "apply"
             /\ handler'[h].todo = handler[h].todo \ {k}
    BY Zenon, <1>4, ReadFields
  <2>2. /\ handler[h].pc = "apply" /\ bmc' = bmc
        /\ handler'[h].desired = handler[h].desired
    BY Zenon, <1>4, ReadFields
  <2>3. k \in handler[h].todo /\ k \in Kinds
    BY Zenon, <1>t, <2>1, OneFirst
  <2>4. ~ Required(k, bmc) => k # "reboot" /\ bmc.cur[k] = Want
    BY Zenon DEF Required
  <2>5. "reboot" \notin handler[h].desired \ handler[h].todo
    BY Zenon, <1>s, <2>2, <2>3 DEF Settled
  <2>6. Settled(handler'[h], bmc')
    <3>1. CASE handler'[h].todo = handler[h].todo
      BY Zenon, <1>s, <2>1, <2>2, <3>1 DEF Settled, Busy
    <3>2. CASE handler'[h].todo = handler[h].todo \ {k} /\ k # "reboot" /\ bmc.cur[k] = Want
      BY Zenon, <1>s, <2>1, <2>2, <2>3, <2>5, <3>2 DEF Settled, Busy, Kinds
    <3> QED BY Zenon, <2>1, <2>4, <3>1, <3>2
  <2> QED BY Zenon, <1>0, <1>4, <2>6 DEF HandlerStep
<1>5. ASSUME NEW h \in Handlers, ApplyWrite(h) \/ WriteTaskFails(h) PROVE DoneInv'
  <2>1. PICK k \in First(handler[h].todo) :
          handler'[h].todo = handler[h].todo \ {k} /\ bmc' = Write(k, bmc)
    BY Zenon, <1>5, WriteFields
  <2>2. /\ handler[h].pc = "write" /\ handler'[h].pc = "apply"
        /\ handler'[h].desired = handler[h].desired
    BY Zenon, <1>5, WriteFields
  <2>3. /\ k \in handler[h].todo /\ k \in Kinds
        /\ k = "reboot" => handler[h].todo = {"reboot"}
    BY Zenon, <1>t, <2>1, OneFirst
  <2>4. "reboot" \notin handler[h].desired \ handler[h].todo
    BY Zenon, <1>s, <2>2, <2>3 DEF Settled
  <2>5. CASE k = "bios-profile"
    <3>1. bmc'.cur = bmc.cur /\ bmc'.staged = TRUE
      BY Zenon, <1>t, <2>1, <2>5, WriteEffect
    <3>2. Settled(handler'[h], bmc')
      BY Zenon, <1>s, <2>1, <2>2, <2>3, <2>4, <2>5, <3>1 DEF Settled, Busy
    <3> QED BY Zenon, <1>0, <1>5, <3>2 DEF HandlerStep, Failure
  <2>6. CASE k = "ntp"
    <3>1. /\ bmc'.cur["ntp"] = Want /\ bmc'.staged = bmc.staged
          /\ bmc'.cur["bios-profile"] = bmc.cur["bios-profile"]
          /\ bmc'.cur["boot"] = bmc.cur["boot"]
      BY Zenon, <1>t, <2>1, <2>6, WriteEffect
    <3>2. Settled(handler'[h], bmc')
      BY Zenon, <1>s, <2>1, <2>2, <2>3, <2>4, <2>6, <3>1 DEF Settled, Busy
    <3> QED BY Zenon, <1>0, <1>5, <3>2 DEF HandlerStep, Failure
  <2>7. CASE k = "boot"
    <3>1. /\ bmc'.cur["boot"] = Want /\ bmc'.staged = bmc.staged
          /\ bmc'.cur["bios-profile"] = bmc.cur["bios-profile"]
          /\ bmc'.cur["ntp"] = bmc.cur["ntp"]
      BY Zenon, <1>t, <2>1, <2>7, WriteEffect
    <3>2. Settled(handler'[h], bmc')
      BY Zenon, <1>s, <2>1, <2>2, <2>3, <2>4, <2>7, <3>1 DEF Settled, Busy
    <3> QED BY Zenon, <1>0, <1>5, <3>2 DEF HandlerStep, Failure
  <2>8. CASE k = "reboot"
    <3>1. /\ bmc'.cur["ntp"] = bmc.cur["ntp"] /\ bmc'.cur["boot"] = Cleared
          /\ bmc'.cur["bios-profile"] =
               IF bmc.staged THEN Want ELSE bmc.cur["bios-profile"]
      BY Zenon, <1>t, <2>1, <2>8, WriteEffect
    <3>2. handler[h].todo = {"reboot"} /\ handler'[h].todo = {}
      BY Zenon, <2>1, <2>3, <2>8
    <3>3. Settled(handler'[h], bmc')
      BY Zenon, <1>s, <2>2, <3>1, <3>2 DEF Settled, Busy
    <3> QED BY Zenon, <1>0, <1>5, <3>3 DEF HandlerStep, Failure
  <2> QED BY Zenon, <2>3, <2>5, <2>6, <2>7, <2>8 DEF Kinds
<1>6. ASSUME NEW h \in Handlers, ApplyDone(h) PROVE DoneInv'
  <2>1. Settled(handler'[h], bmc')
    BY Zenon, <1>6, <1>s, DoneFields DEF Settled, Busy
  <2> QED BY Zenon, <1>0, <1>6, <2>1 DEF HandlerStep
<1>7. ASSUME NEW h \in Handlers, ReadFails(h) \/ WriteFails(h)
      PROVE  DoneInv'
  <2>1. Settled(handler'[h], bmc')
    BY Zenon, <1>7, <1>s, RaiseFields DEF Settled
  <2> QED BY Zenon, <1>0, <1>7, <2>1 DEF HandlerStep, Failure
<1>8. ASSUME NEW h \in Handlers, Patch(h) PROVE DoneInv'
  <2>1. Settled(handler'[h], bmc')
    BY <1>8, PatchFields DEF Settled, Busy, Idle
  <2> QED BY Zenon, <1>0, <1>8, <2>1 DEF HandlerStep
<1>9. CASE Environment
  <2>1. bmc' = bmc /\ (handler' = handler \/ \A g \in Handlers : handler'[g] = Idle)
    BY Zenon, <1>9, EnvironmentFrame
  <2>2. Settled(Idle, bmc)
    BY Zenon DEF Settled, Busy, Idle
  <2> QED BY Zenon, <1>s, <2>1, <2>2
<1>10. CASE UNCHANGED vars
  BY Zenon, <1>10, <1>s DEF vars
<1> QED
  BY Zenon, <1>1, <1>2, <1>3, <1>4, <1>5, <1>6, <1>7, <1>8, <1>9, <1>10
  DEF Next, HandlerStep, Failure

\* A write that fails ends the pass, unless it is a task that fails.
LEMMA NextUnfailed ==
    ASSUME MaxTaskFails = 0
    PROVE  TypeOK /\ UnfailedInv /\ [Next]_vars => UnfailedInv'
<1> SUFFICES ASSUME TypeOK, UnfailedInv, [Next]_vars PROVE UnfailedInv'
  OBVIOUS
<1>0. ASSUME NEW h \in Handlers, Start(h) \/ HandlerStep(h) \/ Failure(h),
             handler'[h].pc = "patch" \/ handler'[h].writes = "ok"
      PROVE  UnfailedInv'
  BY Zenon, <1>0, HandlerFrame DEF UnfailedInv
<1>1. ASSUME NEW h \in Handlers, Start(h) PROVE UnfailedInv'
  BY Zenon, <1>0, <1>1, StartFields
<1>2. ASSUME NEW h \in Handlers, PlanStep(h) \/ Decide(h) \/ ApplyRead(h)
      PROVE  UnfailedInv'
  BY Zenon, <1>0, <1>2, PlanFields, DecideFields, ReadFields
     DEF UnfailedInv, HandlerStep
<1>3. ASSUME NEW h \in Handlers, ApplyWrite(h) \/ WriteTaskFails(h) PROVE UnfailedInv'
  BY Zenon, <1>0, <1>3, WriteFields DEF UnfailedInv, HandlerStep, Failure
<1>4. ASSUME NEW h \in Handlers, ApplyDone(h) PROVE UnfailedInv'
  BY Zenon, <1>0, <1>4, DoneFields DEF HandlerStep
<1>5. ASSUME NEW h \in Handlers, ReadFails(h) \/ WriteFails(h)
      PROVE  UnfailedInv'
  BY Zenon, <1>0, <1>5, RaiseFields DEF HandlerStep, Failure
<1>6. ASSUME NEW h \in Handlers, Patch(h) PROVE UnfailedInv'
  <2>1. handler'[h].writes = "ok" /\ HandlerStep(h)
    BY <1>6, PatchFields DEF HandlerStep, Idle
  <2> QED BY Zenon, <1>0, <2>1
<1>7. CASE Environment
  <2>1. handler' = handler \/ \A g \in Handlers : handler'[g] = Idle
    BY Zenon, <1>7
       DEF Environment, Crash, Approve, Withdraw, EditDesired, EditSpec, Drift
  <2> QED BY <2>1 DEF UnfailedInv, Idle
<1>8. CASE UNCHANGED vars
  BY Zenon, <1>8 DEF vars, UnfailedInv
<1> QED
  BY Zenon, <1>1, <1>2, <1>3, <1>4, <1>5, <1>6, <1>7, <1>8
     DEF Next, HandlerStep, Failure

\* No handler runs at the start.
LEMMA InitPass == Init => SoloInv /\ PlanInv /\ DoneInv /\ UnfailedInv
<1> SUFFICES ASSUME Init PROVE SoloInv /\ PlanInv /\ DoneInv /\ UnfailedInv
  BY Zenon, SMTT(30)
<1>1. \A h \in Handlers : handler[h].pc = "idle" /\ handler[h].writes = "ok"
  BY Zenon DEF Init, Idle
<1> QED BY Zenon, <1>1 DEF SoloInv, PlanInv, DoneInv, Settled, UnfailedInv, Busy

\* When handlers do not overlap and nothing else changes the node, a confirmed
\* pass writes only blocks that the approved plan lists, though reads, writes
\* and tasks fail and the controller crashes.
THEOREM WritesStayApproved ==
    ASSUME Serial = TRUE, MaxDrifts = 0
    PROVE  Spec => []WritesWithinApproval
<1>1. TypeOK /\ PlanInv => WritesWithinApproval
  <2> SUFFICES ASSUME TypeOK, PlanInv, NEW h \in Handlers, handler[h].pc = "write",
                      NEW k \in First(handler[h].todo)
               PROVE  \E s \in handler[h].hash : s.kind = k
    BY Zenon DEF WritesWithinApproval
  <2>1. Required(k, bmc) /\ k \in handler[h].todo
    BY Zenon DEF PlanInv, First
  <2> QED BY Zenon, <2>1 DEF PlanInv, Lists
<1> QED
  BY <1>1, InitTypeOK, NextTypeOK, InitPass, NextSolo, NextPlan, PTL DEF Spec

\* When handlers do not overlap, nothing else changes the node and no accepted
\* write fails later in its task, a pass that reports its plan applied has left
\* the node as desired, though reads and writes raise and the controller
\* crashes.
THEOREM AppliedIsInSync ==
    ASSUME Serial = TRUE, MaxDrifts = 0, MaxTaskFails = 0
    PROVE  Spec => []AppliedMeansInSync
<1>1. DoneInv => AppliedMeansInSync
  <2> SUFFICES ASSUME DoneInv, NEW h \in Handlers,
                      handler[h].pc = "patch", handler[h].outcome = "applied"
               PROVE  LET d == handler[h].desired IN
                      /\ "ntp" \in d => bmc.cur["ntp"] = Want
                      /\ "bios-profile" \in d =>
                           \/ bmc.cur["bios-profile"] = Want
                           \/ bmc.staged /\ "reboot" \notin d
                      /\ "boot" \in d =>
                           bmc.cur["boot"] = IF "reboot" \in d THEN Cleared ELSE Want
    BY Zenon DEF AppliedMeansInSync
  <2>1. handler[h].todo = {} /\ handler[h].desired \ handler[h].todo = handler[h].desired
    BY Zenon DEF DoneInv, Settled
  <2> QED BY Zenon, <2>1 DEF DoneInv, Settled
<1> QED
  BY <1>1, InitTypeOK, NextTypeOK, InitPass, NextSolo, NextDone, PTL DEF Spec

\* However handlers overlap, fail and crash, a write that raised is never
\* followed by the reset of its pass, unless it was a task that failed after its
\* write had been accepted.
THEOREM NoRestartAfterFailure ==
    ASSUME MaxTaskFails = 0
    PROVE  Spec => []FailedWriteNeverRestarts
<1>1. UnfailedInv => FailedWriteNeverRestarts
  BY Zenon DEF UnfailedInv, FailedWriteNeverRestarts
<1> QED
  BY <1>1, InitTypeOK, NextTypeOK, InitPass, NextUnfailed, PTL DEF Spec

=============================================================================
