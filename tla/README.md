# A TLA+ verification of redfish_ctl

redfish_ctl drives server management controllers (BMCs) through the Redfish
REST API: a command line of some 200 commands, two Kubernetes operators built
on kopf, metric exporters, and services around them. This directory models the
parts of it where order, concurrency, failure or time decide whether it is
correct, checks the models with TLC on small instances, and proves the main
safety properties with TLAPS for every instance.

`PROJECT.json` is the index: each definition with the lines it models, each
run, each hazard, each finding and each theorem.

## 1. The system

| Part | State it keeps | Operations | What is hard about it |
|---|---|---|---|
| RedfishNodeProfile operator (`k8s/controller/redfish_node_profile_controller.py`, `redfish_ctl/reconcile.py`) | `.spec`, `.status` (planHash, consumedPlanHash, conditions) | change handler, timer, dry run, confirmed pass | snapshots, overlap of timer and change handler, exceptions and crashes between writes and the status patch |
| RedfishEndpoint controller (`redfish_endpoint_controller.py`) | `.status` (lastPolled, failures, nextPollAfter, conditions) | change handler, timer, poll | backoff and interval on times that lose their fraction, late patches |
| Task polling (`redfish_manager.py`, `idrac_manager.py`) | last state seen | `fetch_task` | timeouts against Retry-After, monitors that vanish, two vocabularies of states |
| Response cache (`RedfishResponseCache`) | values, keys in flight | `get_or_load` | single flight with failing loaders |
| Fleet consumer (`k8s/consumer/fleet_status_app.py`) | listing and its age | `get` | a TTL with single flight |
| Kubernetes client (`kube_client.py`) | one client, one lock | get, reset | double-checked locking |
| Command registry (`Singleton`, `redfish_api_common.py`) | an instance per class and connection | `__call__` | a lock that all connections share, held while constructors run |
| Guarded actions (`invoke_action`, `actions/`, 62 commands) | what the discovery found | discover, decide, invoke | two reads of one resource, confirmation at several places, failing reads |
| Direct writes (52 commands over `base_post`, `base_patch`, `base_delete`) | requests sent so far | one or several requests, other commands | errors that are returned and errors that are thrown, commands that run commands |
| Waiting (`cmd_wait.py`) | deadline | `wait_for` | answers that are old, a down phase that nobody sees |
| Command line (`redfish_main.py`) | the process | handshake, command, report | what an exit status means |
| Fleet, discovery, proxy, web explorer | thread pools, shared manager | reads | per-node failure, shared sessions |
| Exporters, tracing, renderers | samples | collect | pure conversion |

**How they interact.** kopf calls the operators' handlers on threads. A handler
asks `kube_client` for the API, reads secrets, builds a manager through
`Singleton`, and runs commands on it. On the command line `main()` chooses a
manager, makes a handshake, and runs one command. A command sends one or several
requests, through `invoke_action` or by itself, and may run other commands; a
202 is followed by `fetch_task`. The exporter's collectors and the endpoint poll
read through one response cache. The fleet consumer reads what the endpoint
controller wrote.

## 2. Modules

| Module | Models |
|---|---|
| `NodeProfile` | the node-profile operator with the reconciler and the node it drives |
| `OneShotApproval` | what the operator's gate promises: publish, then grant, then at most one attempt |
| `EndpointPoll` | the endpoint controller in half-second time |
| `TaskService` | the BMC's side of a task (external), shared by the two pollers |
| `TaskPoll`, `DellTaskPoll` | the vendor-neutral and the Dell `fetch_task` |
| `ResponseCache`, `EndpointCache` | `RedfishResponseCache.get_or_load`, `_EndpointCache.get` |
| `KubeClient`, `CommandRegistry` | `get_core_v1_api` and `reset_client_cache`; `Singleton.__call__` |
| `ActionPolicy` | `ACTION_POLICY` and `classify` |
| `Invocation` | the vocabulary of guarded commands: arguments, discoveries, ways to call `invoke_action` |
| `RaidActions`, `LifecycleActions`, `CardActions`, `StandardActions`, `ResourceActions` | the discovery and `execute()` of each of the 62 guarded commands |
| `Transport` | what a manager makes of a reply: the two transports, shared by both kinds of commands |
| `GuardedCommands` | one run of a guarded command, with `invoke_action` |
| `WriteSteps` | the vocabulary of direct writes: the steps of a program |
| `ConfigWrites`, `DeviceWrites` | `execute()` of each of the 52 commands that write themselves, as a program |
| `WriteMachine` | the machine that runs such a program, with the commands that it calls |
| `DirectWrites` | the table of these commands: options, program, managers; where a run begins, and its properties |
| `WaitFor` | `wait_for` and a BMC that goes up and down |
| `CommandLine` | one process: manager, handshake, one of the three kinds of command, report, exit |
| `MCNodeProfile` | the desired states that TLC tries |
| `MCCaches`, `MCManager` | machines of one kind in one run (the three caches; instances and the two pollers); a behaviour is of one of them |
| `*Proofs` | theorems: `NodeProfileProofs`, `EndpointPollProofs`, `CacheProofs` (the two caches and the two singletons), `TaskPollProofs` (both pollers), and `CommandLineProofs` with its lemmas in `GuardedProofs`, `WriteMachineProofs` and `DirectWriteProofs` |

Modules hold, marked "Faulty variant", some wrong forms of their definitions.
They are used by no specification. Each is a plausible slip in the code, and
replacing the definition by it makes TLC report the property it is listed with,
which shows that the property says something about the code.

### NodeProfile

`spec` and `status` are the object's; `unseen` says that kopf still owes the
change handler a call; `bmc` is the node, with settings and a staged BIOS
change; `handler` has one record per invocation slot; `ledger` is history that
no action reads (grants, plans published and applied, the plan applied last). One
invocation is: `Start` (snapshot of spec and status, as
kopf hands them to the handler), the dry run and the approval test, one step
per write of the confirmed pass in the order of `reconcile()`, and the
merge-patch of the status, where a key left out keeps its old value. `Failure`
ends an invocation with an exception at any of its steps; `Crash` is a restart
of the controller. A user edits the desired state, approves and withdraws;
`Drift` is a change behind the operator's back.

Choices: a plan hash is the set of steps it digests (SHA-256 is injective
here); the ledger counts attempts up to two, since only "more than one"
matters; the node's settings are a wanted value and another one; kopf and the
BMC are external.

### EndpointPoll

A tick is half a second, because `_rfc3339` cuts stored times to the second and
`poll_due` compares with a tolerance: a coarser clock would hide both.
`FireSkips` and `FirePolls` are the timer with the answer of `poll_due`;
`ChangePolls` is the change handler, which kopf may run beside the timer; a poll
ends by `PollSucceeds`, `PollFails` (one of the error classes of the code) or
`PollRaises`. Health, serial numbers and metrics are one version number of the
spec they were read for. `MaxExponent` is the largest power of two that fits a
float (1023).

### TaskService, TaskPoll, DellTaskPoll

The task moves freely among the DMTF states until a terminal one; afterwards
its monitor may go. An answer shows the task, or is one of a bounded number of
glitches: nothing, 401, a 5xx, a body without JSON or without the keys, another
status code. States that no poller distinguishes are merged. `TaskPoll` has
time: a GET takes up to `PollTime` ticks, a sleep lasts the maximum of
`sleep_time` and Retry-After, and `elapsed` stops at `Horizon`, beyond every
bound that is stated. `DellTaskPoll` has no time because the code has no
timeout; the job is read once, first, and the state mappings are those of the
code, including Running to Starting and the missing Cancelling. TaskStatus is a
free choice between OK and not OK.

### The caches and the singletons

One step is what runs between two lock operations. `ResponseCache` keeps a heap
of payload objects, so that handing out a reference instead of a copy would be
seen. `EndpointCache` has a clock; a listing is named by the moment at which the
API server made it, so that the age of what is shown can be stated. In
`KubeClient` the read before the lock, the read inside it, the two steps of
building and the reset are separate. `CommandRegistry` has the lookup without
the lock, the one under it, and the constructor, which returns or raises.

### Guarded commands

A command is three definitions: the arguments that its parser admits (`_args`),
what its discovery returns when a set of resources offers a set of actions and a
set of reads fails (`_rows`), and `execute()` up to `invoke_action` (`_execute`),
whose value is an ending or the arguments of the call. `Invocation` names the
few shapes that discoveries have in the code: tolerant of failing reads or not,
with a well-known resource to fall back to or not, first match or all of them.
`GuardedCommands` runs them: `Execute`; then `invoke_action` as `ResolveTarget`
(a second read of the resource, at which the action may be gone or only its
short name be found, under another type), `RejectPayload`, the gate
(`LetThrough`, `Preview`), and `Post`, whose reply goes through the transport of
the manager that the command is composed with: RedfishManager returns an error for 405 and 409 and throws for
the others, IDracManager returns more of them, and throws also for a 201 without
Location and for a 202 that names neither a job nor a Location.
`FollowPreview` is the second call of DellRaidCheckValues, `FollowReboot` what
the reboot command does after its POST. Payloads are abstracted to whether they
are complete and whether a secret in them is masked; an action is its type.

### Direct writes

`execute()` is a program over few steps: reads and checks that may end it
(`Might`), checks of `--confirm` and `--dry_run`, a request with the way in which
its answer is read, what follows an answer, a branch on an option or on the
manager, another command. A reply has a status, a Location and a job id.
`WriteMachine` executes the program; a call of another command (`EnterCall`,
`LeaveCall`) stacks frames, as `sync_invoke` does, and the caller heeds, reports or
drops what the callee came to. An except clause around a call catches the
exceptions that it names (`_RESET_ERRORS` in BootOneShot); kinds of exceptions are
not told apart, so one is caught there or passes by (`Landings`). Requests
keep their kind only ("patch", "commit", "reboot", "eject", ...), which is what
the properties tell apart.

### WaitFor and CommandLine

`WaitFor` counts time. A probe takes up to `MaxProbe` ticks, and may answer yes
only if the BMC was up at some time of the probe, and no only if it was down at
some time of it. `CommandLine` composes the three machines: `create_cmd_tree`
chooses the manager that `--vendor` selects and a command of its registry,
`check_api_version` is the handshake, `Command` a step of the command,
`ReadVendor` and `Report` are what `_run` does with the result: on a Dell it reads
an attribute that only IDracManager has, and only if the result is a dictionary.
An exception ends
the process with 0 or with 1, depending on whether an except clause names it.

## 3. Runs

Each passing run takes between ten seconds and about two minutes on two cores.

| Run | Shows |
|---|---|
| `profile_safety` | with overlapping handlers, a pass that raises, a task that fails and a crash: nothing is written that was not published and then granted; only applied plans are reported consumed |
| `profile_serial` | undisturbed, an approval is attempted once, the pass writes what the plan lists and leaves the node as desired, the record of the consumed plan only moves on to the plan applied last, and the operator implements `OneShotApproval` |
| `profile_live` | an approved current plan does not wait for ever; the status comes to describe the node; a write that raises is not followed by the pass's reset |
| `endpoint` | the status tells one story even when polls overlap and their patches merge; backoff and interval are kept and transition times are real as long as no polls have overlapped; an endpoint that answers is Ready within a computed lag |
| `caches` | single flight, no forgotten waiter, one version per key and nothing shared by reference; the dashboard's rows have a bounded age and never go back; one Kubernetes client per reset, never None, and a reset takes effect; every call ends |
| `manager` | one instance per connection and every lookup ends; what `fetch_task` reports was true and is late by at most one delay and one GET; an end that Dell's job-then-task order reports is true; both notice the end of a task |
| `commands` | of 114 commands and `wait`: what goes out was confirmed and goes where it was asked to, what is reported is true, no refusal is dropped but for those listed in section 4 and none is built upon, restarts follow their settings, `wait` tells the truth in time |

The properties of `commands`, in short:

* `PostsAreAuthorized`: the level that counts is that of the action POSTed, which
  need not be the one that the command had in mind. `NoMaskedPayloadIsSent` ties
  a decision of DellMetricActions to the gate that runs after another read.
  `ConfirmedRunIsNoPreview` is the converse: no command lacks the option that
  the policy asks for its action, or forgets to hand it on.
* `ReportIsTrue` relates what the BMC did to what the user is told, through either
  transport: "executed" only if a POST was carried out or accepted, and if one was,
  "executed" with two exceptions. The task or the wait of a reboot may fail
  afterwards, and IDracManager throws on a 202 or a 201 that names neither a job
  nor a Location, though the BMC has taken the action. One POST at most goes out.
* `PostsWhereAsked`: at the resource that was named, and none when several fit and
  the command says that it refuses that, as long as no read of the discovery fails.
* `WritesAreConfirmed`, `RefusalIsReported`, `NothingOnTopOfARefusal` and
  `RestartsAreEarned` are about the programs that write directly, through every
  command that they run. `RefusalIsReported` says that the refusals in `Dropped`
  are all that go unreported. `RestartsAreEarned` says that a command without
  `--reboot` and `--commit_pending` restarts the host, through job-apply, only
  after the BMC has taken the write that needs the restart.
* `WaitReportIsTrue` relates what `wait` reports to what the BMC did meanwhile.

**Bounds.** Two handler slots (one timer, one change handler) are all that kopf
runs for one object. Two or three edits let an approval follow a published plan
and be replaced; one failure and one crash suffice, because each property looks
at one pass and the status it leaves. Three threads and two keys are needed for a
loader, a waiter and a late caller, and for keys to interfere; three threads give
one in a lock, one waiting and one on the fast path; two connections contend for
the lock of the registry. `endpoint` runs for 20 ticks, two more than the lag: a
timer poll and a change poll that fail in the first second bring the backoff to
its cap, and the full lag follows. Its interval (5 s) exceeds the timer's base
(2 s) and the cap of the backoff (4 s), so that spacing is not implied by the
base cadence; of the errors that differ in their conditions only, one is in
`endpoint` and another in `endpoint_stale`. Two glitches (one where there is also
time) put an answer without a task before, between and after those that show it.
Two resources are enough for an ambiguous selection and for a read that fails
beside one that does not; options, sets of failing reads and replies are complete.
JobApply meets two scheduled jobs at most, a second being what a loop adds to the
first. Four turns of the BMC make a `wait` see down, up, down and up again. No run
uses symmetry, which liveness would not allow.

**Deadlock.** `CHECK_DEADLOCK FALSE` is set where the program really ends (a
task poll returns) or the clock reaches its bound (`EndpointPoll`). The process of
`CommandLine` stutters once it has exited, so that a command that gets stuck
would be reported as a deadlock.

**Fairness.** kopf keeps firing timers and lets a started handler run to its
end; requests have a timeout (`http_timeout`), so a GET or a load ends; a thread
in Python runs on. A Python lock is not fair, so `Acquire` in `KubeClient` and
`TakeLock` in `CommandRegistry` have strong fairness: a thread gets the lock if it
is free again and again. Only the thread that the property watches is assumed to.
Nothing obliges users, drift, the task or callers
to act. Recovery of an endpoint and the end of a `wait` need no fairness: they are
bounds in time. `EndIsNoticed` is under a bounded number of answers that do not
show the task: without a timeout, the loop of `fetch_task` does not end if no
answer ever does. In `EveryCallEnds` and `NobodyWaitsForever` one thread of each
kind stands for the others, which are interchangeable.

## 4. What the code does against what is written

Five runs end with a counterexample; `PROJECT.json` quotes the sentence.

| Run | Disagreement |
|---|---|
| `profile_retry` | "exactly one apply attempt": a pass that raises leaves its approval usable and the next tick applies again |
| `profile_late` | "after apply, `.status.consumedPlanHash` records it": a handler that patches late puts an older hash over the record of the newer plan, whose approval then counts as unconsumed |
| `endpoint_stale` | "the last committed spec wins": a late timer poll overwrites its result |
| `exit_status` | "so the CLI exits non-zero": a command that returns an error ends the process with 0 |
| `upload` | "an error when the file is missing or the upload fails": a pushed firmware image that a Dell refuses with 405 or 409 is reported as executed |

The hypotheses of the passing runs mark three more limits, each of which TLC
shows when the constant is changed.

* `Serial = FALSE` in `profile_serial` refutes `OneAttemptPerApproval`: timer
  and change handler both find the approval unconsumed.
* `MaxDrifts = 1` there refutes `WritesWithinApproval`: the confirmed pass reads
  the node again and may write a block that the approved plan does not list.
* `MaxTaskFails = 1` in `profile_live` refutes `FailedWriteNeverRestarts`: a
  write whose task fails after its 202 is not an error.

The following were noticed while translating and have no run of their own. The
first group is about sentences of the repository.

* "failed writes must never be treated as success"
  (`tests/test_write_status_enum_checks.py:1`): the refusals in `Dropped` are. The
  commands in `Unheeding` keep the error of a write in their data and not in the
  error of their result, or drop it: IdentifyLed, DnsSet, ManagerTime,
  SerialConsoleConfig, ConvertNoneRaid, ConvertToRaid, VolumeInit and
  ImportOneTimeBoot. Every other command drops the refusal of the reboot that
  follows its write (BootOneShot does not), of the snapshot of a BIOS profile, of
  the commit of pending settings, and of the pushed upload (run `upload`).
  `RefusalIsReported` shows that there is no other.
* "note if job require reboot, pass -r or --reboot, otherwise job will not start"
  (`cmd_job_apply.py:57`): job-apply restarts the host for every scheduled job,
  with the option or without, which is why `RestartsAreEarned` excepts it.
* `wait` runs behind the handshake that every command has
  (`redfish_main.py:500`): with the BMC down it prints a connection error and
  exits with 0, without waiting. `README.md:305` says "After a reboot,
  `redfish_ctl wait` blocks until the BMC answers again."
* `--reboot-cycle` is to "confirm a reboot" (`cmd_wait.py:5`), and succeeds
  with `went_down` false when the BMC was never seen down.
* `--vendor` may be omitted for shared commands (`redfish_main.py:791`); on a
  Dell the attribute `idrac_manager_version` (`redfish_main.py:549`) is then
  missing, and the process ends with an AttributeError after the command was
  carried out.
* `apply` of a BIOS profile is said to capture "a rollback snapshot first"
  (`docs/external/bios-profiles.md:71`); when the read fails the snapshot is
  empty and the profile is staged all the same.
* "A LogService Id present under two roots is ambiguous and must be rejected"
  (`tests/logs/test_log_clear_dualmode.py:218`): one of the two whose read fails
  is skipped, and the other one is cleared. This is the hypothesis on failing
  reads in `PostsWhereAsked`.
* Repeated failures of an endpoint have "a backoff" (`EndpointPoll`): at the
  1025th in a row the delay raises OverflowError (line 409 of the controller)
  before it is capped, and no status is written.
* `build_status` leaves an old planHash in place when the plan becomes empty;
  `poll_due` is not true "always" before the first success, since a first
  failure has its backoff; the timeout of `RedfishManager.fetch_task` does not
  cut a sleep (the bound that does hold is `LateByOneDelay`); Dell's
  `wait_for_state` is not looked at for a 202, and no caller sets it.

The second group is behaviour of which the repository says nothing.

* A reboot that was asked for follows a write that was refused with 405 or 409,
  or on a Dell with another error that is returned and not thrown, in
  BiosChangeSettings, ChangeBootOrder, BootSourceUpdate, BootOneShot,
  EnableBootOptions, ImportOneTimeBoot, ChassisUpdate and
  GetNetworkIsoAttachStatus. `RestartsAreEarned` is about the restarts that nobody
  asked for by name, which do wait for the write.
* The pushed upload of FirmwareUpdate (`cmd_firmware_update.py:242`) is always an
  error on managers other than Dell's.
* `--commit` with a manager other than Dell's raises UnsupportedAction after the
  PATCH went out.

## 5. Proofs

TLAPS proves every safety property of the passing runs, as an invariant or as an
action property of the same specification, for every value of the constants that
the assumptions named in the module of the constants allow. Hypotheses beyond
those are in the statement of the theorem and are named here. What a proof needed
beyond the property is its inductive invariant, which is a definition of the
proof module.

* **NodeProfile** (`NodeProfileProofs`). `TypeCorrect`, `WritesAreApproved`
  (`ApprovedBeforeWritten`) and `ConsumedIsApplied` have no hypothesis.
  `ApprovedBeforeWritten` speaks of handlers that write, and says
  nothing of where the grant they hold came from; `ApprovalInv` adds that the
  object's and every snapshot's approval is the one recorded under its number,
  and that a grant was published first. `ConsumptionInv` adds that the consumed
  hash in every handler's snapshot, and the hash that a finished confirmed pass
  is about to record, are of plans that were applied.
  * `OneAttempt` and `Implementation` (the refinement of `OneShotApproval`) hold
    under `Undisturbed`: handlers do not overlap, and none ends in an exception
    (a write that the node refuses included) or in a crash.
    Tasks that fail after an accepted write and drift
    of the node are allowed. `OneShotInv` says that one handler at most is
    active, that attempts follow the numbers of the approvals, and that an
    attempted approval is still being applied or recorded as consumed.
  * `ConsumptionMovesForward` (`ConsumptionIsRemembered`) needs that handlers do
    not overlap (`Serial`), which `profile_late` shows, and nothing else: passes
    may raise and the controller may crash. `RecordInv` says that nobody changes
    the record under the handler that runs, and that what it is about to record is
    the plan applied last.
  * `WritesStayApproved` needs `Serial` and no drift; `PlanInv` says that the
    plan lists what the node needs, and that the approved one still does for the
    blocks that the pass has before it. `AppliedIsInSync` needs in addition that
    no task fails after its 202; `DoneInv` says what the blocks that are done
    have left on the node, before and after the reset. `NoRestartAfterFailure`
    needs the last of these only. Section 4 has the run or the change of a
    constant that refutes each without its hypothesis.
* **EndpointPoll** (`EndpointPollProofs`). `PollInvariant` is the inductive
  invariant: times are ahead of the clock by no more than the cadence and the cap
  allow (`ClockInv`), a poll works on the present status as long as none have
  overlapped (`AloneInv`), the status then counts the failures in a row
  (`CountInv`), and only polls from before the last change can find something
  else than the present, while the one that recovers is on its way or due
  (`RecoveryInv`). `StatusTellsOneStory`, `RecoveryIsBounded` and
  `ConditionTimes` follow without a hypothesis. `TimerWaits` has `DelaysFit`, that
  the present run of failures is within the exponent of a float: past it the code
  raises before it writes a status, see section 4.
* **ResponseCache** (`CacheProofs`). `CacheInv` joins the type with `FlightInv` (a
  key is in flight exactly if some thread owns it, and a waiter's key is in
  flight), `ServedInv` (a caller holds only its own copy, of the stored version)
  and `CountInv` (loads and stored keys agree). From it follow
  `SingleFlightHolds`, `WaitersAreNotForgotten`, `KeysAreLoadedOnce`,
  `ScrapeIsConsistent` and `StoredStaysPristine`.
* **EndpointCache** (`CacheProofs`). `ListingInvariant`: the flag is up exactly
  while one thread lists, and a listing begins after the kept one ended, whichever
  raises and whoever takes over; `RowsStayRecent` follows.
* **KubeClient** (`CacheProofs`). `ClientInv` says that whoever is between the
  lock and its release holds the lock, and relates builds, resets and the present
  client; `ClientIsReturned`, `BuiltOncePerReset` and `ResetTakesEffect` follow.
* **CommandRegistry** (`CacheProofs`). `RegistryInv` says that one worker at most
  is under the lock, that a key is unregistered while its instance is
  constructed, and that the registry and the instances made correspond one to
  one; `InstancesAreUnique` follows.
* **TaskPoll, DellTaskPoll** (`TaskPollProofs`). `SeenInv` (the present state is
  among those lived through, and a terminal one is the last) gives `PollIsTrue`;
  `TimeInv`, which adds the ticks still to come to those elapsed, gives
  `PollIsBounded`. `DellEndIsTrue` needs only that the task's state is one of a
  task: Dell's poller mixes the names of tasks and of jobs, and "Failed" is a job's.
* **Guarded commands** (`GuardedProofs`, `CommandLineProofs`). Five theorems about
  `MainSpec`, for any finite set of resources. What `execute()` decides is dealt
  with first and without the state. `Honest` says that it ends the command, or
  calls `invoke_action` with flags no stronger than the user's and masks a payload
  only where the gate will make a preview; `Generous` is the other direction, and
  `Aimed` says that the call is for the resource that was named and, where the
  command refuses ambiguity, the only one that fits. Each is shown of the 62
  commands, family by family and whatever the discovery found. `HeardIsTrue` says
  what each manager's transport makes of a reply. `GuardInv` and `AskInv` carry
  these to the POST and to what is told of it. `AuthorizedPosts`, `MaskedPayloadsStay` and
  `ReportsAreTrue` follow from the first, `PreviewsAreExcused` and
  `PostsGoWhereAsked` from the second.
* **Direct writes** (`WriteMachineProofs`, `DirectWriteProofs`,
  `CommandLineProofs`). `WritesStayConfirmed`, `RestartsFollowTheirSettings`,
  `RefusalsAreReported` and `RefusalsAreHeeded` hold of `MainSpec` for every
  command, choice of options, manager and answer, with no bound on the depth of
  the calls. The invariant is `WriteInv`; see below.
* **wait** (`CommandLineProofs`). `WaitsAreTrue` holds of `MainSpec` for any
  timeout, interval, length of a probe and number of outages. `WaitInv` dates what
  was seen: the present state of the BMC is up to now, a probe begins no later
  than the deadline and one sleep (and one probe, after the first loop), a sleep
  begins before the deadline.

`PartsHold` joins `GuardInv`, `AskInv`, `WriteInv` and `WaitInv` for the process:
whichever kind of command `main()` runs, the variables of the other kinds are at
rest.

**How the direct writes are proved.** `WriteMachineProofs` is about the machine and
any program, `DirectWriteProofs` about the 52 programs. A program contains
programs (branches, loops, called commands), and an induction over data is out of
reach. A property of a step is therefore defined by a set of steps that holds it
and is closed under going into a step, so that each action of the machine takes
such a set apart and puts one together. Four such properties make up `WriteInv`.

* `SendsOnly(T)`: what was sent is in T, and so is what is left to do. T is
  `Needs(command, options)`, the requests that the options ask for, and for a
  command that is held back (`HeldBack`: no `--confirm`, a dry run, show or status)
  the restore point alone.
* `Remembers(T)`: a request outside T that was refused is remembered, in the
  command that runs or in a caller, until that command ends with an error. A
  program is `Sound` if, once such a request is made, no later step of the command
  ends it as a preview or a listing (`Sober`), and no caller drops the error of a
  command that makes one (`Sheltered`). T is what the command drops (`Lost`, which is
  `Dropped` without the commands that follow).
  The commands in `Unheeding`, which the property excepts, are not among these.
* `Heeded(x, y)`: y waits for x. Either x was not refused and is not made again, or
  y was not made and the program is in front of x, inside the call that makes it,
  or behind it and still has to hand an error on.
* `Earned(x, y)`: y (the commit, the restart) is made only once x was taken; the program is in
  front of x, behind it in the branch of the answer "ok", or y is out of its reach.

Three lemmas per property connect them: every program starts with it
(`SendingPrograms`, `HeldBackPrograms`, `HeedingPrograms`, `WaitingPrograms`,
`EarningPrograms`), every action keeps it (`NextSendsOnly`, `NextRemembers`,
`NextHeeds`, `NextEarns`), and `WriteInvImplies` has the four properties of the
run. `Closed`, `Good` and the like quantify over all sets of steps, so TLC cannot
evaluate them; what it checks are the properties themselves.

**Only model-checked.** Liveness under fairness, which is out of the prover's
reach: `ApprovedPlanIsApplied`, `StatusConverges`, `EndIsNoticed`,
`DellEndIsNoticed`, `NobodyWaitsForever`, `EveryCallEnds`. `LatestSpecWins`,
`ErrorExitsNonZero` and `UploadFailureIsReported`, which the code does not satisfy
(section 4). What an exponent in the backoff computes is not proved by induction either: the proofs
use that a power of two is the number of subsets of a finite set, and no more.

## 6. Not modelled

`PROJECT.json` lists every part with the reason. In short:

* Commands that only read. They change nothing; that a read may fail is part of
  the commands that read before they write.
* Fleet fan-out: `executor.map` over an inventory, each row computed by one
  worker, which catches what it raises. What the workers share is the registry of
  instances, which is modelled.
* Web explorer and read-only proxy: a lock around one call, and reads.
* Network discovery and the crawl: bounded scans that only read.
* Exporters, tracing, renderers, argument parsing: pure conversions, or observers,
  without state whose order matters.
* The mock BMC: a server for tests. Its replies are among those that the models
  admit.
* Contents of payloads, plans and snapshots, apart from what a property tells
  apart; the wording of reports; the length of sleeps in Dell's poller.
