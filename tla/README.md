# Pulumi Kubernetes Operator: a TLA+ verification project

The operator turns `Stack` objects into Pulumi operations. This directory holds
TLA+ models of its controllers, the TLC configurations that check them, and
TLAPS proofs. Paths below are relative to the repository; "stack_controller.go"
is `operator/internal/controller/pulumi/stack_controller.go`, "update_controller.go"
and "workspace_controller.go" are in `operator/internal/controller/auto/`.

## 1. The system

| part | state it keeps | operations | talks to |
|---|---|---|---|
| Stack controller | `Stack.status` (conditions, lastUpdate, currentUpdate, projectInfo), the finalizer on the Stack and on its Updates | `Reconcile`: absorb the outstanding Update, resolve the source, decide (`isSynced`), create the Workspace and the Update, finalize | API server (cached reads, direct writes), Git, Flux and Program sources |
| Update controller | `Update.status` (Progressing, Failed, Complete), `activeReconciles` | `Reconcile`: expire, give up, or run one operation and report it | API server, agent (gRPC) |
| Workspace controller | `Workspace.status`, StatefulSet, Service, an annotation on the pod | `Reconcile`: roll out the pod, install, initialize stacks, report ready or stalled | API server, agent (gRPC) |
| Agent server | the selected stack (in the CLI's workspace and cached), the running Pulumi processes | `SelectStack`, `SetAllConfig`, `AddEnvironments`, `Info`, `Install`, `Preview`, `Up`, `Refresh`, `Destroy`, `Cancel` | Pulumi CLI and backend |
| Token source, connection manager, authentication | a cached token per workspace; cached reviews in the agent | `Token`, `ResetTokenOlderThan`, `Prune`; `Authenticate` | API server |
| Program controller and file server | `Program.status.artifact` | publish the artifact of each generation, serve the current one over HTTP | API server, the init container |
| Sources (Flux, Git) | the Flux kinds watched so far | resolve a revision, install a watch | Git remotes, Flux objects |
| Agent commands | the volume of the pod | `init` fetches the source, `serve` runs the server | |
| operator main, webhook, metrics, generated code | none that the others rely on | wiring, defaulting, gauges | |

The controllers never call each other. They share objects of the API server:
the Stack controller creates Workspaces and Updates and watches both; the
Update controller waits for the Workspace to be ready, runs the operation over
gRPC and writes the result to the Update; the Stack controller's watch on
completed Updates brings the Stack back. A finalizer on the Stack waits for the
destroy, and one on each Update waits until its result is absorbed.

What is hard about it:

* every reconcile reads a cache that lags, keeps a copy while it runs, and
  writes status by server-side apply, which has no optimistic lock: a write
  never conflicts and drops what the copy lacks. Each write refreshes the copy,
  so that one reconcile mixes values of several versions of the object;
* any call may fail and the operator may restart between two calls: the status
  names an Update before it exists, and loses it before its finalizer goes;
* users edit, delete and annotate during all this, also while the Stack is
  being deleted, and may delete the Update or the Workspace;
* waiting is done without timers, on watch events that predicates filter;
* operations fail and are retried with a back-off and a limit, and a result may
  never arrive;
* the agent serves requests of several reconciles at once on one selected stack,
  with a goroutine that forwards events beside the handler that answers;
* tokens are cached on one side and reviews on the other, and a token may be
  rotated, reset or pruned while others hold it;
* what a user declares (configuration, credentials, a revision) passes through
  three programs that each read it anew.

What makes the parts correct: a Stack with destroyOnFinalize is never released
with resources still deployed; it has one Update in flight and records its
result; failing updates are retried a bounded number of times; a Stack settles,
and goes once it is deleted; an Update runs its operation at most once, its
outcome is final and a reported success is real; every Update completes; an
operation works on the stack it was meant for, with the revision that the Stack
reports and the configuration that was declared; a Stack runs after the Stacks it
requires; requests to the agent are authenticated by what is, or was just now,
valid. The full list of hazards, each at its line, is in `PROJECT.json`.

## 2. The modules

### StackController.tla

One Stack, with its Workspace and Updates as that Stack sees them.

* `stack` is the object at the API server, `cache` the informer's copy, `inst`
  the copy of the running reconcile, `sess` its other local variables
  (`sess.spec` is the `stack := instance.Spec` of line 558, `sess.marked` is
  `isStackMarkedToBeDeleted`, `sess.req` is `syncRequest`, `sess.toFin` is
  `toBeFinalized`), and `pc` the API call that comes next. `upd` are the Update
  objects with the state of their operation, `ucache` the informer's view of
  them, `ws` the Workspace and what it was built from.
* `infra` and `finalSpecs` are history: what the operations have left deployed,
  and the specs the Stack has had since it was marked for deletion.
* One action is one stretch of `Reconcile` between two calls:

| action | code (stack_controller.go) |
|---|---|
| `Start`, `AddFinalizer` | 523-567 |
| `WaitForUpdate` | an outstanding update, 620-641 |
| `ReadFails` | any read before the first write that returns an error |
| `ReleaseWithoutDestroy` | early exit, 659-670 |
| `StallOnSource` | unavailable source, StallError, 689-806 |
| `KeepSynced` | `isSynced` holds, 810-896 |
| `AwaitPrereqs` | 898-966 |
| `BeginUpdate`, `ApplyWorkspace` | step 4 and the planning of step 5, 968-1060 |
| `CreateUpdate`, `AddUpdateFinalizer` | 1061-1083 |
| `ReclaimWorkspace` | 875-895 |
| `SaveStatus` | the closure `saveStatus`, 569-618, at each of its calls |
| `RemoveFinalizer` | 666-669, 829-832, 1007-1010 |

  `Absorbed` with `MarkStackFailed` and `MarkStackSucceeded`, `IsSynced`,
  `StackResult` and `Requeues` are the functions of the same names.
* The environment: edits, requests and deletions by users; sources that move or
  are unavailable; the Workspace becoming ready, stalling, losing its pod or
  going away; Updates starting, finishing, being cancelled, expiring or deleted;
  informers and timers; faults and restarts. Each disturbance has a budget in
  `left`.

Abstractions. A spec is an opaque value with the flags that the reconciler branches on.
Names of Updates are numbers in order of their creation (`makeUpdateName` takes them
from the clock). Durations are reduced to `aged`: is the last result older than the
period that matters? Prerequisites are reduced to `prereqMet`; that the reconciler
touches an out-of-date prerequisite is in `Prerequisites`. `Invalid` specs are those
that any check rejects, bad Git credentials included, which are found before the source
is read (690-702). `ReportsProjectInfo` says whether results carry the project's name
and runtime, which `markStackSucceeded` records if they are there: those of this
repository's agent always do (agent/pkg/server/server.go:694, 798, 923, 1047), and the
runs set it; the theorems do not need it. The outputs are in `Configuration`. The Pulumi
backend runs one operation of a stack at a time. A failed operation may have done part,
all or nothing of its work.

`ReadYourWrites` says whether a reconcile starts only once the cache holds the
reconciler's own earlier writes. Nothing in the code ensures it; the runs that
set it to TRUE ask what holds when the cache is fast enough, and `disturbed` and
the theorem `FinalizedAfterDestroy` ask what holds when it is not. More does not
hold: with `ReadYourWrites = FALSE` TLC reports that a reconcile applies a status
older than its own last one and so forgets the outstanding Update
(`ResultAbsorbed`), and that, with a stalled workspace, a Stack which has been
applied looks like one without any update and is released without a destroy
(`NoOrphanedResources`). In `UpdateController` it lets a second reconcile overwrite
a reported success with Aborted (`LifecycleImplemented`).

### UpdateController.tla and UpdateLifecycle.tla

One Update and its Workspace. `obj`, `cache`, `inst`, `sess`, `pc` are as
above; `active` is the key's membership in `activeReconciles`; `run` and `runs`
are the history of the operation in the pod; `clock` and the status's `since` serve the
time to live. `Start` to `Report` follow `Reconcile` and the operation methods
(96-251, 429-600), `MapWorkspaceToUpdate` the watch on Workspaces (657-693).
The four types of operation differ in their arguments only and are one. The
write of the output Secret and the write of the status are one step, since
either failure has the same effect. `sess.aliased` records that the session's
conditions are pointers into the object, which decides what
`meta.SetStatusCondition` does with the transition time.

Two constants hold what the controller's gRPC client lets it see. `StreamErrors` are
the errors that a stream may break with: one that carries a gRPC status, which sets the
failed condition, or a plain one, which leaves it as it is (842-845) and would let a
broken stream be reported as a success; whatever a gRPC stream returns has a status.
`BegunUnanswered` says whether the agent may have begun an operation whose request the
controller sees fail, and which `retryUnreachable` then tries again: opening a server
stream fails only if the request was never sent, and the agent's own answer, be it
Unavailable, comes from the stream. The run has `{"status"}` and `{FALSE}`. With
`{"status", "plain"}` TLC reports that `SuccessIsReal` is violated, and with
`{FALSE, TRUE}` that `LifecycleImplemented` is, by a second start: both depend on gRPC
and not on the controller.

`UpdateLifecycle` is what an Update promises: the operation is started at most
once, only a started one can succeed, and outcomes are final. `UpdateController`
refines it with `phase` read off the conditions and `starts`, the number of starts, as
`runs`, so that a second start would be no step of it.

### WorkspaceController.tla

One Workspace, the StatefulSet the reconciler applies for it and the pod that
comes of it. A generation stands for the spec it carries: the hash in the pod
template contains the generation, so that every edit replaces the pod. `ss`
holds the generations behind the applied template, `UpdateRevision` and
`CurrentRevision`; `pod` records, beside the annotation, what was really done in
the pod (`installed`, `configured`). `Start` to `MarkInitialized` follow
`Reconcile` (91-435) from call to call, `UpdateStatus` is the closure
`updateStatus` (117-148), which refreshes the local copy. `InvalidTemplate` are the
generations whose pod template the API server refuses: `ApplyStatefulSet` takes any such
answer for that of a legacy StatefulSet and deletes what is there (185-191), and its pod,
which the model takes down at once. The StatefulSet
controller and the kubelet (`Roll`, `Recreate`, `PodStarts`, `PodLost`) are
external. The stacks of a Workspace are configured in one step, since any failure
has the same effect; whether the CLI in the pod is too old for JSON configuration
is left open. Failing calls and restarts share one budget, `Faults`.

### AgentServer.tla

The agent's process (`phase`, `starts`: the `serve` command and `GRPC.Serve`), the stack
that the CLI has `selected`, the one that `Server.stack` caches, its lock, and for each
client a `call` (the handler) and a `stream` (the channels of an operation and its
forwarding goroutine). A client is a reconcile: an initializer selects a stack, sets its
configuration and adds its environments, an Update selects one, which it lets the agent
create, and runs an operation; a client may also select again at any point.
`SelectByCli` and `CacheStack` are the two halves of `SelectStack`, the first of which
runs without the lock; `EnsureStack` and `Reselect` are `ensureStack`; `StartOperation`
to `SendResult` follow the four streaming methods, which differ in their options and in
the removal of the stack by `Destroy`: `Up` stands for `Preview` and `Refresh` as well.
`Info`, which no reconcile calls, is left out. The diagnostics of `diagnostics.go` are
counts of lines held and omitted. `taken` is history: the clients whose selection a call
of another client replaced.

### TokenSource.tla and MCTokenSource.tla

One workspace's tokens, from both ends: the factory with its cache entry and the
ticker that prunes it (`Connect`, `Prune`), `cachingTokenSource` (`FastPath`,
`SlowPath`, `CreateToken`, `StoreToken`, `CreateTokenFails`, `ResetTokenOlderThan`),
the credentials of a connection (`Call`), which drop a token `ExpiryDelta` before its
expiry, and `kubeAuth.Authenticate` with its two caches of reviews: who asks
(`AuthenticateToken`) and then whether they may (`Authorize`). Time is discrete and passes
between any two steps, those two included. `MCTokenSource` adds the symmetry of callers.
`ResetTokenOlderThan` has no caller in the repository; the model calls it the way its
comment asks, with the time before the token was asked for.

### Sources.tla

How a new revision reaches the pods of the Stacks that use it: the Program
controller, its file server and its status writes, or Flux, or a git branch that is
polled; `maybeWatchFluxSourceKind` with its map and lock; the part of the Stack
controller that resolves the revision and creates Workspace and Update; and the
`init` command of the pod. It composes what the modules above keep apart, reduced
to revisions: `st[s].last` is the commit that the Stack reports, `update[s].ran` the
one that was in the pod.

### Prerequisites.tla and MCPrerequisites.tla

Several Stacks that require each other: `Event` is what the predicates let through
(`ReconcileRequestedPredicate`, `stackReadyPredicate`, `enqueueDependents`),
`CheckPrerequisite` is `isRequirementSatisfied` for one prerequisite and `Touch` the
annotation that asks it for another run, which is written over whatever request is
there. A check reads the prerequisite from the informer `cache`, which `Deliver` brings up
to date some time after a change and which queues the dependents only then. The rest of a
reconcile is as in `StackController`; no Stack is deleted, so that the predicate's answer
to a deletion does not arise, and the operator does not restart. Time is discrete; a unit
is longer than it takes a queue to drain and the cache to catch up, so that none passes
while a Stack is queued or under reconcile, or the cache behind. `MCPrerequisites` fixes
the graph: a shared prerequisite, a Stack that requires it and one that requires both.

### Configuration.tla and MCConfiguration.tla

Three conversions, each across several programs: the four configuration fields of a
Stack to the items of the Workspace (`UpdateConfig`), to the request
(`marshalConfigItem`), to the settings (`unmarshalConfigItems` and its JSON
sibling); git credentials as the operator resolves them and as the pod does; outputs
to the Secret and to the Stack's status. A key is a spelling of a name: with the
project's namespace or without, plain or escaped; the constants `Names`, `Dotted` and
`Keys` say which occur. Each item stands at the entry it was made of, and `Place` is
where `UpdateConfig` puts it, so that of the items for one setting the later ones win.
Values are told apart by the entry that declared them. The API server refuses a list
with a key twice (the `listMapKey` of `WorkspaceSpec.config`): `ApplyRefused`. Maps
that Go ranges over are taken in any order. Null values, the precision of numbers and
an empty `gitAuth` object are left out. The Secret with the outputs may be gone by the
time it is read, which empties the outputs of the status (stack_controller.go:1151).
`MCConfiguration` fixes two names, one with a dot, under four spellings: a spelling has no
property of its own, it is what the first two properties quantify over.

### The proof modules

`StackController_proofs`, `UpdateController_proofs`, `WorkspaceController_proofs`,
`AgentServer_proofs`, `TokenSource_proofs`, `Sources_proofs`, `Prerequisites_proofs` and
`Configuration_proofs` each extend the component's module and hold the theorems of
section 5. The first has two parts: the destroy before the finalization, which needs
nothing of the cache, and a Stack's Updates from their creation to the release of the
Stack, which need reconciles that read their own writes.

## 3. What is checked

Passing runs. Each constrains the disturbances to what its question is about;
the sum of them would not finish.

| run | what happens in it | what holds |
|---|---|---|
| `edits` | two specs, one of them invalid, a reconcile request, a deleted Update, namespace termination | `TypeOK`, `NoOrphanedResources`, `UpdateHeldUntilAbsorbed` |
| `restart` | a Stack first previewed and then applied, three failing operations, a restart between any two calls | `NoOverlappingUpdates`, `NoOrphanedResources`, `RetryBudget`, `ResultAbsorbed` |
| `disturbed` | a cache that lags behind the reconciler's own writes, a failing call, a workspace fault, reclaimed workspaces | `DestroyBeforeFinalize` |
| `live` | a polled branch that moves or fails, prerequisites, runProgram, Updates that expire | `DeletionCompletes`, `CurrentUpdateAbsorbed`, `Settles` |
| `lifecycle` | faults of calls, agent and pod, deletion, a restart, a time to live | `TypeOK`, `SuccessIsReal`, `LifecycleImplemented`, `Completes` |
| `initialize` | an edit to a pod template that is refused and one that repairs it in a Workspace without a program, a CLI that is too old, a legacy StatefulSet, deletion, a lost pod, a failing call or restart | `TypeOK`, `ReadyAtRest`, `Settles` |
| `serve` | an initialization and an Update that name the same stack or two, failing commands, clients that go away, both signals | `TypeOK`, `OwnStackUnlessTaken`, `FailureReported`, `HandlersReturn`, `ServerStops` |
| `tokens` | two callers, tokens that expire and stay cached beyond that, rotations and reviews that fail, pruning, a revoked right | `TypeOK`, `LockHeldByFetcher`, `ResetTakesTheRejected`, `RotatedWhenDue`, `LetInOnRecentProof` |
| `sources` | two Stacks of one source of each kind, two revisions, failing status writes, a watch that does not start, a clone cut short, a lost pod | `TypeOK`, `RanAsNamed`, `OneHandler`, `FollowsSource`, `UpdateCompletes` |
| `chain` | three Stacks that see each other through a cache, a shared prerequisite that appears late, one input of a user, a failing update or touch | `TypeOK`, `RunsAfterPrerequisites`, `NoThrashing`, `DependentsProceed` |
| `conversions` | every configuration of two entries, every pair of a user's own items, lists that the API server refuses, all credentials, two runs with outputs | `ConfigAsDeclared`, `SecretsStaySecret`, `SameCredentials` |

What the passing runs leave out matters to what they show. `NoOrphanedResources`
and `RetryBudget` are checked without failing API calls: if
`addUpdateFinalizer` fails, the Stack forgets an Update that may still run, whose
failure is not counted and which may deploy after the destroy; `RetryBudget` is
checked without deletions of Updates for the same reason. The theorems of section 5
exclude no more than that the Stack forgets an Update. `RetryBudget` does not count an
Update that was canceled before it ran anything: that may have been of another
revision. `ResultAbsorbed` is checked without namespace termination, where an Update
that could not be created is rightly forgotten.
`DeletionCompletes` and `Settles` are checked without failures, stalls and
restarts; `lost_create` shows why, and a destroy that has failed
`maxUpdateFailures` times is requeued for ever and never tried again (line 823),
which leaves the deletion to a user. A Stack that was applied and is in preview
mode when it is deleted is released without a destroy (line 661): both
`NoOrphanedResources` and `DestroyBeforeFinalize` are about the other Stacks.
`ReadyAtRest` asks for a prepared pod only if no pod was lost. A pod that is
replaced while it is being initialized gets the annotation meant for its
predecessor, and a pod cache that lags shows the annotation of a pod that is
gone; without the exemption TLC reports the first case. `Completes` is about a
workspace that stays ready: otherwise the event that says that it is ready again may
be dropped while the Update is being reconciled (update_controller.go:686), and
nothing else wakes it. It exempts an Update that is deleted while its operation runs:
its final status keeps the generation before the deletion, no later reconcile
revises it (116-135), and a Stack that still waits for it (stack_controller.go:635)
waits for ever. `OwnStackUnlessTaken` does not rule out that two clients interleave,
only that anything else leads an operation astray. `RanAsNamed` exempts clones that
were cut short: the init container takes a repository that it finds as it is
(agent/cmd/init.go:143). `FollowsSource` exempts runs in which a watch did not start
(the Stack stalls without a requeue, and others that saw the mark rely on it) or a pod
was lost (a Program's file server serves only its current generation, so that the new
pod may never get the old one). The properties of `Configuration` make
exemptions: next to a structured value, paths and escaped keys are taken
verbatim; a path and an escaped key for one setting are set in the order of a Go map.
`SameCredentials` says of a Stack with several ways to authenticate only that a pod which
clones uses the operator's choice, and nothing of one with both `gitAuthSecret` and
`gitAuth`, or with a token and a GitHub App, where the two choose differently: see the
disagreements below. A run without outputs leaves those of the run before in the Stack's
status. `Settles` of a Workspace exempts one whose pod template is refused and stays so:
its StatefulSet is deleted again and again, and its status says nothing of it.

Bounds. Two specs, one or two revisions and one edit suffice for every pair of
"spec read" and "spec current" to occur; `MaxUpdates` allows an up, its retry,
a destroy and its retry where failures happen (an up, one more and a destroy in
`edits`, an up and a destroy in `disturbed`), so that the finalization is always
reached; `MaxUpdateFailures` is 1, so that both sides of the limit are met within
few Updates (the theorems hold for every limit). One fault or restart may
strike at any step, which reaches each half-done sequence. Two clients, two callers
and two Stacks suffice for every race of the newer modules, which are between two
parties; the theorems of section 5 have any number, and any number of starts of the
agent, which `serve` starts once. In `tokens` a token lives for one unit of three and a
review of it is remembered for two, so that one issued at the start expires, comes due, is
replaced, and reaches the time at which no review of it counts any more; `chain` has one
unit more than the longest duration, so that a prerequisite can be out of date for one
dependent and not for the other. In `initialize` a refused generation lies between two
that are not. A Stack that has used up `MaxUpdates` can make no further progress, which is
why deadlock is not checked; nor should it be: a Stack or an Update that is gone, and
a server that was stopped, have no more steps.

The code disagrees with what its comments say in two places.

* A restart between naming and creating an Update leaves the Stack waiting for ever, for
  an event that cannot come. The run `lost_create` shows it; `PROJECT.json` quotes the
  lines.
* "Only one authentication mode will be considered if more than one option is specified,
  with ssh private key/password preferred first, then personal access token, and finally
  basic auth credentials" (operator/api/pulumi/shared/stack_types.go:216-218, 227-229).
  The operator considers one when it resolves the branch (`ResolveGitAuth`), but
  `setupWorkspaceFromGitSource` passes on all that it finds, and the Automation API,
  which the `init` command of the pod hands them to, refuses basic authentication beside
  another mode (`RunInit`): the branch is resolved and the pod never starts. A nil
  reference of a mode that would not be considered makes the reconcile panic
  (`NilReference`). `PodCredentials` and `RunInit` are modelled as they are, and
  `conversions` goes through all these Stacks; `SameCredentials` states what holds of
  them, and without `oneMode` in it TLC reports a Stack of either kind.

A third comes near to one: a path is "Incompatible with structured values (objects,
arrays)" (operator/api/auto/v1alpha1/workspace_types.go:247-248), which speaks of one
item. The agent gives up paths and escaped keys of all items as soon as any item of the
Workspace is structured, since the CLI then reads them from JSON; `TakenVerbatim` is that
case.

Other things seen while modelling, which have no run of their own:

* an edit between the read of a Stack and the first status write is recorded as
  applied although it was not: the Update takes its generation from the refreshed
  copy (stack_controller.go:1052);
* the time to live of an Update that had a status before counts from that status,
  since the session's conditions alias the object's and `SetStatusCondition` sees no
  transition (update_controller.go:376); the model has it (`sess.aliased`), and no property
  depends on it: the early expiry harms nothing that the Stack still needs;
* an edit during the initialization of a pod is reported as ready with the pod of the
  old generation (workspace_controller.go:119) until the next reconcile, which is what
  `ReadyAtRest` is about; `StackController` takes a ready Workspace at its word;
* if adding the finalizer to an Update fails, the reconcile forgets it, and two Updates
  of a Stack may be in flight (`ApiFaults = 1` and `Crashes = 0` in `restart`);
* a Stack that declares one key in two fields gets its Workspace refused by the API
  server, since UpdateConfig appends an item for each and `config` is a map list
  (workspace_types.go:235-239): the reconcile fails until the Stack is edited;
* a prerequisite that is deleted between the check and its annotation would be written by
  a server-side apply, which creates what is not there (stack_controller.go:944); Stacks
  are not deleted in `Prerequisites`;
* a Stack that found a prerequisite out of date may write its annotation when one
  update of the prerequisite has ended and another has begun since: the run that it
  causes then comes after two that would have done. `NoThrashing` says that it is no
  more; with `MaxInputs = 2` in `chain` TLC reaches the case.

## 4. Fairness

`LiveSpec` of each module assumes weak fairness of the reconciler as a whole
(controller-runtime runs a queued key, and a goroutine that can go on does), of the
informers, watch events and timers (client-go delivers), of the end of operations, and
of pods becoming ready and sources coming back: the last two are the environment,
without which no operator can settle. An Update that may start does so: the Stack model
takes the Update controller at its promise. `AgentServer` assumes that goroutines are
scheduled, that CLI commands end (they are interrupted when the server is told to stop),
and that `GracefulStop` returns once no call is left. `Sources` and `Prerequisites`
assume weak fairness of each controller, informer and timer, of each Stack separately,
of the kubelet's restarts of the init container, and of time; in `Prerequisites` all
that needs no user makes one progress condition, since a Stack that waits does so for
others. Nothing is assumed of users, faults, stalls, disconnections, signals and
restarts, whose number is bounded. Liveness runs have no symmetry.

## 5. What is proved

Each theorem holds for every value of the constants that satisfies the module's
assumptions: any number of Stacks, clients, callers, generations, tokens, faults and
restarts.

| theorem | states | inductive invariant |
|---|---|---|
| `StackController_proofs!TypeCorrect` | `Spec => []TypeOK` | `TypeOK` |
| `FinalizedAfterDestroy` | `Spec => []DestroyBeforeFinalize` | `IInv`, see below |
| `OneUpdateInFlight` | with `ReadYourWrites`, `Spec /\ [][HoldSucceeds /\ NotDeletedYet]_vars => []NoOverlappingUpdates` | `OverlapInv`: `WaitInv`, and a running Update is the current one (`OnlyCurrentRuns`) |
| `HeldUntilAbsorbed` | with `ReadYourWrites`, `Spec /\ [][Undisturbed]_vars => []UpdateHeldUntilAbsorbed` | `HeldInv`: `WaitInv`, and the current Update carries the finalizer unless a reconcile is about to add it, or to save that it has absorbed or dropped it (`CurrentIsHeld`) |
| `ResultRecorded` | with `ReadYourWrites`, `Spec /\ []~Forgetting => ResultAbsorbed` | `RecordInv`, see below |
| `NothingLeftBehind` | with `ReadYourWrites`, `Spec /\ []~Forgetting => []NoOrphanedResources`; if `WorkspaceFaults = 0`, also `Spec /\ [][HoldSucceeds]_vars => []NoOrphanedResources` | `OrphanInv`, see below |
| `RetriesBounded` | with `ReadYourWrites`, `Spec /\ []~Forgetting => []RetryBudget` | `BudgetInv`, see below |
| `UpdateController_proofs!TypeCorrect` | `Spec => []TypeOK` | `TypeOK` |
| `ReportsRealSuccess` | with `StreamErrors \subseteq {"status"}`, `Spec => []SuccessIsReal` | `RealInv`: from its first write on, a reconcile's Update is progressing in the object too (`AtWork`), and the result it is about to report is the operation's (`Outcome`) |
| `ImplementsLifecycle` | with `ReadYourWrites`, `BegunUnanswered \subseteq {FALSE}` and `StreamErrors \subseteq {"status"}`, `Spec => LifecycleImplemented` | `OnceInv`: a reconcile decides on the status that the object has (`Current`), and a started operation shows in it (`Once`) |
| `WorkspaceController_proofs!TypeCorrect` | `Spec => []TypeOK` | `TypeOK` |
| `ReadyIsPrepared` | `Spec => []ReadyAtRest` | `RestInv`, see below |
| `AgentServer_proofs!TypeCorrect` | `Spec => []TypeOK` | `TypeOK` |
| `WorksOnOwnStack` | with `InitialStack = None`, `Spec => []OwnStackUnlessTaken` | `Own`: unless it was taken from a client that has selected, the CLI has selected its stack or none, and so has a handler that read it |
| `ReportsFailure` | `Spec => []FailureReported` | `Accounted`, `Reported`: every diagnostic sent is held, omitted, or in the forwarder's hands, and nothing is in its hands when the message is made |
| `TokenSource_proofs!TypeCorrect` | `Spec => []TypeOK` | `TypeOK` and `Connected` |
| `LockHeld` | `Spec => []LockHeldByFetcher` | the property itself, with the types |
| `ResetSpares`, `Rotates` | the two action properties | `Facts`: no caller has read a time that has not come (`Issued`), a fetcher found no fresh token and the lock kept it so (`Due`), a caller's source has its token, none, or one cached after the caller asked (`Handed`) |
| `LetsInOnProof` | the action property | `Evidence`: what the agent remembers was true when it was asked |
| `Sources_proofs!TypeCorrect` | `Spec => []TypeOK` | `TypeOK` |
| `WatchedOnce` | `Spec => []OneHandler` | `OneWatcher`: the mark of a kind stands for one handler, installed or about to be by the one reconcile that set it |
| `RunsWhatItNames` | `Spec => []RanAsNamed` | `Named`: a ready pod has what its workspace wants, and the workspace stays as it is while an Update waits |
| `Prerequisites_proofs!TypeCorrect` | `Spec => []TypeOK` | `TypeOK` |
| `PrerequisitesFirst` | `Spec => RunsAfterPrerequisites` | `SafeInv`: the recorded age of a success is not below its age (`Timely`), a reconcile has absorbed the latest outcome (`Attended`), and while no check has failed each prerequisite is satisfied or yet to be checked (`Checked`) |
| `TouchesDoNotThrash` | `Spec => NoThrashing` | `TouchInv`: updates are numbered in order (`Numbered`), while an annotation is about to be written at most one update has ended and one started since it was decided (`Touches`), so a request is near the latest update, or is the one it was for (`Requests`, `Reads`) |
| `Configuration_proofs!SetsWhatIsDeclared` | `Spec => []ConfigAsDeclared` | `CInv`: the items are those of the Stack or a user's own (`Listed`), and once set, the settings are what the items mean, an item of a secret field prevailing (`AsMeant`) |
| `KeepsSecrets` | `Spec => []SecretsStaySecret` | `CInv`, whose `Masked` and `Copied` follow the outputs: the Secret's annotation names the key of every secret output, and no value of one is in the status |
| `AuthenticatesAlike` | `Spec => []SameCredentials` | `CInv`, whose `Resolved` keeps what both sides read |

The hypotheses are of different kinds. `ReadYourWrites` is not ensured by the code, and
without it `LifecycleImplemented`, `ResultAbsorbed` and `NoOrphanedResources` fail
(section 2). Those on `StreamErrors` and `BegunUnanswered` are what gRPC provides
(section 2). The others are about the two calls of Reconcile that create an Update and
then add its finalizer: on purpose, it drops the Update when either fails, which may run
all the same. They limit what happens at that point of the reconcile and nowhere else:

* `~Forgetting` in every state: no reconcile is about to save a status that has dropped
  an Update because one of the two calls failed, be it that the API server did not
  answer, that a user deleted the Update in between, or that the namespace is
  terminating;
* `HoldSucceeds` on every step: the second call does not fail of itself;
* `NotDeletedYet`: no user deletes an Update between the two calls. An Update that is
  deleted later, while it is held, does no harm;
* `Undisturbed`: no call fails and the operator does not restart while the current
  Update is there without the finalizer, or while a stalled workspace is reclaimed, which
  takes the finalizer before the status is saved. After a restart between the two calls
  the finalizer is never added.

Failing calls at any other point, restarts, deletions, expiry, failing operations,
workspaces that stall or lose their pods, edits, requests and moving sources are not
limited. Each hypothesis is one of behaviours, so that a theorem speaks of every
behaviour up to the first step that breaks it. `InitialStack = None`
is how the operator starts the agent (workspace_controller.go:537-538, no `--stack`);
with the flag, a container that restarts between a client's `SelectStack` and its
operation would select the flag's stack behind its back.

`DestroyBeforeFinalize` speaks of the object, and the decision to release it is taken
from copies, several steps earlier. `IInv` adds

* `FreshNames`: Updates beyond `names` do not exist, so that a new one never
  takes over the history of another;
* `CachedSuccess`: an Update that the cache shows as successful did succeed, and
  stays so;
* `HonestCopies`: in the object, the cache and the local copy, a lastUpdate that
  says a destroy succeeded names an Update of which that is true;
* `FinalSpecs`: `finalSpecs` holds the current spec of a deleted Stack;
* `Finalizer`: a Stack that has a status or that a reconcile is working on
  carries the finalizer until it is gone;
* `Justified`: a reconcile on its way to remove the finalizer has a reason that
  still holds: its spec needed no destroy, or its copy shows a successful
  destroy, or it read that no update was recorded. The guard on the
  resourceVersion carries the last reason over to the object.

That the theorem allows "no update was recorded" is not slack: without
`ReadYourWrites` more would be false (section 2).

The theorems about Updates share `WaitInv`. To `IInv` it adds what a
reconcile's copy has to do with the object when the cache is fast enough (`Tracks`:
the same status, or one that has absorbed the current Update and nothing else;
`Finalizes`, `Present`, `CachedResult`), that only the current Update waits to be run
(`OnlyCurrentWaits`), and that one which is dropped is not there any more (`Dropped`):
the last is what `HoldSucceeds` ensures. A status write may be lost in each of them
(`Lost`), which leaves the object as it was and ends the reconcile, or goes on to the
finalization of a Stack that was destroyed.

* `RecordInv` adds `Ordered` (names grow from LastUpdate to CurrentUpdate to the next)
  and `Recorded` (every Update that was created is the current one or precedes the
  last one). The step that clears CurrentUpdate is then an absorption.
* `OrphanInv` adds `Marks` (a destroy is created only by a reconcile that saw the
  deletion, as every later one does), `Behind` (with a destroy there, no up waits, and
  the destroy does not overtake one that runs), `CleanAfter` (after a successful destroy,
  or if nothing ever ran, nothing is deployed), `Bare` and `Released` (who may be
  released without a destroy), and `Witnessed`. The last is why the theorem has two
  parts: if a workspace stalls, Reconcile releases a Stack without a LastUpdate, which
  proves that nothing ran only if no Update was forgotten.
* `BudgetInv` is about numbers: generations and requests in a record are not newer than
  the object's (`GenOrders`, `Requested`), the failures in a record are at least the
  number of Updates of its generation and request that failed in a row (`Tallied`),
  CurrentUpdate describes the Update it names (`CurrentIs`), a reconcile that goes on to
  create an Update has not used up the retries (`Due`), and so each Update that is named,
  waits or ran has one among its `MaxUpdateFailures + 1` predecessors that did not fail
  at the same thing (`Budgets`). `markStackFailed` counts and `isSynced` compares; the
  proof is that nothing in between, a restart or a lost status write included, loses
  count.

`RunsAfterPrerequisites` and `NoThrashing` compare what a reconcile looked at with what
other Stacks did since, in a cache that may be behind. Both rest on the one assumption
about time that the module makes: none passes while a Stack is queued or under reconcile,
or the cache behind. What a check has found may be overtaken by edits, requests and
failures of the prerequisite, but its success does not age meanwhile.

`ReadyAtRest` speaks of a Workspace at rest, whose status may have been written at a
generation that the reconcile never applied. `RestInv` says why that is put right:

* `Passed`: generations only grow, from the object to the cache, to the reconcile, to
  the template and to the revision;
* `Owed`: if the template is not of the cached generation, a reconcile is queued,
  timed or about to apply it;
* `OfRevision`: a pod is of the StatefulSet's revision, and the cached one no newer;
* and while no pod was lost, `OnePod` (a cached pod of the current revision is the
  pod), `Relied` (what each step of the reconcile took for granted still holds),
  `Marked` (an annotated pod was installed and configured, for a generation between
  its own and the current one) and `Reported` (a ready status that is not true any
  more is about to be replaced).

`ConfigAsDeclared` and `SecretsStaySecret` are about the order of items: the settings
are the last items of each key in the order of `Place` (`LastOf`), the list is finite, so
that there is one, and the secret fields come last (`SecretFieldsComeLast`), so that
another spelling of a key cannot make a secret setting plain. The proofs go through the
three programs without a bound on entries, names or spellings, and for every order in
which Go may range over a map.

Only model-checked: the liveness properties (`DeletionCompletes`,
`CurrentUpdateAbsorbed`, the two `Settles`, `Completes`, `HandlersReturn`, `ServerStops`,
`FollowsSource`, `UpdateCompletes`, `DependentsProceed`), which are out of reach of the
prover. Every invariant and every action property of the passing runs is a theorem.

## 6. Not modelled, and what is left

Not modelled: metrics (gauges that nothing reads), the Workspace webhook and the
migration checks (defaulting and validation of single objects), generated code
(deep copies, apply configurations, the protocol), and the wiring in the operator's
`main` except for the program file server: none keeps state that the others rely on.
Of the agent, `Install`, `WhoAmI` and `PulumiVersion`, which do not touch the selected
stack, appear only as calls of the Workspace controller that succeed or fail. Of the
controllers, the contents of the pod template, resource limits and labels are data
that pass through.

Abstracted: durations (the cooldown that triples up to a cap, whose first step is
10 s whatever the cap; the resync frequency) are reduced to whether they have passed,
except in `TokenSource` and `Prerequisites`. After a successful operation the
handler of the agent sends the result while the forwarder may still be in `Send`;
what gRPC makes of two sends at once is not resolved.

What is left to do: a composition of the Stack, Update and Workspace controllers at the
grain of their API calls. `Sources` composes them at the grain of revisions, and the
status of a Workspace that is ready too early is not in it.
