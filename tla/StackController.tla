---------------------------- MODULE StackController ----------------------------
(***************************************************************************)
(* The Stack reconciler: StackReconciler.Reconcile and its helpers, in     *)
(* operator/internal/controller/pulumi/stack_controller.go, for one Stack. *)
(*                                                                         *)
(* The Stack object lives at the API server (`stack').  The reconciler     *)
(* reads it from an informer cache (`cache') that may lag, keeps a private *)
(* copy (`inst') while it runs, and writes back with calls between which   *)
(* users, the workspace, the Update controller and the clock take steps.   *)
(* One action is one stretch of Reconcile from one API call to the next.   *)
(*                                                                         *)
(* Status writes are server-side applies without a resourceVersion: they   *)
(* never conflict, they drop what the local copy lacks, and their response *)
(* refreshes the local copy.  Writes of the finalizer are Updates guarded  *)
(* by the resourceVersion.                                                 *)
(***************************************************************************)
EXTENDS Integers

CONSTANTS
    Specs,              \* the spec versions the user may apply
    FirstSpec,          \* the one the Stack is created with
    DestroyOnFinalize,  \* specs with destroyOnFinalize: true
    Preview,            \* specs with preview: true
    RunProgram,         \* specs with runProgram: true
    Resync,             \* specs with continueResyncOnCommitMatch: true
    Polled,             \* specs with a git branch to poll; the others are watched
    ReclaimDelete,      \* specs with workspaceReclaimPolicy: Delete
    HasPrereqs,         \* specs with prerequisites
    Invalid,            \* specs a StallError, or a source that cannot be used, rejects
    ReportsProjectInfo, \* does the agent report the project it runs? (server.go:75 does)
    Commits,            \* source revisions
    NoCommit,           \* the empty revision (project-info destroy)
    Unavailable,        \* the source cannot be resolved
    MaxUpdateFailures,  \* maxUpdateFailures, 3 in the code
    MaxGen, MaxReq, MaxUpdates,  \* bounds: generations, requests, Updates
    ApiFaults,          \* bound: API calls that fail
    Crashes,            \* bound: operator restarts
    WorkspaceFaults,    \* bound: workspace stalls and pod losses
    FailedRuns,         \* bound: Updates that end in failure
    SourceChanges,      \* bound: source revisions and outages
    UpdateDeletions,    \* bound: Updates a user deletes
    Ttl,                \* when a complete Update expires: "never" within the horizon
                        \* of the run, "late" (once absorbed) or "early" (at any time)
    AllowNsTermination, \* may the namespace be terminated?
    ReadYourWrites      \* does a reconcile start only once the cache holds
                        \* the reconciler's own earlier writes?

ASSUME SpecAssumption ==
    /\ FirstSpec \in Specs /\ ReportsProjectInfo \in BOOLEAN
    /\ \A S \in {DestroyOnFinalize, Preview, RunProgram, Resync, Polled,
                 ReclaimDelete, HasPrereqs, Invalid} : S \subseteq Specs

ASSUME SourceAssumption ==
    NoCommit \notin Commits /\ Unavailable \notin Commits /\ NoCommit # Unavailable

ASSUME BoundAssumption ==
    /\ MaxUpdateFailures \in Nat /\ MaxGen \in Nat /\ MaxReq \in Nat
    /\ MaxUpdates \in Nat /\ ApiFaults \in Nat /\ Crashes \in Nat
    /\ WorkspaceFaults \in Nat /\ FailedRuns \in Nat /\ SourceChanges \in Nat
    /\ UpdateDeletions \in Nat
    /\ Ttl \in {"never", "late", "early"} /\ AllowNsTermination \in BOOLEAN /\ ReadYourWrites \in BOOLEAN

VARIABLES
    stack,       \* the Stack object at the API server
    finalSpecs,  \* history: specs it has had since it was marked for deletion
    cache,       \* the Stack in the informer cache
    event,       \* a watch event that passes the predicates is on its way
    queue,       \* the Stack's key is in the work queue
    timer,       \* a RequeueAfter is pending
    pc,          \* where the running reconcile is; "idle" when none runs
    inst,        \* its local copy of the object
    sess,        \* its other local values
    ws, wsEvent, \* the Workspace object, and a watch event of it on its way
    upd, ucache, \* the Update objects, and the informer's view of each
    names,       \* Update names used so far
    commit,      \* what the source resolves to
    prereqMet,   \* the prerequisites are satisfied
    nsGone,      \* the namespace is terminating
    aged,        \* LastResyncTime is longer ago than the cooldown or resync period
    infra,       \* history: what the Pulumi runs have left deployed
    left         \* what remains of each bounded kind of disturbance

stackVars == <<stack, finalSpecs>>
cacheVars == <<cache, event>>
queueVars == <<queue, timer>>
sessVars  == <<pc, inst, sess>>
wsVars    == <<ws, wsEvent>>
updVars   == <<upd, ucache, names>>
worldVars == <<commit, prereqMet, nsGone, infra>>
vars == <<stackVars, cacheVars, queueVars, sessVars, wsVars, updVars, worldVars,
          aged, left>>

-----------------------------------------------------------------------------
(* Objects.                                                                *)

\* Update objects by name; the name 0 is a nil reference.
Updates == 1..MaxUpdates
Names == 0..MaxUpdates
Revisions == Commits \union {NoCommit}
Types  == {"up", "preview", "destroy"}

\* Status.LastUpdate, Status.CurrentUpdate and their nil values.
NilLast == [gen |-> 0, req |-> 0, name |-> 0, type |-> "none", state |-> "none",
            tried |-> NoCommit, good |-> NoCommit, failures |-> 0]
NilCurrent == [gen |-> 0, req |-> 0, name |-> 0, commit |-> NoCommit]
LastUpdates == [gen : Nat, req : Nat, name : Names, type : Types \union {"none"},
                state : {"none", "succeeded", "failed"}, tried : Revisions,
                good : Revisions, failures : Nat]
CurrentUpdates == [gen : Nat, req : Nat, name : Names, commit : Revisions]

Conditions == {"none", "ready", "reconciling", "stalled"}
Objects == [exists : BOOLEAN, spec : Specs, gen : Nat, req : Nat,
            deleting : BOOLEAN, finalizer : BOOLEAN,
            obsGen : Nat, obsReq : Nat, cond : Conditions,
            last : LastUpdates, cur : CurrentUpdates, info : BOOLEAN]

\* What a workspace is built from, and what an Update ran; nothing yet.
Content == [spec : Specs, commit : Revisions \union {Unavailable}]
NoContent == [spec |-> FirstSpec, commit |-> Unavailable]

\* What an Update object is before it is created.
NoUpdate == [obj |-> "none", fin |-> FALSE, type |-> "none", phase |-> "pending",
             seen |-> TRUE, ran |-> NoContent, gen |-> 0, req |-> 0]
UpdateObjects == [obj : {"none", "live", "deleting", "gone"}, fin : BOOLEAN,
                  type : Types \union {"none"},
                  phase : {"pending", "running", "succeeded", "failed"},
                  seen : BOOLEAN, ran : Content, gen : Nat, req : Nat]

NewStack == [exists |-> TRUE, spec |-> FirstSpec, gen |-> 1, req |-> 0,
             deleting |-> FALSE, finalizer |-> FALSE, obsGen |-> 0, obsReq |-> 0,
             cond |-> "none", last |-> NilLast, cur |-> NilCurrent, info |-> FALSE]

\* The local values of a reconcile: the spec it read (sess.stack), whether the
\* object was marked for deletion, the reconcile request, the source revision,
\* what follows the next saveStatus, whether the local resourceVersion is still
\* current, the Update to be finalized, and the type of the Update to create.
Idle == [spec |-> FirstSpec, marked |-> FALSE, req |-> 0, commit |-> NoCommit,
         after |-> "stop", rvOk |-> FALSE, toFin |-> 0, type |-> "none"]
Sessions == [spec : Specs, marked : BOOLEAN, req : Nat, commit : Revisions,
             after : {"stop", "later", "error", "release", "finalize", "apply", "create"},
             rvOk : BOOLEAN, toFin : Names, type : Types \union {"none"}]

Complete(u) == upd[u].phase \in {"succeeded", "failed"}

\* What a reader of the Update sees.  A deletion bumps the generation, and the
\* Update controller never again records it as observed once the run has begun.
View(u) == IF upd[u].obj \in {"none", "gone"} THEN "absent"
           ELSE IF Complete(u) /\ upd[u].seen THEN upd[u].phase
           ELSE "incomplete"

Init ==
    /\ stack = NewStack
    /\ finalSpecs = {}
    /\ cache = NewStack
    /\ event = FALSE
    /\ queue = TRUE /\ timer = FALSE
    /\ pc = "idle" /\ inst = NewStack /\ sess = Idle
    /\ ws = [state |-> "absent", content |-> NoContent] /\ wsEvent = FALSE
    /\ upd = [u \in Updates |-> NoUpdate]
    /\ ucache = [u \in Updates |-> "absent"]
    /\ names = 0
    /\ commit \in Commits
    /\ prereqMet = (HasPrereqs = {})
    /\ nsGone = FALSE
    /\ aged = FALSE
    /\ infra = {}
    /\ left = [api |-> ApiFaults, crash |-> Crashes, ws |-> WorkspaceFaults,
               run |-> FailedRuns, src |-> SourceChanges, del |-> UpdateDeletions]

-----------------------------------------------------------------------------
(* The users and the rest of the cluster.                                  *)

\* A write by someone else makes the reconciler's resourceVersion stale.
Outdate == sess' = [sess EXCEPT !.rvOk = FALSE]

\* kubectl apply of another spec; allowed while the Stack is being deleted too.
EditSpec(s) ==
    /\ stack.exists /\ stack.gen < MaxGen /\ s # stack.spec
    /\ stack' = [stack EXCEPT !.spec = s, !.gen = @ + 1]
    /\ finalSpecs' = IF stack.deleting THEN finalSpecs \union {s} ELSE {}
    /\ event' = TRUE
    /\ Outdate
    /\ UNCHANGED <<cache, queueVars, pc, inst, wsVars, updVars, worldVars, aged, left>>

\* A new value of the reconcile-request annotation.
RequestReconcile ==
    /\ stack.exists /\ stack.req < MaxReq
    /\ stack' = [stack EXCEPT !.req = @ + 1]
    /\ event' = TRUE
    /\ Outdate
    /\ UNCHANGED <<finalSpecs, cache, queueVars, pc, inst, wsVars, updVars, worldVars,
                   aged, left>>

\* Deletion bumps the generation; without a finalizer the object goes at once.
DeleteStack ==
    /\ stack.exists /\ ~stack.deleting
    /\ stack' = [stack EXCEPT !.deleting = TRUE, !.gen = @ + 1, !.exists = stack.finalizer]
    /\ finalSpecs' = {stack.spec}
    /\ nsGone' \in (IF AllowNsTermination THEN BOOLEAN ELSE {FALSE})
    /\ event' = TRUE
    /\ Outdate
    /\ UNCHANGED <<cache, queueVars, pc, inst, wsVars, updVars, commit, prereqMet,
                   infra, aged, left>>

\* A new revision.  Flux sources and Programs are watched
\* (SourceRevisionChangePredicate); a git branch is only polled.
NewRevision(c) ==
    /\ c # commit
    /\ commit # Unavailable => left.src > 0
    /\ left' = IF commit = Unavailable THEN left ELSE [left EXCEPT !.src = @ - 1]
    /\ commit' = c
    /\ queue' = (queue \/ stack.spec \notin Polled)
    /\ UNCHANGED <<stackVars, cacheVars, timer, sessVars, wsVars, updVars, prereqMet,
                   nsGone, infra, aged>>

\* The source cannot be reached, or has no artifact.
SourceOutage ==
    /\ commit # Unavailable /\ left.src > 0
    /\ commit' = Unavailable
    /\ left' = [left EXCEPT !.src = @ - 1]
    /\ UNCHANGED <<stackVars, cacheVars, queueVars, sessVars, wsVars, updVars, prereqMet,
                   nsGone, infra, aged>>

\* A prerequisite Stack becomes ready: stackReadyPredicate enqueues its dependents.
PrereqReady ==
    /\ ~prereqMet
    /\ prereqMet' = TRUE
    /\ queue' = TRUE
    /\ UNCHANGED <<stackVars, cacheVars, timer, sessVars, wsVars, updVars, commit,
                   nsGone, infra, aged, left>>

\* Time passes: the cooldown of a failed update, or the resync period, is over.
TimePasses ==
    /\ ~aged /\ (stack.last.state = "failed" \/ stack.spec \in Resync)
    /\ aged' = TRUE
    /\ UNCHANGED <<stackVars, cacheVars, queueVars, sessVars, wsVars, updVars,
                   worldVars, left>>

\* The informer catches up with the Stack object, and its handlers run.
SyncCache ==
    /\ cache # stack
    /\ cache' = stack
    /\ queue' = (queue \/ event)
    /\ event' = FALSE
    /\ UNCHANGED <<stackVars, timer, sessVars, wsVars, updVars, worldVars, aged, left>>

\* A RequeueAfter expires.
TimerFires ==
    /\ timer
    /\ timer' = FALSE /\ queue' = TRUE
    /\ UNCHANGED <<stackVars, cacheVars, sessVars, wsVars, updVars, worldVars, aged, left>>

-----------------------------------------------------------------------------
(* The Workspace, as the Stack controller sees it.                         *)

\* The watch event behind workspaceReadyPredicate reaches the Stack's queue.
WorkspaceEvent ==
    /\ wsEvent
    /\ wsEvent' = FALSE /\ queue' = TRUE
    /\ UNCHANGED <<stackVars, cacheVars, timer, sessVars, ws, updVars, worldVars, aged, left>>

SetWorkspace(s) ==
    /\ ws' = [ws EXCEPT !.state = s]
    /\ UNCHANGED <<stackVars, cacheVars, queueVars, sessVars, updVars, worldVars, aged>>

\* Initialization ends: the pod is ready, now or after a stall was cleared.
WorkspaceReady ==
    /\ ws.state \in {"pending", "stalled"}
    /\ SetWorkspace("ready")
    /\ wsEvent' = TRUE
    /\ UNCHANGED left

\* Initialization fails for good (WorkspaceStalled).
WorkspaceStalls ==
    /\ ws.state = "pending" /\ left.ws > 0
    /\ SetWorkspace("stalled")
    /\ wsEvent' = TRUE
    /\ left' = [left EXCEPT !.ws = @ - 1]

\* The pod is lost, or a stalled workspace is initialized anew; no predicate
\* lets this event through.
WorkspaceUnready ==
    /\ ws.state \in {"ready", "stalled"} /\ left.ws > 0
    /\ SetWorkspace("pending")
    /\ left' = [left EXCEPT !.ws = @ - 1]
    /\ UNCHANGED wsEvent

\* kubectl delete workspace.
DeleteWorkspace ==
    /\ ws.state \in {"pending", "ready", "stalled"} /\ left.ws > 0
    /\ SetWorkspace("deleting")
    /\ left' = [left EXCEPT !.ws = @ - 1]
    /\ UNCHANGED wsEvent

\* A deleted Workspace, or one whose owner or namespace is gone, disappears.
WorkspaceGone ==
    /\ ws.state # "absent"
    /\ ws.state = "deleting" \/ ~stack.exists \/ nsGone
    /\ SetWorkspace("absent")
    /\ wsEvent' = TRUE
    /\ UNCHANGED left

-----------------------------------------------------------------------------
(* The Updates, as the Stack controller sees them.                         *)

UpdateStep == UNCHANGED <<stackVars, cacheVars, queueVars, sessVars, wsVars, ucache,
                          names, commit, prereqMet, nsGone, aged>>

\* The Update controller starts the run in the workspace, as it is now.  The
\* Pulumi backend's lock admits one run at a time.
UpdateStarts(u) ==
    /\ upd[u].obj = "live" /\ upd[u].phase = "pending"
    /\ ws.state = "ready"
    /\ \A v \in Updates : upd[v].phase # "running"
    /\ upd' = [upd EXCEPT ![u].phase = "running", ![u].ran = ws.content]
    /\ UpdateStep
    /\ UNCHANGED <<infra, left>>

\* What a finished run leaves deployed; a failed one may have done its work.
Deployed(u, ok) ==
    (IF ok /\ upd[u].type # "preview" THEN {} ELSE {infra})
        \union (IF upd[u].type = "up" THEN {{upd[u].ran}} ELSE {})
        \union (IF upd[u].type = "destroy" THEN {{}} ELSE {})

\* The run ends.  If its object is gone the outcome is lost, its effects are not.
UpdateFinishes(u, ok) ==
    /\ upd[u].phase = "running"
    /\ ok \/ left.run > 0
    /\ left' = IF ok THEN left ELSE [left EXCEPT !.run = @ - 1]
    /\ upd' = [upd EXCEPT ![u].phase = IF ok THEN "succeeded" ELSE "failed"]
    /\ infra' \in Deployed(u, ok)
    /\ UpdateStep

\* An Update deleted, or orphaned from its workspace, before it started is
\* failed as Canceled.
UpdateCanceled(u) ==
    /\ upd[u].phase = "pending"
    /\ upd[u].obj = "deleting" \/ (upd[u].obj = "live" /\ ws.state = "absent")
    /\ upd' = [upd EXCEPT ![u].phase = "failed"]
    /\ UpdateStep
    /\ UNCHANGED <<infra, left>>

\* A deletion waits for the finalizer, and bumps the generation.
DeletedUpdate(r) == [r EXCEPT !.obj  = IF r.fin THEN "deleting" ELSE "gone",
                              !.seen = (r.phase = "pending")]
MarkDeleted(u) == [upd EXCEPT ![u] = DeletedUpdate(upd[u])]

\* ttlAfterCompleted (24 hours, unless the updateTemplate says otherwise), or the
\* garbage collector once the Stack or the namespace is gone.
UpdateExpires(u) ==
    /\ upd[u].obj = "live"
    /\ \/ Complete(u) /\ (Ttl = "early" \/ (Ttl = "late" /\ stack.cur.name # u))
       \/ ~stack.exists \/ nsGone
    /\ upd' = MarkDeleted(u)
    /\ UpdateStep
    /\ UNCHANGED <<infra, left>>

\* kubectl delete update.
DeleteUpdate(u) ==
    /\ upd[u].obj = "live" /\ left.del > 0
    /\ left' = [left EXCEPT !.del = @ - 1]
    /\ upd' = MarkDeleted(u)
    /\ UpdateStep
    /\ UNCHANGED infra

\* Mutant: completions do not reach the queue.
SyncUpdateSilently(u) ==
    /\ ucache[u] # View(u)
    /\ ucache' = [ucache EXCEPT ![u] = View(u)]
    /\ UNCHANGED <<stackVars, cacheVars, queueVars, sessVars, wsVars, upd, names, worldVars,
                   aged, left>>

\* The Update informer catches up; updateCompletePredicate lets completions and
\* deletions through to the Stack's queue.
SyncUpdate(u) ==
    /\ ucache[u] # View(u)
    /\ ucache' = [ucache EXCEPT ![u] = View(u)]
    /\ queue' = (queue \/ View(u) # "incomplete")
    /\ UNCHANGED <<stackVars, cacheVars, timer, sessVars, wsVars, upd, names, worldVars,
                   aged, left>>

-----------------------------------------------------------------------------
(* Reconcile: how it ends, and the status write.                           *)

Finish == pc' = "idle" /\ inst' = NewStack /\ sess' = Idle

Stop  == Finish /\ UNCHANGED queueVars              \* wait for a watch event
Later == Finish /\ timer' = TRUE /\ UNCHANGED queue \* RequeueAfter
Retry == Finish /\ queue' = TRUE /\ UNCHANGED timer \* an error: rate-limited requeue

\* An API call fails for no reason of its own.
Fault == left.api > 0 /\ left' = [left EXCEPT !.api = @ - 1]

\* Continue at p with the local copy o and the local values s.
Goto(p, o, s) == pc' = p /\ inst' = o /\ sess' = s /\ UNCHANGED queueVars

\* Save the status of the local copy o; `after' is what follows.
Save(o, s, after) == Goto("save", o, [s EXCEPT !.after = after])

\* What follows a saveStatus.
Proceed(o, s) ==
    \/ s.after = "stop" /\ Stop
    \/ s.after = "later" /\ Later
    \/ s.after = "error" /\ Retry
    \/ s.after \notin {"stop", "later", "error"} /\ Goto(s.after, o, s)

\* The object p with the status of o.
WithStatus(p, o) == [p EXCEPT !.obsGen = o.obsGen, !.obsReq = o.obsReq, !.cond = o.cond,
                              !.last = o.last, !.cur = o.cur, !.info = o.info]

\* Removing the finalizer lets a deleted Update go; 0 stands for no Update.
ReleasedUpdate(r) == [r EXCEPT !.fin = FALSE,
                               !.obj = IF r.obj = "deleting" THEN "gone" ELSE r.obj]
Unfinalized(u) == IF u = 0 THEN upd ELSE [upd EXCEPT ![u] = ReleasedUpdate(upd[u])]

\* saveStatus: the apply replaces the whole status, and its response refreshes
\* the local copy; then the absorbed Update loses its finalizer, best effort.
\* An error ends the reconcile unless the caller ignores it.
SaveStatus ==
    /\ pc = "save"
    /\ \/ /\ stack.exists
          /\ stack' = WithStatus(stack, inst)
          /\ Proceed(stack', [sess EXCEPT !.rvOk = TRUE, !.toFin = 0])
          /\ \/ upd' = Unfinalized(sess.toFin) /\ UNCHANGED left
             \/ sess.toFin # 0 /\ Fault /\ UNCHANGED upd
       \/ /\ (~stack.exists /\ UNCHANGED left) \/ Fault
          /\ IF sess.after = "finalize" THEN Goto("finalize", inst, sess) ELSE Retry
          /\ UNCHANGED <<stack, upd>>
    /\ UNCHANGED <<finalSpecs, cacheVars, wsVars, ucache, names, worldVars, aged>>

-----------------------------------------------------------------------------
(* Reconcile: from the cached read to the decision.                        *)

\* Only the reconciler writes these fields.
SeesOwnWrites ==
    /\ cache.finalizer = stack.finalizer /\ cache.exists = stack.exists
    /\ WithStatus(cache, stack) = cache

\* Mutant: the early return ignores every deleted object.
ReconcilableUntilDeleted(o) == o.exists /\ ~o.deleting

\* Nothing to do without an object, or for a deleted one that holds no finalizer.
Reconcilable(o) == o.exists /\ (o.deleting => o.finalizer)

\* The cached read.
Start ==
    /\ pc = "idle" /\ queue
    /\ ReadYourWrites => SeesOwnWrites
    /\ queue' = FALSE
    /\ IF Reconcilable(cache)
       THEN /\ pc' = IF cache.finalizer THEN "decide" ELSE "addFinalizer"
            /\ inst' = [cache EXCEPT !.obsGen = cache.gen, !.obsReq = cache.req]
            /\ sess' = [Idle EXCEPT !.spec = cache.spec, !.marked = cache.deleting,
                                    !.req = cache.req, !.rvOk = (cache = stack)]
       ELSE UNCHANGED sessVars
    /\ UNCHANGED <<stackVars, cacheVars, timer, wsVars, updVars, worldVars, aged, left>>

\* An Update of the object conflicts, finds it gone, or fails for no such reason.
WriteFails ==
    /\ (~(sess.rvOk /\ stack.exists) /\ UNCHANGED left) \/ Fault
    /\ Retry
    /\ UNCHANGED stack

\* AddFinalizer and Update, guarded by the resourceVersion.
AddFinalizer ==
    /\ pc = "addFinalizer"
    /\ \/ /\ sess.rvOk /\ stack.exists
          /\ stack' = [stack EXCEPT !.finalizer = TRUE]
          /\ Goto("decide", [inst EXCEPT !.finalizer = TRUE], sess)
          /\ UNCHANGED left
       \/ WriteFails
    /\ UNCHANGED <<finalSpecs, cacheVars, wsVars, updVars, worldVars, aged>>

\* markStackFailed: the failure count starts at zero for a new generation or
\* request, and goes on from the previous update's otherwise.
MarkStackFailed(o, u) ==
    [o EXCEPT !.cur  = NilCurrent,
              !.last = [gen |-> o.cur.gen, req |-> o.cur.req, name |-> u,
                        type |-> upd[u].type, state |-> "failed",
                        tried |-> o.cur.commit, good |-> o.last.good,
                        failures |-> IF /\ o.last # NilLast
                                        /\ o.last.gen = o.cur.gen
                                        /\ o.last.req = o.cur.req
                                     THEN o.last.failures + 1 ELSE 0]]

\* markStackSucceeded.  Without a report the Stack keeps the project info it had.
MarkStackSucceeded(o, u) ==
    [o EXCEPT !.cur  = NilCurrent,
              !.info = @ \/ ReportsProjectInfo,
              !.last = [gen |-> o.cur.gen, req |-> o.cur.req, name |-> u,
                        type |-> upd[u].type, state |-> "succeeded",
                        tried |-> o.cur.commit, good |-> o.cur.commit, failures |-> 0]]

\* The local copy once the result of a complete update has been absorbed.
Absorbed(o) ==
    IF o.cur.name = 0 THEN o
    ELSE IF ucache[o.cur.name] = "failed" THEN MarkStackFailed(o, o.cur.name)
    ELSE MarkStackSucceeded(o, o.cur.name)

\* Mutant: an Update that is not in the cache counts as complete.
OutstandingIfCached(u) == u # 0 /\ ucache[u] = "incomplete"

\* The Update is still outstanding: not seen in the cache yet, or incomplete.
Outstanding(u) == u # 0 /\ ucache[u] \in {"absent", "incomplete"}

\* Mutant: the Update is forgotten while it is outstanding.
ForgetUpdate ==
    /\ pc = "decide"
    /\ Outstanding(inst.cur.name)
    /\ Save([inst EXCEPT !.cond = "reconciling", !.cur = NilCurrent], sess, "stop")
    /\ UNCHANGED <<stackVars, cacheVars, wsVars, updVars, worldVars, aged, left>>

\* An outstanding update: wait for its watch event.
WaitForUpdate ==
    /\ pc = "decide"
    /\ Outstanding(inst.cur.name)
    /\ Save([inst EXCEPT !.cond = "reconciling"], sess, "stop")
    /\ UNCHANGED <<stackVars, cacheVars, wsVars, updVars, worldVars, aged, left>>

\* A deleted Stack with nothing to clean up.
NothingToDestroy ==
    sess.marked /\ (sess.spec \notin DestroyOnFinalize \/ sess.spec \in Preview)

\* A read fails before anything is written: the Update, the Secret with its outputs
\* (one that is not found is no error), the source, a reference of the spec, or a
\* prerequisite.
ReadFails ==
    /\ pc = "decide"
    /\ inst.cur.name # 0 \/ ~NothingToDestroy
    /\ Fault
    /\ Retry
    /\ UNCHANGED <<stackVars, cacheVars, wsVars, updVars, worldVars, aged>>

\* shouldUseProjectInfoWorkspaceForDestroy.
UsesProjectInfo(o) ==
    /\ o.deleting /\ o.info
    /\ o.spec \in DestroyOnFinalize
    /\ o.spec \notin Preview /\ o.spec \notin RunProgram

\* The revision the source resolves to.
Resolved(o) == IF UsesProjectInfo(o) THEN NoCommit ELSE commit

\* Mutant: a successful update of any type counts as the destroy.
IsSyncedByAnyType(o, c, old) ==
    /\ o.last # NilLast /\ o.last.gen = o.gen /\ o.last.req = o.req
    /\ \/ o.last.state = "succeeded" /\ (o.deleting \/ o.last.good = c)
       \/ o.last.state = "failed" /\ o.last.tried = c /\ ~old

\* Mutant: failed updates are retried without limit.
IsSyncedWithoutLimit(o, c, old) ==
    /\ o.last # NilLast /\ o.last.gen = o.gen /\ o.last.req = o.req
    /\ \/ o.last.state = "succeeded" /\ IF o.deleting THEN o.last.type = "destroy" ELSE o.last.good = c
       \/ o.last.state = "failed" /\ o.last.tried = c /\ ~old

\* isSynced: no update is needed for the object o at the revision c, with its
\* last update `old' (past its cooldown or resync period) or not.
IsSynced(o, c, old) ==
    /\ o.last # NilLast
    /\ o.last.gen = o.gen
    /\ o.last.req = o.req
    /\ \/ /\ o.last.state = "succeeded"
          /\ IF o.deleting THEN o.last.type = "destroy"
             ELSE o.last.good = c /\ (o.spec \in Resync => ~old)
       \/ /\ o.last.state = "failed"
          /\ o.last.tried = c
          /\ o.last.failures >= MaxUpdateFailures \/ ~old

\* markStackResult.
StackResult(last) ==
    IF last.state = "succeeded" THEN "ready"
    ELSE IF last.failures >= MaxUpdateFailures THEN "stalled"
    ELSE "reconciling"

\* Mutant: a branch is not polled.
RequeuesWithoutPoll(o) ==
    \/ o.last.state = "failed" /\ o.last.failures < MaxUpdateFailures
    \/ o.last.state = "succeeded" /\ sess.spec \in Resync

\* Is another look at a synced Stack scheduled: a retry after the cooldown, a
\* resync, or a poll of the branch?
Requeues(o) ==
    \/ o.last.state = "failed" /\ o.last.failures < MaxUpdateFailures
    \/ o.last.state = "succeeded" /\ sess.spec \in Resync
    \/ sess.spec \in Polled

\* LastResyncTime is now if a result has just been absorbed.
Old == aged /\ inst.cur.name = 0

\* The first write of a reconcile with no outstanding update saves the copy d,
\* which differs from the absorbed one by its condition.
Decide(d, cond, after, c) ==
    /\ Save([d EXCEPT !.cond = cond],
            [sess EXCEPT !.toFin = inst.cur.name, !.commit = c], after)
    /\ aged' = Old
    /\ UNCHANGED <<stackVars, cacheVars, wsVars, updVars, worldVars, left>>

Decidable == pc = "decide" /\ ~Outstanding(inst.cur.name)

\* Early exit of a deletion that needs no destroy.
ReleaseWithoutDestroy ==
    /\ Decidable
    /\ NothingToDestroy
    /\ Decide(Absorbed(inst), "ready", "release", NoCommit)

\* The source is unavailable (retried on a timer), or the spec is rejected (waits
\* for another spec): before its source is read, for bad credentials or a bad URL,
\* or after it, by a StallError.
StallOnSource ==
    /\ Decidable
    /\ ~NothingToDestroy
    /\ LET d == Absorbed(inst)
       IN  \/ /\ Resolved(d) = Unavailable
              /\ Decide(d, "stalled", "later", NoCommit)
           \/ /\ sess.spec \in Invalid
              /\ Decide(d, "stalled", "stop", NoCommit)

Resolvable(d) ==
    /\ Decidable
    /\ ~NothingToDestroy
    /\ Resolved(d) # Unavailable /\ sess.spec \notin Invalid

\* Mutant: a failed destroy will do.
DestroyedOrFailed(d) == d.last.type = "destroy"

\* The destroy of a synced, deleted Stack succeeded.
Destroyed(d) == d.last.state = "succeeded"

\* No update is needed.  A deleted Stack is finalized only after a successful
\* destroy, and a failed destroy is looked at again later; a live Stack with
\* reclaim policy Delete gives up its workspace before the status is saved.
KeepSynced ==
    LET d == Absorbed(inst)
        again == IF Requeues(d) THEN "later" ELSE "stop"
    IN  /\ Resolvable(d)
        /\ IsSynced(d, Resolved(d), Old)
        /\ \/ /\ sess.marked /\ Destroyed(d)
              /\ Decide(d, StackResult(d.last), "finalize", NoCommit)
           \/ /\ sess.marked /\ ~Destroyed(d)
              /\ Decide(d, StackResult(d.last), "later", NoCommit)
           \/ /\ ~sess.marked
              /\ d.last.state = "failed" \/ d.spec \notin ReclaimDelete
              /\ Decide(d, StackResult(d.last), again, NoCommit)
           \/ /\ ~sess.marked
              /\ d.last.state = "succeeded" /\ d.spec \in ReclaimDelete
              /\ Goto("reclaim", [d EXCEPT !.cond = "ready"],
                      [sess EXCEPT !.toFin = inst.cur.name, !.after = again])
              /\ aged' = Old
              /\ UNCHANGED <<stackVars, cacheVars, wsVars, updVars, worldVars, left>>

\* A prerequisite is not satisfied; its watch will requeue this Stack.
AwaitPrereqs ==
    LET d == Absorbed(inst)
    IN  /\ Resolvable(d)
        /\ ~IsSynced(d, Resolved(d), Old)
        /\ d.spec \in HasPrereqs /\ ~prereqMet /\ ~sess.marked
        /\ Decide(d, "reconciling", "stop", NoCommit)

\* An update is needed: announce it and go on to the workspace.
BeginUpdate ==
    LET d == Absorbed(inst)
    IN  /\ Resolvable(d)
        /\ ~IsSynced(d, Resolved(d), Old)
        /\ d.spec \notin HasPrereqs \/ prereqMet \/ sess.marked
        /\ Decide(d, "reconciling", "apply", Resolved(d))

-----------------------------------------------------------------------------
(* Reconcile: the workspace, the Update, and finalization.                 *)

\* workspaceReclaimPolicy: the Update's finalizer goes, then the workspace, and
\* only then is the status saved.  Either call may fail.
ReclaimWorkspace ==
    /\ pc = "reclaim"
    /\ \/ /\ upd' = Unfinalized(sess.toFin)
          /\ ws' = [ws EXCEPT !.state = IF @ = "absent" THEN @ ELSE "deleting"]
          /\ Save(inst, [sess EXCEPT !.toFin = 0], sess.after)
          /\ UNCHANGED left
       \/ /\ Fault
          /\ upd' \in {upd, Unfinalized(sess.toFin)}
          /\ Retry
          /\ UNCHANGED ws
    /\ UNCHANGED <<stackVars, cacheVars, wsEvent, ucache, names, worldVars, aged>>

\* CreateWorkspace: a changed workspace is no longer ready, but the condition
\* that says it is stalled outlives the change.
Applied ==
    LET c == [spec |-> sess.spec, commit |-> sess.commit]
    IN  [content |-> c,
         state   |-> IF ws.state = "absent" \/ (ws.state = "ready" /\ ws.content # c)
                     THEN "pending" ELSE ws.state]

\* Mutant: an Update type the Stack controller never creates.
NextTypeRefresh == IF sess.marked THEN "destroy" ELSE "refresh"

\* The type of the Update to run.
NextType == IF sess.marked THEN "destroy"
            ELSE IF inst.spec \in Preview THEN "preview" ELSE "up"

\* Mutant: the finalizer is given up.
ReleaseInTerminatingNamespace == Goto("finalize", inst, sess)

\* The destroy cannot run in a terminating namespace: keep the finalizer.
StallInTerminatingNamespace == Save([inst EXCEPT !.cond = "stalled"], sess, "later")

\* Step 4, the workspace, and the planning half of step 5.
ApplyWorkspace ==
    /\ pc = "apply"
    /\ \/ /\ ~(nsGone /\ ws.state = "absent")
          /\ ws' = Applied
          /\ \/ /\ Applied.state = "ready" /\ names < MaxUpdates
                /\ names' = names + 1
                /\ Save([inst EXCEPT !.cond = "reconciling",
                                     !.cur = [gen |-> inst.gen, req |-> sess.req,
                                              name |-> names + 1, commit |-> sess.commit]],
                        [sess EXCEPT !.type = NextType], "create")
             \/ /\ Applied.state = "stalled"
                /\ IF sess.marked /\ inst.last = NilLast
                   THEN Goto("finalize", inst, sess)
                   ELSE Save([inst EXCEPT !.cond = "stalled"], sess, "stop")
                /\ UNCHANGED names
             \/ /\ Applied.state \in {"pending", "deleting"}
                /\ Stop
                /\ UNCHANGED names
          /\ UNCHANGED left
       \/ /\ (nsGone /\ ws.state = "absent" /\ UNCHANGED left) \/ Fault
          /\ IF sess.marked /\ nsGone /\ ws.state = "absent"
             THEN StallInTerminatingNamespace
             ELSE Retry
          /\ UNCHANGED <<ws, names>>
    /\ UNCHANGED <<stackVars, cacheVars, wsEvent, upd, ucache, worldVars, aged>>

\* Create the Update; on failure forget it and return the error.
CreateUpdate ==
    /\ pc = "create"
    /\ LET u == inst.cur.name
       IN  \/ /\ ~nsGone
              /\ upd' = [upd EXCEPT ![u] = [NoUpdate EXCEPT !.obj = "live", !.type = sess.type,
                                                            !.gen = inst.cur.gen, !.req = sess.req]]
              /\ Goto("addUpdateFinalizer", inst, sess)
              /\ UNCHANGED left
           \/ /\ (nsGone /\ UNCHANGED left) \/ Fault
              /\ Save([inst EXCEPT !.cur = NilCurrent], sess, "error")
              /\ UNCHANGED upd
    /\ UNCHANGED <<stackVars, cacheVars, wsVars, ucache, names, worldVars, aged>>

\* Mutant: the finalizer is not added.
Unheld(u) == upd

\* The Updates once u carries the Stack controller's finalizer.
Held(u) == [upd EXCEPT ![u].fin = TRUE]

\* addUpdateFinalizer; on failure delete the Update, if that works, and forget it.
AddUpdateFinalizer ==
    /\ pc = "addUpdateFinalizer"
    /\ LET u == inst.cur.name
       IN  \/ /\ upd[u].obj = "live"
              /\ upd' = Held(u)
              /\ Stop
              /\ UNCHANGED left
           \/ /\ (upd[u].obj # "live" /\ UNCHANGED left) \/ Fault
              /\ upd' \in {MarkDeleted(u), upd}
              /\ Save([inst EXCEPT !.cur = NilCurrent], sess, "error")
    /\ UNCHANGED <<stackVars, cacheVars, wsVars, ucache, names, worldVars, aged>>

\* RemoveFinalizer and Update, guarded by the resourceVersion: the object goes.
RemoveFinalizer ==
    /\ pc \in {"release", "finalize"}
    /\ \/ /\ sess.rvOk /\ stack.exists
          /\ stack' = [stack EXCEPT !.finalizer = FALSE, !.exists = FALSE]
          /\ Stop
          /\ UNCHANGED left
       \/ WriteFails
    /\ UNCHANGED <<finalSpecs, cacheVars, wsVars, updVars, worldVars, aged>>

\* The operator restarts: the running reconcile is lost, the caches are listed
\* afresh, and every Stack is queued.
Crash ==
    /\ left.crash > 0
    /\ left' = [left EXCEPT !.crash = @ - 1]
    /\ pc' = "idle" /\ inst' = NewStack /\ sess' = Idle
    /\ cache' = stack /\ event' = FALSE
    /\ ucache' = [u \in Updates |-> View(u)]
    /\ wsEvent' = FALSE
    /\ queue' = TRUE /\ timer' = FALSE
    /\ UNCHANGED <<stackVars, ws, upd, names, worldVars, aged>>

-----------------------------------------------------------------------------
User ==
    \/ \E s \in Specs : EditSpec(s)
    \/ RequestReconcile
    \/ DeleteStack \/ DeleteWorkspace
    \/ \E u \in Updates : DeleteUpdate(u)

World ==
    \/ SourceOutage \/ \E c \in Commits : NewRevision(c)
    \/ PrereqReady
    \/ TimePasses
    \/ WorkspaceReady \/ WorkspaceStalls \/ WorkspaceUnready \/ WorkspaceGone
    \/ \E u \in Updates : \/ UpdateStarts(u) \/ UpdateCanceled(u) \/ UpdateExpires(u)
                          \/ \E ok \in BOOLEAN : UpdateFinishes(u, ok)

Delivery ==
    \/ SyncCache \/ TimerFires \/ WorkspaceEvent
    \/ \E u \in Updates : SyncUpdate(u)

Reconcile ==
    \/ Start \/ AddFinalizer \/ WaitForUpdate \/ ReadFails
    \/ ReleaseWithoutDestroy \/ StallOnSource \/ KeepSynced \/ AwaitPrereqs \/ BeginUpdate
    \/ SaveStatus
    \/ ReclaimWorkspace \/ ApplyWorkspace \/ CreateUpdate \/ AddUpdateFinalizer
    \/ RemoveFinalizer

Next == User \/ World \/ Delivery \/ Reconcile \/ Crash

Spec == Init /\ [][Next]_vars

(* What the runtime guarantees: a reconcile that can go on does, events and  *)
(* timers are delivered, started runs end, workspaces become ready and       *)
(* sources come back.  Nothing is assumed of users, faults or crashes.       *)
Fairness ==
    /\ WF_vars(Reconcile)
    /\ WF_vars(SyncCache) /\ WF_vars(TimerFires) /\ WF_vars(WorkspaceEvent)
    /\ WF_vars(TimePasses) /\ WF_vars(PrereqReady)
    /\ WF_vars(ws.state = "pending" /\ WorkspaceReady) /\ WF_vars(WorkspaceGone)
    /\ WF_vars(\E u \in Updates : SyncUpdate(u))
    /\ WF_vars(\E u \in Updates : \/ UpdateStarts(u) \/ UpdateCanceled(u)
                                  \/ \E ok \in BOOLEAN : UpdateFinishes(u, ok))
    /\ WF_vars(\E u \in Updates : UpdateExpires(u))
    /\ WF_vars(commit = Unavailable /\ \E c \in Commits : NewRevision(c))

LiveSpec == Spec /\ Fairness
-----------------------------------------------------------------------------
(* Properties.                                                             *)

\* Every variable keeps its type: the object, the cached and the local copy are
\* Stack objects, and each remaining budget stays a natural number.
TypeOK ==
    /\ stack \in Objects /\ cache \in Objects /\ inst \in Objects
    /\ finalSpecs \subseteq Specs
    /\ event \in BOOLEAN /\ queue \in BOOLEAN /\ timer \in BOOLEAN /\ wsEvent \in BOOLEAN
    /\ pc \in {"idle", "addFinalizer", "decide", "save", "reclaim", "apply",
               "create", "addUpdateFinalizer", "release", "finalize"}
    /\ sess \in Sessions
    /\ ws \in [state : {"absent", "pending", "ready", "stalled", "deleting"}, content : Content]
    /\ upd \in [Updates -> UpdateObjects]
    /\ ucache \in [Updates -> {"absent", "incomplete", "succeeded", "failed"}]
    /\ names \in 0..MaxUpdates
    /\ commit \in Commits \union {Unavailable}
    /\ prereqMet \in BOOLEAN /\ nsGone \in BOOLEAN /\ aged \in BOOLEAN
    /\ infra \subseteq Content
    /\ left \in [api : Nat, crash : Nat, ws : Nat, run : Nat, src : Nat, del : Nat]

InFlight(u) == \/ upd[u].phase = "running"
               \/ upd[u].phase = "pending" /\ upd[u].obj \in {"live", "deleting"}

\* The outstanding-update check of Reconcile keeps a Stack to one Update in
\* flight: no second one is created before the first one's result is in.
NoOverlappingUpdates ==
    \A u, v \in Updates : InFlight(u) /\ InFlight(v) => u = v

\* A Stack with destroyOnFinalize loses its finalizer only after some destroy of
\* it succeeded, or when no update of it was ever recorded; whatever is stale,
\* fails or restarts on the way.
DestroyBeforeFinalize ==
    (~stack.exists /\ finalSpecs \subseteq DestroyOnFinalize \ Preview) =>
        \/ stack.last = NilLast
        \/ \E u \in Updates : upd[u].type = "destroy" /\ upd[u].phase = "succeeded"

\* Once such a Stack is gone, nothing its Updates deployed is left behind.
NoOrphanedResources ==
    (~stack.exists /\ finalSpecs \subseteq DestroyOnFinalize \ Preview) => infra = {}

\* An unchanged Stack that keeps failing is retried a bounded number of times:
\* the first attempt, and one more for each failure up to maxUpdateFailures.
\* Updates that were canceled before they ran anything may be of any revision.
RetryBudget ==
    \A u \in Updates : u > MaxUpdateFailures + 1 =>
        \E v \in (u - MaxUpdateFailures - 1)..u :
            \/ upd[v].phase # "failed" \/ upd[v].ran = NoContent
            \/ upd[v].gen # upd[u].gen \/ upd[v].req # upd[u].req
            \/ upd[v].ran # upd[u].ran

\* CurrentUpdate is given up only in exchange for the result: the same status
\* write that clears it records that Update as LastUpdate.
ResultAbsorbed ==
    [][stack.cur.name # 0 /\ stack'.cur.name # stack.cur.name
          => stack'.last.name = stack.cur.name]_vars

\* The finalizer the Stack controller puts on an Update keeps the object until
\* its result has been absorbed: it is never gone while the status names it,
\* except on the way out of the reconcile that created or released it.
UpdateHeldUntilAbsorbed ==
    \A u \in Updates :
        stack.exists /\ stack.cur.name = u /\ pc = "idle" => upd[u].obj # "gone"

\* A deleted Stack is eventually gone.
DeletionCompletes == stack.deleting ~> ~stack.exists

\* "an update is running and will requeue the stack once it completes": the
\* Update the status names is eventually absorbed.
CurrentUpdateAbsorbed ==
    \A u \in Updates : stack.cur.name = u ~> (stack.cur.name # u \/ ~stack.exists)

\* A Stack settles: once users and sources are quiet it is gone, or its status
\* has observed them and it is ready with the latest revision, or stalled.
Settles ==
    <>[](\/ ~stack.exists
         \/ /\ stack.obsGen = stack.gen /\ stack.obsReq = stack.req
            /\ stack.cond = "stalled" \/ (stack.cond = "ready" /\ stack.last.good = commit))

=============================================================================
