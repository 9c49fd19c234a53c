--------------------------- MODULE UpdateController ---------------------------
(***************************************************************************)
(* The Update reconciler: UpdateReconciler.Reconcile and its helpers, in   *)
(* operator/internal/controller/auto/update_controller.go, for one Update. *)
(*                                                                         *)
(* The object lives at the API server (`obj') and is read from an informer *)
(* cache (`cache').  Status writes are server-side applies: they never     *)
(* conflict, and their response refreshes the local copy (`inst').  One    *)
(* action is one stretch of Reconcile between two calls it makes to the    *)
(* API server or to the agent in the workspace pod.                        *)
(***************************************************************************)
EXTENDS Integers

CONSTANTS
    HasFinalizer,       \* the Stack controller's finalizer is on the Update
    HasTtl, Ttl,        \* ttlAfterCompleted
    FirstWorkspace,     \* the states that the Workspace may start in
    ReadYourWrites,     \* does a reconcile start only once the cache holds
                        \* the reconciler's own earlier writes?
    BegunUnanswered,    \* may the agent have begun an operation whose request
                        \* the reconcile sees fail?  A set of answers
    StreamErrors,       \* the errors that a stream may break with: one with a
                        \* gRPC status, or a "plain" one
    MaxTime,            \* bound: the clock
    ApiFaults,          \* bound: API calls that fail
    AgentFaults,        \* bound: connections, requests and streams that fail
    WorkspaceFaults,    \* bound: workspaces lost or deleted
    Deletions,          \* bound: deletions by a user
    Crashes             \* bound: operator restarts

WorkspaceStates == {"absent", "pending", "ready", "deleting"}

ASSUME ConstantAssumption ==
    /\ HasFinalizer \in BOOLEAN /\ HasTtl \in BOOLEAN /\ ReadYourWrites \in BOOLEAN
    /\ FirstWorkspace \subseteq WorkspaceStates
    /\ BegunUnanswered \subseteq BOOLEAN /\ StreamErrors \subseteq {"status", "plain"}
    /\ Ttl \in Nat /\ MaxTime \in Nat /\ ApiFaults \in Nat /\ AgentFaults \in Nat
    /\ WorkspaceFaults \in Nat /\ Deletions \in Nat /\ Crashes \in Nat

VARIABLES
    obj,     \* the Update object at the API server
    cache,   \* the object in the informer cache
    queue,   \* its key is in the work queue
    timer,   \* a RequeueAfter is pending
    pc,      \* where the running reconcile is; "idle" when none runs
    inst,    \* its local copy of the object
    sess,    \* its other local values
    active,  \* the key is in activeReconciles
    ws,      \* the Workspace object
    wsEvent, \* an event of it that passes workspaceReadyPredicate is on its way
    run,     \* history: the Pulumi operation in the workspace pod
    runs,    \* history: how often it was started
    clock,
    left     \* what remains of each bounded kind of disturbance

cacheVars == <<cache, queue, timer>>
sessVars  == <<pc, inst, sess, active>>
wsVars    == <<ws, wsEvent>>
runVars   == <<run, runs>>
vars == <<obj, cacheVars, sessVars, wsVars, runVars, clock, left>>

-----------------------------------------------------------------------------
(* The object, and its status as newReconcileSession finds it.             *)

Truth == {"Unknown", "True", "False"}

\* `since' is the LastTransitionTime of the Complete condition.
Statuses == [obsGen : Nat, progressing : Truth, failed : Truth, complete : Truth, since : Nat]
NoStatus == [obsGen |-> 0, progressing |-> "Unknown", failed |-> "Unknown",
             complete |-> "Unknown", since |-> 0]

Objects == [exists : BOOLEAN, gen : Nat, deleting : BOOLEAN, finalizer : BOOLEAN,
            owned : BOOLEAN, status : Statuses]
NewUpdate == [exists |-> TRUE, gen |-> 1, deleting |-> FALSE, finalizer |-> HasFinalizer,
              owned |-> TRUE, status |-> NoStatus]

\* The local values of a reconcile: whether the session's conditions point into
\* the object, the result to report, and how the reconcile ends.
Idle == [aliased |-> FALSE, result |-> "none", next |-> "stop"]
Sessions == [aliased : BOOLEAN, result : {"none", "succeeded", "failed"},
             next : {"stop", "later", "error"}]

\* "completed" as the Stack controller computes it.
Completed == obj.status.complete = "True" /\ obj.status.obsGen = obj.gen

Init ==
    /\ obj = NewUpdate /\ cache = NewUpdate
    /\ queue = TRUE /\ timer = FALSE
    /\ pc = "idle" /\ inst = NewUpdate /\ sess = Idle /\ active = FALSE
    /\ ws \in FirstWorkspace /\ wsEvent = FALSE
    /\ run = "none" /\ runs = 0
    /\ clock = 0
    /\ left = [api |-> ApiFaults, agent |-> AgentFaults, ws |-> WorkspaceFaults,
               del |-> Deletions, crash |-> Crashes]

-----------------------------------------------------------------------------
(* The rest of the cluster.                                                *)

Tick ==
    /\ clock < MaxTime
    /\ clock' = clock + 1
    /\ UNCHANGED <<obj, cacheVars, sessVars, wsVars, runVars, left>>

\* A deletion bumps the generation, and waits for the finalizer.
Deleted(o) == IF o.deleting THEN o
              ELSE [o EXCEPT !.deleting = TRUE, !.gen = @ + 1, !.exists = o.finalizer]

\* kubectl delete update.
DeleteUpdate ==
    /\ obj.exists /\ ~obj.deleting /\ left.del > 0
    /\ obj' = Deleted(obj)
    /\ left' = [left EXCEPT !.del = @ - 1]
    /\ UNCHANGED <<cacheVars, sessVars, wsVars, runVars, clock>>

\* The Stack controller has absorbed the result and removes its finalizer.
Absorb ==
    /\ obj.exists /\ obj.finalizer /\ Completed
    /\ obj' = [obj EXCEPT !.finalizer = FALSE, !.exists = ~obj.deleting]
    /\ UNCHANGED <<cacheVars, sessVars, wsVars, runVars, clock, left>>

\* The informer catches up.  A change of the generation or of the owners, a
\* completion or a disappearance passes the predicates.
SyncCache ==
    /\ cache # obj
    /\ cache' = obj
    /\ queue' = \/ queue
                \/ obj.gen # cache.gen \/ obj.owned # cache.owned \/ ~obj.exists
                \/ obj.status.complete = "True" /\ cache.status.complete # "True"
    /\ UNCHANGED <<obj, timer, sessVars, wsVars, runVars, clock, left>>

TimerFires ==
    /\ timer
    /\ timer' = FALSE /\ queue' = TRUE
    /\ UNCHANGED <<obj, cache, sessVars, wsVars, runVars, clock, left>>

SetWorkspace(s) ==
    /\ ws' = s
    /\ UNCHANGED <<cacheVars, sessVars, runVars, clock>>

WorkspaceReady ==
    /\ ws = "pending"
    /\ SetWorkspace("ready")
    /\ wsEvent' = TRUE
    /\ UNCHANGED <<obj, left>>

\* The pod is lost, or the workspace is changed.
WorkspaceUnready ==
    /\ ws = "ready" /\ left.ws > 0
    /\ SetWorkspace("pending")
    /\ left' = [left EXCEPT !.ws = @ - 1]
    /\ UNCHANGED <<obj, wsEvent>>

DeleteWorkspace ==
    /\ ws \in {"pending", "ready"} /\ left.ws > 0
    /\ SetWorkspace("deleting")
    /\ left' = [left EXCEPT !.ws = @ - 1]
    /\ UNCHANGED <<obj, wsEvent>>

WorkspaceGone ==
    /\ ws = "deleting"
    /\ SetWorkspace("absent")
    /\ wsEvent' = TRUE
    /\ UNCHANGED <<obj, left>>

\* The garbage collector drops the reference to a workspace that is gone; the
\* Update stays, since the Stack owns it too.
Orphan ==
    /\ ws = "absent" /\ obj.exists /\ obj.owned
    /\ obj' = [obj EXCEPT !.owned = FALSE]
    /\ UNCHANGED <<cacheVars, sessVars, wsVars, runVars, clock, left>>

\* mapWorkspaceToUpdate: only incomplete Updates are indexed, and one that is
\* being reconciled is skipped.
MapWorkspaceToUpdate ==
    /\ wsEvent
    /\ wsEvent' = FALSE
    /\ queue' = (queue \/ (cache.exists /\ cache.status.complete # "True" /\ ~active))
    /\ UNCHANGED <<obj, cache, timer, sessVars, ws, runVars, clock, left>>

\* The Pulumi operation ends, whether or not anyone still listens.
RunEnds ==
    /\ run = "running"
    /\ run' \in {"succeeded", "failed"}
    /\ UNCHANGED <<obj, cacheVars, sessVars, wsVars, runs, clock, left>>

-----------------------------------------------------------------------------
(* Reconcile: how it ends, and the status write.                           *)

Fault(kind) == left[kind] > 0 /\ left' = [left EXCEPT ![kind] = @ - 1]

End == pc' = "idle" /\ inst' = NewUpdate /\ sess' = Idle /\ active' = FALSE

\* Mutant: an error is not retried.
FinishWithoutRetry(how) ==
    /\ End
    /\ timer' = (timer \/ how = "later")
    /\ UNCHANGED <<cache, queue>>

\* The reconcile ends: it waits for an event, or for a timer, or is retried.
Finish(how) ==
    /\ End
    /\ timer' = (timer \/ how = "later")
    /\ queue' = (queue \/ how = "error")
    /\ UNCHANGED cache

Goto(p, s) == pc' = p /\ sess' = s /\ UNCHANGED <<inst, active, cacheVars>>

\* Mutant: a reason is written where the condition's status belongs.
NewStatusFromReason(p, f, c) ==
    [obsGen |-> inst.gen, progressing |-> IF p = "False" THEN "Failed" ELSE p,
     failed |-> f, complete |-> c, since |-> inst.status.since]

\* The status after meta.SetStatusCondition on the three conditions.  It takes
\* the transition time from a change of the status, which it cannot see when the
\* session's conditions are those of the object.
NewStatus(p, f, c) ==
    [obsGen |-> inst.gen, progressing |-> p, failed |-> f, complete |-> c,
     since |-> IF sess.aliased \/ inst.status.complete = c THEN inst.status.since ELSE clock]

\* updateStatus succeeds.
Write(p, f, c) ==
    /\ obj.exists
    /\ obj' = [obj EXCEPT !.status = NewStatus(p, f, c)]
    /\ UNCHANGED left

\* It fails: the object is gone, or for no reason of its own.
WriteFails ==
    /\ (~obj.exists /\ UNCHANGED left) \/ Fault("api")
    /\ UNCHANGED obj

-----------------------------------------------------------------------------
(* Reconcile.                                                              *)

SeesOwnWrites == cache.status = obj.status /\ cache.exists = obj.exists

\* The cached read; from here on the key is in activeReconciles.
Start ==
    /\ pc = "idle" /\ queue
    /\ ReadYourWrites => SeesOwnWrites
    /\ queue' = FALSE
    /\ IF cache.exists
       THEN /\ pc' = "begun" /\ inst' = cache
            /\ sess' = [Idle EXCEPT !.aliased = (cache.status # NoStatus)]
            /\ active' = TRUE
       ELSE UNCHANGED sessVars
    /\ UNCHANGED <<obj, cache, timer, wsVars, runVars, clock, left>>

\* A complete Update is deleted when its time to live is over, and kept until then.
Complete ==
    /\ pc = "begun" /\ inst.status.complete = "True"
    /\ \/ /\ inst.deleting \/ ~HasTtl
          /\ Finish("stop")
          /\ UNCHANGED <<obj, left>>
       \/ /\ ~inst.deleting /\ HasTtl
          /\ clock < inst.status.since + Ttl
          /\ Finish("later")
          /\ UNCHANGED <<obj, left>>
       \/ /\ ~inst.deleting /\ HasTtl
          /\ clock >= inst.status.since + Ttl
          /\ \/ /\ obj.exists
                /\ obj' = Deleted(obj)
                /\ Finish("stop")
                /\ UNCHANGED left
             \/ /\ WriteFails
                /\ Finish("error")
    /\ UNCHANGED <<wsVars, runVars, clock>>

\* Mutant: no guard against retrying an incomplete update.
MustFailUnguarded == inst.deleting \/ ~inst.owned

\* An incomplete one is given up if an earlier reconcile left it progressing
\* (Aborted), if it is being deleted, or if it was orphaned (Canceled).
MustFail ==
    inst.status.progressing = "True" \/ inst.deleting \/ ~inst.owned

MarkFailed ==
    /\ pc = "begun" /\ inst.status.complete # "True"
    /\ MustFail
    /\ \/ Write("False", "True", "True") /\ Finish("stop")
       \/ WriteFails /\ Finish("error")
    /\ UNCHANGED <<wsVars, runVars, clock>>

\* Otherwise it is marked as progressing before anything is run.
MarkProgressing ==
    /\ pc = "begun" /\ inst.status.complete # "True"
    /\ ~MustFail
    /\ \/ /\ Write("True", "False", "False")
          /\ pc' = "started" /\ inst' = obj'
          /\ UNCHANGED <<sess, active, cacheVars>>
       \/ WriteFails /\ Finish("error")
    /\ UNCHANGED <<wsVars, runVars, clock>>

\* The workspace is missing or not ready: the watch will bring the Update back.
\* The connection fails: a timer will.
Unreachable ==
    /\ pc = "started"
    /\ \/ /\ ws # "ready"
          /\ Goto("backoff", [sess EXCEPT !.next = "stop"])
          /\ UNCHANGED left
       \/ /\ ws = "ready" /\ Fault("agent")
          /\ Goto("backoff", [sess EXCEPT !.next = "later"])
    /\ UNCHANGED <<obj, wsVars, runVars, clock>>

\* The agent may have begun the operation although its request failed.  A gRPC
\* client does not see this: opening a server stream fails only if the request
\* was never sent, and what the agent itself answers comes from the stream.
MayHaveBegun ==
    \E begun \in BegunUnanswered :
        /\ run' = IF begun THEN "running" ELSE run
        /\ runs' = IF begun THEN runs + 1 ELSE runs

\* A request fails.  retryUnreachable puts the Update back if the operation's
\* request could not be made (Unavailable); any other error of it, any error of
\* SelectStack, and a failed read of the workspace are returned with the Update
\* still marked as progressing.
RequestFailed ==
    /\ pc = "started"
    /\ \/ /\ ws = "ready" /\ Fault("agent")
          /\ MayHaveBegun
          /\ \/ Goto("backoff", [sess EXCEPT !.next = "error"])
             \/ Finish("error")
       \/ /\ Fault("api") /\ Finish("error")
          /\ UNCHANGED runVars
    /\ UNCHANGED <<obj, wsVars, clock>>

\* The Update is no longer progressing and will be tried again.
BackOff ==
    /\ pc = "backoff"
    /\ \/ Write("False", "False", "False") /\ Finish(sess.next)
       \/ WriteFails /\ Finish("error")
    /\ UNCHANGED <<wsVars, runVars, clock>>

\* Connect, SelectStack, and the operation's own request: the operation starts.
RunStarts ==
    /\ pc = "started" /\ ws = "ready"
    /\ run' = "running" /\ runs' = runs + 1
    /\ Goto("running", sess)
    /\ UNCHANGED <<obj, wsVars, clock, left>>

\* The stream yields the result.
ReceiveResult ==
    /\ pc = "running" /\ run \in {"succeeded", "failed"}
    /\ Goto("report", [sess EXCEPT !.result = run, !.next = "stop"])
    /\ UNCHANGED <<obj, wsVars, runVars, clock, left>>

\* Mutant: the failed condition is not set from the error.
StreamBreaksUnnoticed ==
    /\ pc = "running"
    /\ Fault("agent")
    /\ Goto("report", [sess EXCEPT !.next = "error"])
    /\ UNCHANGED <<obj, wsVars, runVars, clock>>

\* The stream breaks, which counts as a failure, or ends without a result, which
\* leaves the Update progressing.  An error without a gRPC status leaves the
\* failed condition as it is; those of a gRPC stream all have one.
StreamBreaks ==
    /\ pc = "running"
    /\ Fault("agent")
    /\ \/ \E e \in StreamErrors :
             Goto("report", [sess EXCEPT !.result = IF e = "status" THEN "failed" ELSE @,
                                         !.next = "error"])
       \/ Finish("error")
    /\ UNCHANGED <<obj, wsVars, runVars, clock>>

\* The outputs go to a Secret and the outcome to the status; either write may fail.
Report ==
    /\ pc = "report"
    /\ \/ /\ Write("False", IF sess.result = "failed" THEN "True" ELSE "False", "True")
          /\ Finish(sess.next)
       \/ WriteFails /\ Finish("error")
    /\ UNCHANGED <<wsVars, runVars, clock>>

\* The operator restarts, with fresh caches and every Update in the queue.
Crash ==
    /\ Fault("crash")
    /\ End
    /\ cache' = obj /\ queue' = TRUE /\ timer' = FALSE
    /\ wsEvent' = FALSE
    /\ UNCHANGED <<obj, ws, runVars, clock>>

-----------------------------------------------------------------------------
World ==
    \/ Tick \/ DeleteUpdate \/ Absorb \/ RunEnds
    \/ WorkspaceReady \/ WorkspaceUnready \/ DeleteWorkspace \/ WorkspaceGone \/ Orphan
    \/ SyncCache \/ TimerFires \/ MapWorkspaceToUpdate

Reconcile ==
    \/ Start \/ Complete \/ MarkFailed \/ MarkProgressing
    \/ Unreachable \/ RequestFailed \/ BackOff
    \/ RunStarts \/ ReceiveResult \/ StreamBreaks \/ Report

Next == World \/ Reconcile \/ Crash

Spec == Init /\ [][Next]_vars

(* A reconcile that can go on does, events and timers are delivered, pods   *)
(* become ready and operations end.  Nothing is assumed of faults.          *)
Fairness ==
    /\ WF_vars(Reconcile)
    /\ WF_vars(SyncCache) /\ WF_vars(TimerFires) /\ WF_vars(MapWorkspaceToUpdate)
    /\ WF_vars(WorkspaceReady) /\ WF_vars(WorkspaceGone) /\ WF_vars(Orphan)
    /\ WF_vars(RunEnds)

LiveSpec == Spec /\ Fairness

-----------------------------------------------------------------------------
(* Properties.                                                             *)

\* Every variable keeps its type: the three copies are Update objects, and each
\* remaining budget stays a natural number.
TypeOK ==
    /\ obj \in Objects /\ cache \in Objects /\ inst \in Objects
    /\ queue \in BOOLEAN /\ timer \in BOOLEAN /\ active \in BOOLEAN /\ wsEvent \in BOOLEAN
    /\ pc \in {"idle", "begun", "started", "backoff", "running", "report"}
    /\ sess \in Sessions
    /\ ws \in WorkspaceStates
    /\ run \in {"none", "running", "succeeded", "failed"} /\ runs \in Nat
    /\ clock \in Nat
    /\ left \in [api : Nat, agent : Nat, ws : Nat, del : Nat, crash : Nat]

\* What the conditions of the object say.
Phase ==
    IF ~obj.exists THEN "gone"
    ELSE IF obj.status.complete = "True"
         THEN IF obj.status.failed = "True" THEN "failed" ELSE "succeeded"
    ELSE IF obj.status.progressing = "True" THEN "progressing" ELSE "pending"

Lifecycle == INSTANCE UpdateLifecycle WITH phase <- Phase, starts <- runs

\* The Update controller implements the life cycle of an Update: whatever fails,
\* restarts or is deleted, the operation is started at most once, success is only
\* reported of an operation that was started, and the outcome is final.
LifecycleImplemented == Lifecycle!Spec

\* An Update reported as successful did succeed: no fault, restart or early
\* deletion turns an operation that failed or is still running into a success.
SuccessIsReal == Phase = "succeeded" => run = "succeeded"

\* With a workspace that stays ready, every Update is eventually complete, in the
\* eyes of the Stack controller too, whatever calls fail and however often the
\* operator restarts ("an update is running and will requeue the stack once it
\* completes"); or it was deleted while it was being run, and its outcome stays at
\* the generation before the deletion, which Reconcile never revises.  Without a
\* workspace that stays ready, the event that it is ready again may be dropped
\* (mapWorkspaceToUpdate).
Completes ==
    [](ws = "ready") =>
        <>(\/ ~obj.exists
           \/ Completed
           \/ obj.deleting /\ obj.status.complete = "True")

=============================================================================
