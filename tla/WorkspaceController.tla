-------------------------- MODULE WorkspaceController --------------------------
(***************************************************************************)
(* The Workspace reconciler: WorkspaceReconciler.Reconcile, in             *)
(* operator/internal/controller/auto/workspace_controller.go, for one      *)
(* Workspace.                                                              *)
(*                                                                         *)
(* It applies a StatefulSet of one pod and, once that pod is available,    *)
(* installs the program's packages in it, selects and configures the       *)
(* stacks, and marks the pod as initialized.  The Workspace and the pod    *)
(* are read from caches that may lag; the StatefulSet is what the response *)
(* to its apply says.  Every status write refreshes the local copy of the  *)
(* Workspace, its spec and generation included.  A generation stands for   *)
(* the spec it carries.                                                    *)
(***************************************************************************)
EXTENDS Integers

CONSTANTS
    NoProgram,      \* generations with projectInfo: nothing to install
    JsonConfig,     \* generations with JSON configuration, which an old CLI lacks
    Legacy,         \* the StatefulSet is one of an older operator, to be replaced
    InvalidTemplate, \* generations whose pod template the API server refuses
    AllowDeletion,  \* may the Workspace be deleted?
    MaxGen,         \* bound: generations, that of a deletion included
    Faults,         \* bound: failing calls to the API server or the agent, and
                    \* restarts of the operator, together
    PodLosses       \* bound: pods lost for reasons of their own

ASSUME ConstantAssumption ==
    /\ MaxGen \in Nat /\ NoProgram \subseteq Nat /\ JsonConfig \subseteq Nat
    /\ InvalidTemplate \subseteq Nat
    /\ Legacy \in BOOLEAN /\ AllowDeletion \in BOOLEAN
    /\ Faults \in Nat /\ PodLosses \in Nat

VARIABLES
    obj,      \* the Workspace object at the API server
    cache,    \* the object in the informer cache
    queue,    \* its key is in the work queue
    timer,    \* a RequeueAfter is pending
    pc,       \* where the running reconcile is; "idle" when none runs
    inst,     \* its local copy of the object
    sess,     \* its other local values
    ss,       \* the StatefulSet
    ssEvent,  \* an event of it that passes statefulSetReadyPredicate is on its way
    pod,      \* the pod, with the history of what was done in it
    podCache, \* the pod in the informer cache
    left      \* what remains of each bounded kind of disturbance

cacheVars == <<cache, queue, timer>>
sessVars  == <<pc, inst, sess>>
podVars   == <<ss, ssEvent, pod>>
vars == <<obj, cacheVars, sessVars, podVars, podCache, left>>

-----------------------------------------------------------------------------
(* Objects.                                                                *)

Statuses == [obsGen : Nat, ready : {"Unknown", "True", "False"}, stalled : BOOLEAN]
Objects == [exists : BOOLEAN, gen : Nat, deleting : BOOLEAN, status : Statuses]
NewWorkspace == [exists |-> TRUE, gen |-> 1, deleting |-> FALSE,
                 status |-> [obsGen |-> 0, ready |-> "Unknown", stalled |-> FALSE]]

\* The generation whose pod template was applied, the ones behind UpdateRevision
\* and CurrentRevision, and whether AvailableReplicas is positive.
StatefulSets == [template : Nat, update : Nat, current : Nat, available : BOOLEAN,
                 legacy : BOOLEAN]
NewStatefulSet == [template |-> 0, update |-> 0, current |-> 0, available |-> FALSE,
                   legacy |-> FALSE]

\* The pod, of which generation's template, whether it is annotated as
\* initialized, whether packages were installed in it, and the generation whose
\* stacks were configured in it last.
Pods == [state : {"none", "starting", "up"}, rev : Nat, annotated : BOOLEAN,
         installed : BOOLEAN, configured : Nat]
NoPod == [state |-> "none", rev |-> 0, annotated |-> FALSE, installed |-> FALSE,
          configured |-> 0]

\* What a reader of the pod sees.
Seen(p) == [found |-> p.state # "none", rev |-> p.rev, annotated |-> p.annotated]
SeenPods == [found : BOOLEAN, rev : Nat, annotated : BOOLEAN]

\* The local values of a reconcile: what follows the next updateStatus, and
\* whether the pod it read is annotated.
Idle == [next |-> "stop", annotated |-> FALSE]
Sessions == [next : {"stop", "later", "error", "install", "initialize"},
             annotated : BOOLEAN]

Init ==
    /\ obj = NewWorkspace /\ cache = NewWorkspace
    /\ queue = TRUE /\ timer = FALSE
    /\ pc = "idle" /\ inst = NewWorkspace /\ sess = Idle
    /\ ss = [NewStatefulSet EXCEPT !.legacy = Legacy] /\ ssEvent = FALSE
    /\ pod = NoPod /\ podCache = Seen(NoPod)
    /\ left = [fault |-> Faults, pod |-> PodLosses]

\* isWorkspaceReady, as the Stack and the Update controller ask it.
IsWorkspaceReady ==
    /\ obj.exists /\ ~obj.deleting
    /\ obj.gen = obj.status.obsGen
    /\ obj.status.ready = "True"

\* isStatefulSetReady.
IsStatefulSetReady(s) == s.template = s.update /\ s.update = s.current /\ s.available

\* Mutant: only a StatefulSet that stops being ready is reported.
StatefulSetEventOnLoss == IsStatefulSetReady(ss) /\ ~IsStatefulSetReady(ss')

\* statefulSetReadyPredicate.
StatefulSetEvent == IsStatefulSetReady(ss) # IsStatefulSetReady(ss')

-----------------------------------------------------------------------------
(* The rest of the cluster.                                                *)

WorldStep == UNCHANGED <<timer, sessVars>>

\* The Stack controller, or a user, changes the spec.
EditSpec ==
    /\ obj.exists /\ ~obj.deleting /\ obj.gen < MaxGen
    /\ obj' = [obj EXCEPT !.gen = @ + 1]
    /\ WorldStep
    /\ UNCHANGED <<cache, queue, podVars, podCache, left>>

\* Deletion in the foreground: the object goes once its dependents are gone.
DeleteWorkspace ==
    /\ AllowDeletion
    /\ obj.exists /\ ~obj.deleting /\ obj.gen < MaxGen
    /\ obj' = [obj EXCEPT !.deleting = TRUE, !.gen = @ + 1]
    /\ WorldStep
    /\ UNCHANGED <<cache, queue, podVars, podCache, left>>

WorkspaceGone ==
    /\ obj.exists /\ obj.deleting
    /\ obj' = [obj EXCEPT !.exists = FALSE]
    /\ WorldStep
    /\ UNCHANGED <<cache, queue, podVars, podCache, left>>

\* The informer catches up; GenerationChangedPredicate drops status changes.
SyncCache ==
    /\ cache # obj
    /\ cache' = obj
    /\ queue' = (queue \/ cache.gen # obj.gen \/ ~obj.exists)
    /\ WorldStep
    /\ UNCHANGED <<obj, podVars, podCache, left>>

SyncPod ==
    /\ podCache # Seen(pod)
    /\ podCache' = Seen(pod)
    /\ WorldStep
    /\ UNCHANGED <<obj, cache, queue, podVars, left>>

SyncStatefulSet ==
    /\ ssEvent
    /\ ssEvent' = FALSE /\ queue' = TRUE
    /\ WorldStep
    /\ UNCHANGED <<obj, cache, ss, pod, podCache, left>>

TimerFires ==
    /\ timer
    /\ timer' = FALSE /\ queue' = TRUE
    /\ UNCHANGED <<obj, cache, sessVars, podVars, podCache, left>>

StatefulSetStep ==
    /\ ssEvent' = (ssEvent \/ StatefulSetEvent)
    /\ WorldStep
    /\ UNCHANGED <<obj, cache, queue, podCache>>

\* The StatefulSet controller sees a new template and takes the old pod down.
Roll ==
    /\ ss.template # ss.update
    /\ ss' = [ss EXCEPT !.update = ss.template, !.available = FALSE]
    /\ pod' = NoPod
    /\ StatefulSetStep
    /\ UNCHANGED left

\* It creates the pod that is missing.
Recreate ==
    /\ pod.state = "none" /\ ss.update > 0 /\ ss.template = ss.update
    /\ ss' = [ss EXCEPT !.available = FALSE]
    /\ pod' = [NoPod EXCEPT !.state = "starting", !.rev = ss.update]
    /\ StatefulSetStep
    /\ UNCHANGED left

\* The source is fetched and the agent serves.
PodStarts ==
    /\ pod.state = "starting"
    /\ pod' = [pod EXCEPT !.state = "up"]
    /\ ss' = [ss EXCEPT !.current = ss.update, !.available = TRUE]
    /\ StatefulSetStep
    /\ UNCHANGED left

\* The pod is evicted, or its node is lost.
PodLost ==
    /\ pod.state = "up" /\ left.pod > 0
    /\ pod' = NoPod
    /\ left' = [left EXCEPT !.pod = @ - 1]
    /\ UNCHANGED ss
    /\ StatefulSetStep

-----------------------------------------------------------------------------
(* Reconcile: how it ends, and the status write.                           *)

Fault == left.fault > 0 /\ left' = [left EXCEPT !.fault = @ - 1]

\* The reconcile ends: it waits for an event, or for a timer, or is retried.
Finish(how) ==
    /\ pc' = "idle" /\ inst' = NewWorkspace /\ sess' = Idle
    /\ timer' = (timer \/ how = "later")
    /\ queue' = (queue \/ how = "error")
    /\ UNCHANGED cache

Goto(p, o, s) == pc' = p /\ inst' = o /\ sess' = s /\ UNCHANGED cacheVars

\* Mutant: a reason is written where the condition's status belongs.
ReportReason(ready, stalled, next) ==
    Goto("status", [inst EXCEPT !.status.ready = IF stalled THEN "InstallationFailed" ELSE ready,
                                !.status.stalled = stalled],
         [sess EXCEPT !.next = next])

\* Report a condition, and go on with `next' once it is written.
Report(ready, stalled, next) ==
    Goto("status", [inst EXCEPT !.status.ready = ready, !.status.stalled = stalled],
         [sess EXCEPT !.next = next])

\* updateStatus: the response refreshes the local copy.
UpdateStatus ==
    /\ pc = "status"
    /\ \/ /\ obj.exists
          /\ obj' = [obj EXCEPT !.status = [inst.status EXCEPT !.obsGen = inst.gen]]
          /\ IF sess.next \in {"install", "initialize"}
             THEN Goto(sess.next, obj', sess)
             ELSE Finish(sess.next)
          /\ UNCHANGED left
       \/ /\ (~obj.exists /\ UNCHANGED left) \/ Fault
          /\ Finish("error")
          /\ UNCHANGED obj
    /\ UNCHANGED <<podVars, podCache>>

-----------------------------------------------------------------------------
(* Reconcile.                                                              *)

\* The cached read.
Start ==
    /\ pc = "idle" /\ queue
    /\ queue' = FALSE
    /\ IF cache.exists
       THEN IF cache.deleting
            THEN /\ pc' = "status" /\ sess' = Idle
                 /\ inst' = [cache EXCEPT !.status.ready = "False"]
            ELSE pc' = "apply" /\ inst' = cache /\ sess' = Idle
       ELSE UNCHANGED sessVars
    /\ UNCHANGED <<obj, cache, timer, podVars, podCache, left>>

\* The hash of the source contains the generation: each has a hash of its own.
SourceHash(o) == o.gen

\* The StatefulSet for a Workspace: its pod template carries the hash.
StatefulSetFor(o) == [ss EXCEPT !.template = SourceHash(o)]

\* The API server answers Invalid: an immutable field of a legacy StatefulSet
\* would change, or the pod template is no good.
IsInvalid(o) == ss.legacy \/ o.gen \in InvalidTemplate

\* There is a StatefulSet.
SomeStatefulSet == ss.legacy \/ ss.template > 0

\* Apply the Service and the StatefulSet.  Whatever makes the answer Invalid, the
\* StatefulSet is deleted, its pod with it, to be created again: where there is
\* none, the deletion fails.  The predicate drops the event of a deletion.
ApplyStatefulSet ==
    /\ pc = "apply"
    /\ \/ /\ ~IsInvalid(inst)
          /\ ss' = StatefulSetFor(inst)
          /\ ssEvent' = (ssEvent \/ StatefulSetEvent)
          /\ IF IsStatefulSetReady(ss') THEN Goto("pod", inst, sess)
             ELSE Report("False", inst.status.stalled, "stop")
          /\ UNCHANGED <<pod, left>>
       \/ /\ IsInvalid(inst)
          /\ ss' = NewStatefulSet /\ pod' = NoPod
          /\ Finish(IF SomeStatefulSet THEN "later" ELSE "error")
          /\ UNCHANGED <<ssEvent, left>>
       \/ /\ Fault
          /\ Finish("error")
          /\ UNCHANGED <<ss, ssEvent, pod>>
    /\ UNCHANGED <<obj, podCache>>

\* Mutant: the revision of the cached pod is not compared.
AnyPod == podCache.found

\* The cached pod is there, and is one of the StatefulSet's current revision.
PodIsCurrent == podCache.found /\ podCache.rev = ss.current

\* Read the pod; a stale cache is tried again.
ReadPod ==
    /\ pc = "pod"
    /\ IF PodIsCurrent
       THEN Goto("connect", inst, [sess EXCEPT !.annotated = podCache.annotated])
       ELSE Finish("error")
    /\ UNCHANGED <<obj, podVars, podCache, left>>

\* A request to the agent, in whichever pod is there now.
Reached == pod.state = "up" /\ UNCHANGED left
Unreached == (pod.state # "up" /\ UNCHANGED left) \/ Fault

\* Connect.  A pod that is initialized makes the workspace ready; otherwise an
\* earlier Stalled condition is cleared.
Connect ==
    /\ pc = "connect"
    /\ \/ /\ Reached
          /\ IF sess.annotated
             THEN Report("True", inst.status.stalled, "stop")
             ELSE Goto("version", [inst EXCEPT !.status.stalled = FALSE], sess)
       \/ Unreached /\ Report("False", inst.status.stalled, "later")
    /\ UNCHANGED <<obj, podVars, podCache>>

\* Query the version of the Pulumi CLI, which may be too old for JSON configuration.
QueryVersion ==
    /\ pc = "version"
    /\ \/ /\ Reached
          /\ \/ Report("False", FALSE, IF inst.gen \in NoProgram THEN "initialize"
                                         ELSE "install")
             \/ inst.gen \in JsonConfig /\ Report("False", TRUE, "stop")
       \/ Unreached /\ Report("False", FALSE, "error")
    /\ UNCHANGED <<obj, podVars, podCache>>

\* pulumi install.
Install ==
    /\ pc = "install"
    /\ \/ /\ Reached
          /\ pod' = [pod EXCEPT !.installed = TRUE]
          /\ Report("False", inst.status.stalled, "initialize")
       \/ /\ Unreached
          /\ Report("False", TRUE, "stop")
          /\ UNCHANGED pod
    /\ UNCHANGED <<obj, ss, ssEvent, podCache>>

\* SelectStack, SetAllConfig and AddEnvironments, for the stacks of the local copy.
InitializeStacks ==
    /\ pc = "initialize"
    /\ \/ /\ Reached
          /\ pod' = [pod EXCEPT !.configured = inst.gen]
          /\ Goto("annotate", inst, sess)
       \/ /\ Unreached
          /\ Report("False", TRUE, "stop")
          /\ UNCHANGED pod
    /\ UNCHANGED <<obj, ss, ssEvent, podCache>>

\* Mark the pod of that name as initialized; the workspace is ready.
MarkInitialized ==
    /\ pc = "annotate"
    /\ \/ /\ pod.state # "none"
          /\ pod' = [pod EXCEPT !.annotated = TRUE]
          /\ Report("True", inst.status.stalled, "stop")
          /\ UNCHANGED left
       \/ /\ (pod.state = "none" /\ UNCHANGED left) \/ Fault
          /\ Finish("error")
          /\ UNCHANGED pod
    /\ UNCHANGED <<obj, ss, ssEvent, podCache>>

\* The operator restarts, with fresh caches and every Workspace in the queue.
Crash ==
    /\ Fault
    /\ pc' = "idle" /\ inst' = NewWorkspace /\ sess' = Idle
    /\ cache' = obj /\ podCache' = Seen(pod)
    /\ queue' = TRUE /\ timer' = FALSE /\ ssEvent' = FALSE
    /\ UNCHANGED <<obj, ss, pod>>

-----------------------------------------------------------------------------
World ==
    \/ EditSpec \/ DeleteWorkspace \/ WorkspaceGone
    \/ SyncCache \/ SyncPod \/ SyncStatefulSet \/ TimerFires
    \/ Roll \/ Recreate \/ PodStarts \/ PodLost

Reconcile ==
    \/ Start \/ ApplyStatefulSet \/ ReadPod \/ Connect \/ QueryVersion \/ Install
    \/ InitializeStacks \/ MarkInitialized \/ UpdateStatus

Next == World \/ Reconcile \/ Crash

Spec == Init /\ [][Next]_vars

(* A reconcile that can go on does, informers and timers deliver, and the    *)
(* StatefulSet controller and the kubelet do their work.  Nothing is assumed *)
(* of edits, faults, lost pods and restarts.                                 *)
Fairness ==
    /\ WF_vars(Reconcile)
    /\ WF_vars(SyncCache) /\ WF_vars(SyncPod) /\ WF_vars(SyncStatefulSet)
    /\ WF_vars(TimerFires)
    /\ WF_vars(Roll) /\ WF_vars(Recreate) /\ WF_vars(PodStarts) /\ WF_vars(WorkspaceGone)

LiveSpec == Spec /\ Fairness

-----------------------------------------------------------------------------
(* Properties.                                                             *)

\* Every variable keeps its type: the three copies are Workspace objects, and
\* each remaining budget stays a natural number.
TypeOK ==
    /\ obj \in Objects /\ cache \in Objects /\ inst \in Objects
    /\ queue \in BOOLEAN /\ timer \in BOOLEAN /\ ssEvent \in BOOLEAN
    /\ pc \in {"idle", "apply", "pod", "connect", "version", "install", "initialize",
               "annotate", "status"}
    /\ sess \in Sessions
    /\ ss \in StatefulSets
    /\ pod \in Pods /\ podCache \in SeenPods
    /\ left \in [fault : Nat, pod : Nat]

\* The pod was built, installed and configured for generation g.
PreparedFor(g) ==
    /\ pod.state = "up" /\ pod.rev = g
    /\ pod.installed \/ g \in NoProgram
    /\ pod.configured = g

\* Nothing is under way that could still correct the status.
AtRest == /\ pc = "idle" /\ ~queue /\ ~timer /\ ~ssEvent
          /\ cache = obj
          /\ pod.state = "up" /\ ss.template = ss.update

\* Whatever was edited, failed or restarted on the way, a Workspace that is left
\* as ready has a pod of its current generation; and, unless a pod was lost, one
\* that was prepared for it.
ReadyAtRest ==
    (IsWorkspaceReady /\ AtRest) =>
        /\ pod.rev = obj.gen
        /\ (left.pod = PodLosses) => PreparedFor(obj.gen)

\* A Workspace settles: it is gone, or its status has observed the current
\* generation and says that it is ready, or that it is stalled.  A pod template
\* that the API server refuses for good never settles.
Settles ==
    <>[](\/ ~obj.exists \/ obj.gen \in InvalidTemplate
         \/ /\ obj.status.obsGen = obj.gen
            /\ obj.status.ready = "True" \/ obj.status.stalled)
=============================================================================
