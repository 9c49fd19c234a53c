-------------------------------- MODULE Sources --------------------------------
(***************************************************************************)
(* How a change of a Stack's source reaches its workspace pod.  Composed   *)
(* of: the Program controller and its file server (program_controller.go,  *)
(* operator/cmd/main.go), or Flux's source controller, or a git remote;    *)
(* the watches on sources (stack_controller.go, flux.go); as much of the   *)
(* Stack, Workspace and Update controllers as deals with sources (the rest *)
(* is in modules of their own); and the init container of the pod          *)
(* (agent/cmd/init.go).                                                    *)
(*                                                                         *)
(* All Stacks use one source, of one kind.  Its revisions are numbered     *)
(* from 1: the generation of a Program, the artifact of a Flux source, the *)
(* commit of a git branch.  0 stands for none.                             *)
(***************************************************************************)
EXTENDS Naturals

CONSTANTS
    Stacks,
    MaxRev,        \* bound: revisions of the source
    PublishFaults, \* bound: status updates of the Program that fail
    WatchFaults,   \* bound: watches that cannot be started
    FetchFaults,   \* bound: checkouts that are cut short
    PodLosses      \* bound: pods that are evicted or replaced

ASSUME ConstantAssumption ==
    /\ MaxRev \in Nat \ {0}
    /\ PublishFaults \in Nat /\ WatchFaults \in Nat
    /\ FetchFaults \in Nat /\ PodLosses \in Nat

VARIABLES
    kind,      \* of the source: "program", "flux" or "git"
    rev,       \* its newest revision
    cached,    \* the Program's generation in the operator's informer cache
    program,   \* the Program controller: queued, and the generation it works on
    artifact,  \* the revision in status.artifact
    event,     \* an event that passes SourceRevisionChangePredicate is on its way
    watched,   \* the kind is in the map of watched kinds
    handlers,  \* how many handlers were installed for it
    st,        \* the Stacks and their reconciles
    ws,        \* their workspaces: the revision wanted, and the pod
    update,    \* their Updates
    left       \* what remains of each bounded kind of fault

sourceVars == <<rev, cached, program, artifact>>
watchVars  == <<event, watched, handlers>>
vars == <<kind, sourceVars, watchVars, st, ws, update, left>>

Kinds == {"program", "flux", "git"}
Rev   == 0..MaxRev

NewStack  == [queued |-> TRUE, timer |-> FALSE, pc |-> "idle", seen |-> 0, last |-> 0]
StackType == [queued : BOOLEAN, timer : BOOLEAN,
              pc : {"idle", "watch", "install", "read", "apply"}, seen : Rev, last : Rev]
NoWorkspace   == [want |-> 0, pod |-> "none", has |-> 0, cut |-> FALSE]
WorkspaceType == [want : Rev, pod : {"none", "fetching", "ready"}, has : Rev, cut : BOOLEAN]
NoUpdate   == [state |-> "none", commit |-> 0, ran |-> 0, cut |-> FALSE]
UpdateType == [state : {"none", "pending", "done"}, commit : Rev, ran : Rev, cut : BOOLEAN]

\* Every variable keeps its type: artifacts, pods and Updates carry revisions that
\* the source can have had.
TypeOK ==
    /\ kind \in Kinds
    /\ rev \in Rev /\ cached \in Rev /\ artifact \in Rev
    /\ program \in [queued : BOOLEAN, busy : Rev]
    /\ event \in BOOLEAN /\ watched \in BOOLEAN /\ handlers \in Nat
    /\ st \in [Stacks -> StackType]
    /\ ws \in [Stacks -> WorkspaceType]
    /\ update \in [Stacks -> UpdateType]
    /\ left \in [publish : Nat, watch : Nat, fetch : Nat, pod : Nat]

\* The Program watch is set up with the controller; Flux kinds are watched
\* when a Stack refers to one.
Init ==
    /\ kind \in Kinds
    /\ rev = 0 /\ cached = 0 /\ artifact = 0
    /\ program = [queued |-> FALSE, busy |-> 0]
    /\ event = FALSE /\ watched = FALSE
    /\ handlers = IF kind = "program" THEN 1 ELSE 0
    /\ st = [s \in Stacks |-> NewStack]
    /\ ws = [s \in Stacks |-> NoWorkspace]
    /\ update = [s \in Stacks |-> NoUpdate]
    /\ left = [publish |-> PublishFaults, watch |-> WatchFaults,
               fetch |-> FetchFaults, pod |-> PodLosses]

-----------------------------------------------------------------------------
(* The source.                                                             *)

\* A user creates or edits the Program, or pushes a commit.
EditSource ==
    /\ rev < MaxRev
    /\ rev' = rev + 1
    /\ UNCHANGED <<kind, cached, program, artifact, watchVars, st, ws, update, left>>

\* Mutant: the artifact gets the number of the next generation.
PublishNextGeneration(r) ==
    /\ artifact' = r + 1
    /\ event' = (event \/ (artifact # r + 1 /\ handlers > 0))

\* A new artifact: its event is seen if the kind is watched.
Publish(r) ==
    /\ artifact' = r
    /\ event' = (event \/ (artifact # r /\ handlers > 0))

\* Flux's source controller.
PublishFlux ==
    /\ kind = "flux" /\ artifact # rev
    /\ Publish(rev)
    /\ UNCHANGED <<kind, rev, cached, program, watched, handlers, st, ws, update, left>>

\* The informer catches up: a new generation passes the event filter.
SyncProgram ==
    /\ kind = "program" /\ cached # rev
    /\ cached' = rev
    /\ program' = [program EXCEPT !.queued = TRUE]
    /\ UNCHANGED <<kind, rev, artifact, watchVars, st, ws, update, left>>

\* ProgramReconciler.Reconcile: the Program is read from the cache, ...
ReconcileProgram ==
    /\ program.queued /\ program.busy = 0
    /\ program' = [queued |-> FALSE, busy |-> cached]
    /\ UNCHANGED <<kind, rev, cached, artifact, watchVars, st, ws, update, left>>

\* ... and the artifact made of it is put in its status, ...
PublishProgram ==
    /\ program.busy # 0
    /\ Publish(program.busy)
    /\ program' = [program EXCEPT !.busy = 0]
    /\ UNCHANGED <<kind, rev, cached, watched, handlers, st, ws, update, left>>

\* ... or the patch fails and is tried again.
PublishFails ==
    /\ program.busy # 0 /\ left.publish > 0
    /\ left' = [left EXCEPT !.publish = @ - 1]
    /\ program' = [queued |-> TRUE, busy |-> 0]
    /\ UNCHANGED <<kind, rev, cached, artifact, watchVars, st, ws, update>>

\* Mutant: only Stacks that never ran are queued.
SourceEventForNewStacks ==
    /\ event
    /\ event' = FALSE
    /\ st' = [s \in Stacks |-> [st[s] EXCEPT !.queued = @ \/ st[s].last = 0]]
    /\ UNCHANGED <<kind, sourceVars, watched, handlers, ws, update, left>>

\* enqueueStacksForSourceFunc: every Stack that refers to the source.
SourceEvent ==
    /\ event
    /\ event' = FALSE
    /\ st' = [s \in Stacks |-> [st[s] EXCEPT !.queued = TRUE]]
    /\ UNCHANGED <<kind, sourceVars, watched, handlers, ws, update, left>>

-----------------------------------------------------------------------------
(* The Stack controller.                                                   *)

Goto(s, pc) == st' = [st EXCEPT ![s].pc = pc]

\* The reconcile ends, maybe with a RequeueAfter.
Stop(s, requeue) == st' = [st EXCEPT ![s].pc = "idle", ![s].seen = 0,
                                     ![s].timer = @ \/ requeue]

\* An outstanding Update is waited for; one that is complete is absorbed.
BeginReconcile(s) ==
    /\ st[s].queued /\ st[s].pc = "idle"
    /\ IF update[s].state = "pending"
         THEN st' = [st EXCEPT ![s].queued = FALSE] /\ UNCHANGED update
         ELSE /\ st' = [st EXCEPT ![s].queued = FALSE, ![s].timer = FALSE, ![s].pc = "watch",
                         ![s].last = IF update[s].state = "done" THEN update[s].commit ELSE @]
              /\ update' = [update EXCEPT ![s] = NoUpdate]
    /\ UNCHANGED <<kind, sourceVars, watchVars, ws, left>>

\* Mutant: the kind is not marked before its watch is started.
MaybeWatchUnmarked(s) ==
    /\ st[s].pc = "watch"
    /\ Goto(s, IF kind = "flux" /\ ~watched THEN "install" ELSE "read")
    /\ UNCHANGED <<kind, sourceVars, watchVars, ws, update, left>>

\* maybeWatchFluxSourceKind: the map is looked at and marked under its lock, ...
MaybeWatch(s) ==
    /\ st[s].pc = "watch"
    /\ IF kind = "flux" /\ ~watched
         THEN watched' = TRUE /\ Goto(s, "install")
         ELSE UNCHANGED watched /\ Goto(s, "read")
    /\ UNCHANGED <<kind, sourceVars, event, handlers, ws, update, left>>

\* ... and the watch started without it; its first list comes as events.
InstallWatch(s) ==
    /\ st[s].pc = "install"
    /\ handlers' = handlers + 1
    /\ event' = (event \/ artifact # 0)
    /\ Goto(s, "read")
    /\ UNCHANGED <<kind, sourceVars, watched, ws, update, left>>

\* The mark is taken back, and the Stack stalls.
InstallWatchFails(s) ==
    /\ st[s].pc = "install" /\ left.watch > 0
    /\ left' = [left EXCEPT !.watch = @ - 1]
    /\ watched' = FALSE
    /\ Stop(s, FALSE)
    /\ UNCHANGED <<kind, sourceVars, event, handlers, ws, update>>

\* The revision that the Stack sees: the artifact, or the head of the branch
\* as the remote lists it.
CurrentCommit == IF kind = "git" THEN rev ELSE artifact

\* The source is read: it is missing (try again later), the last update was of
\* this revision (a branch is polled), or the workspace has to get it.
ReadSource(s) ==
    /\ st[s].pc = "read"
    /\ IF CurrentCommit \in {0, st[s].last}
         THEN Stop(s, CurrentCommit = 0 \/ kind = "git")
         ELSE st' = [st EXCEPT ![s].pc = "apply", ![s].seen = CurrentCommit]
    /\ UNCHANGED <<kind, sourceVars, watchVars, ws, update, left>>

\* Mutant: the commit is read again when the Update is created.
ApplyWorkspaceCommitReread(s) ==
    /\ st[s].pc = "apply"
    /\ IF ws[s].want # st[s].seen
         THEN /\ ws' = [ws EXCEPT ![s] = [NoWorkspace EXCEPT !.want = st[s].seen,
                                                             !.pod = "fetching"]]
              /\ UNCHANGED update
         ELSE /\ update' = IF ws[s].pod = "ready"
                             THEN [update EXCEPT ![s].state = "pending",
                                                  ![s].commit = CurrentCommit]
                             ELSE update
              /\ UNCHANGED ws
    /\ Stop(s, FALSE)
    /\ UNCHANGED <<kind, sourceVars, watchVars, left>>

\* The workspace is applied.  Another revision makes for another pod, to be
\* waited for; in one that is ready, an Update for the revision is created.
ApplyWorkspace(s) ==
    /\ st[s].pc = "apply"
    /\ IF ws[s].want # st[s].seen
         THEN /\ ws' = [ws EXCEPT ![s] = [NoWorkspace EXCEPT !.want = st[s].seen,
                                                             !.pod = "fetching"]]
              /\ UNCHANGED update
         ELSE /\ update' = IF ws[s].pod = "ready"
                             THEN [update EXCEPT ![s].state = "pending",
                                                  ![s].commit = st[s].seen]
                             ELSE update
              /\ UNCHANGED ws
    /\ Stop(s, FALSE)
    /\ UNCHANGED <<kind, sourceVars, watchVars, left>>

TimerFires(s) ==
    /\ st[s].timer
    /\ st' = [st EXCEPT ![s].timer = FALSE, ![s].queued = TRUE]
    /\ UNCHANGED <<kind, sourceVars, watchVars, ws, update, left>>

-----------------------------------------------------------------------------
(* The pod and the Update.                                                 *)

\* HandleProgramServing serves the generation that the cache has, and no
\* other.  Flux serves its newest artifact.  A commit can always be fetched.
Served(r) ==
    CASE kind = "program" -> cached = r
      [] kind = "flux"    -> artifact = r
      [] kind = "git"     -> TRUE

PodReady(s, r) ==
    /\ ws' = [ws EXCEPT ![s].pod = "ready", ![s].has = r]
    /\ st' = [st EXCEPT ![s].queued = TRUE]
    /\ UNCHANGED <<kind, sourceVars, watchVars, update>>

\* runInit: the artifact with its digest, or a clone at the revision.
Fetch(s) ==
    /\ ws[s].pod = "fetching" /\ ~ws[s].cut /\ Served(ws[s].want)
    /\ PodReady(s, ws[s].want)
    /\ UNCHANGED left

\* The clone is cut short before the revision is checked out, and the init
\* container starts again on the same volume, ...
FetchCutShort(s) ==
    /\ kind = "git" /\ ws[s].pod = "fetching" /\ ~ws[s].cut /\ left.fetch > 0
    /\ left' = [left EXCEPT !.fetch = @ - 1]
    /\ ws' = [ws EXCEPT ![s].cut = TRUE]
    /\ UNCHANGED <<kind, sourceVars, watchVars, st, update>>

\* Mutant: an existing repository is an error, again and again.
FetchRefusesClone(s) ==
    /\ ws[s].pod = "fetching" /\ ws[s].cut
    /\ UNCHANGED vars

\* ... where it finds a repository, and takes it as it is.
FetchFoundClone(s) ==
    /\ ws[s].pod = "fetching" /\ ws[s].cut
    /\ PodReady(s, 0)
    /\ UNCHANGED left

PodLost(s) ==
    /\ ws[s].pod = "ready" /\ left.pod > 0
    /\ left' = [left EXCEPT !.pod = @ - 1]
    /\ ws' = [ws EXCEPT ![s].pod = "fetching", ![s].has = 0, ![s].cut = FALSE]
    /\ UNCHANGED <<kind, sourceVars, watchVars, st, update>>

\* The Update runs once the workspace is ready, and its completion is an event.
RunUpdate(s) ==
    /\ update[s].state = "pending" /\ ws[s].pod = "ready"
    /\ update' = [update EXCEPT ![s].state = "done", ![s].ran = ws[s].has,
                               ![s].cut = ws[s].cut]
    /\ st' = [st EXCEPT ![s].queued = TRUE]
    /\ UNCHANGED <<kind, sourceVars, watchVars, ws, left>>

-----------------------------------------------------------------------------
SourceStep == PublishFlux \/ SyncProgram \/ ReconcileProgram \/ PublishProgram \/ SourceEvent
StackStep(s) ==
    \/ BeginReconcile(s) \/ MaybeWatch(s) \/ InstallWatch(s) \/ ReadSource(s)
    \/ ApplyWorkspace(s) \/ TimerFires(s)
PodStep(s) == Fetch(s) \/ FetchFoundClone(s) \/ RunUpdate(s)

Next ==
    \/ EditSource \/ SourceStep \/ PublishFails
    \/ \E s \in Stacks :
         \/ StackStep(s) \/ PodStep(s)
         \/ InstallWatchFails(s) \/ FetchCutShort(s) \/ PodLost(s)

Spec == Init /\ [][Next]_vars

\* Controllers, informers, timers and the kubelet make progress; no fault and
\* no edit has to happen.
LiveSpec ==
    /\ Spec
    /\ WF_vars(SyncProgram) /\ WF_vars(ReconcileProgram) /\ WF_vars(PublishProgram)
    /\ WF_vars(PublishFlux) /\ WF_vars(SourceEvent)
    /\ \A s \in Stacks :
         /\ WF_vars(StackStep(s)) /\ WF_vars(TimerFires(s))
         /\ WF_vars(Fetch(s) \/ FetchFoundClone(s)) /\ WF_vars(RunUpdate(s))

-----------------------------------------------------------------------------
(* Properties.                                                             *)

(* The commit that a Stack reports for an update is the one that ran in its *)
(* pod, whatever the source did meanwhile, unless a clone was cut short     *)
(* (stack_controller.go: currentCommit; init.go: runInit;                   *)
(* program_controller.go: getProjectFile).                                  *)
RanAsNamed ==
    \A s \in Stacks : update[s].state = "done" => update[s].ran = update[s].commit \/ update[s].cut

(* At most one handler is installed for a kind, however many Stacks name it *)
(* at once (stack_controller.go: maybeWatchFluxSourceKind).                 *)
OneHandler == handlers <= 1

Latest == \A s \in Stacks : st[s].last = rev

(* Every Stack ends up with the newest revision, if no watch fails to start *)
(* and no pod is lost (flux.go: SourceRevisionChangePredicate;              *)
(* program_controller.go: Reconcile; the pod's fetch and its retries).      *)
FollowsSource ==
    [](left.watch = WatchFaults /\ left.pod = PodLosses) => <>[](rev = 0 \/ Latest)

(* An Update that was created completes and requeues its Stack, also when   *)
(* its pod is lost, or waits for a revision that its source does not serve  *)
(* any longer (stack_controller.go, Step 6; init.go: runInit;               *)
(* program_controller.go: HandleProgramServing).                            *)
UpdateCompletes ==
    \A s \in Stacks : update[s].state = "pending" ~>
        \/ update[s].state # "pending"
        \/ ws[s].pod = "fetching" /\ ~Served(ws[s].want)

=============================================================================
