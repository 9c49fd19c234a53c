---------------------- MODULE WorkspaceController_proofs ----------------------
(***************************************************************************)
(* Proofs about the Workspace reconciler, for any number of generations,   *)
(* faults, restarts and lost pods: it keeps its types, and a Workspace     *)
(* that it leaves as ready has the pod that it says it has.                *)
(***************************************************************************)
EXTENDS WorkspaceController, TLAPS

-----------------------------------------------------------------------------
(* The inductive invariant.                                                *)

\* Generations only pass on: from the object to the cache, to the reconcile that
\* applies it, to the StatefulSet's template and to its revision.
Passed ==
    /\ ss.update <= ss.template /\ ss.template <= cache.gen /\ cache.gen <= obj.gen
    /\ inst.gen <= obj.gen /\ 1 <= obj.gen
    /\ pc = "apply" => ss.template <= inst.gen /\ inst.gen <= cache.gen
    /\ ss.legacy => ss.template = 0
    /\ ss.template > 0 => ss.template \notin InvalidTemplate
    /\ cache.deleting => obj.deleting
    /\ ~cache.exists => ~obj.exists

\* A template that is not the cached one is about to be replaced.
Owed ==
    /\ pc = "apply" => queue \/ inst.gen = cache.gen
    /\ \/ queue \/ timer \/ pc = "apply"
       \/ cache.deleting \/ ~cache.exists
       \/ cache.gen = ss.template

\* A pod is one of the StatefulSet's revision, and the cached one is no newer:
\* if it is one of a StatefulSet that was deleted, it is older than the next one.
OfRevision ==
    /\ pod.state # "none" => pod.rev = ss.update /\ ss.update > 0
    /\ podCache.found => podCache.rev > 0 /\ (ss.update > 0 => podCache.rev <= ss.update)
    /\ podCache.found /\ ss.update = 0 =>
           /\ podCache.rev < cache.gen
           /\ pc = "apply" => podCache.rev < inst.gen
           /\ ss.template > 0 => podCache.rev < ss.template

\* While no pod was lost each revision has one pod: a cached pod of the current
\* revision is the one that is there, and an available one is up.
OnePod ==
    /\ podCache.found /\ podCache.rev = ss.update =>
           pod.state # "none" /\ (podCache.annotated => pod.annotated)
    /\ ss.available => pod.state = "up"

\* The reconcile has gone past isStatefulSetReady.
Past == \/ pc \in {"pod", "connect", "version", "install", "initialize", "annotate"}
        \/ pc = "status" /\ (sess.next \in {"install", "initialize"} \/ inst.status.ready = "True")

Installed == pod.installed \/ ss.update \in NoProgram

\* What a reconcile relies on at each of its steps still holds.
Relied ==
    /\ Past => /\ ss.template = ss.update /\ ss.current = ss.update /\ pod.state = "up"
               /\ inst.gen >= ss.update
    /\ pc \in {"pod", "connect", "version"} => inst.gen = ss.template
    /\ pc = "connect" /\ sess.annotated => pod.annotated
    /\ pc = "status" /\ inst.status.ready = "True" => pod.annotated
    /\ (pc = "status" /\ sess.next = "initialize") \/ pc \in {"initialize", "annotate"} => Installed
    /\ pc = "annotate" => pod.configured >= ss.update
    /\ pc = "status" /\ sess.next \in {"install", "initialize"} => inst.status.ready = "False"
    /\ pc \in {"install", "initialize", "annotate"} => obj.status.ready = "False"

\* A pod that is marked as initialized was.
Marked ==
    /\ pod.annotated => /\ pod.state # "none" /\ Installed
                        /\ pod.configured >= ss.update
    /\ pod.configured <= obj.gen

\* A Workspace that is not ready any more is about to be reported so.
Reported ==
    obj.status.ready = "True" =>
        \/ ~obj.exists
        \/ pod.annotated /\ pod.state = "up" /\ ss.template = ss.update
        \/ queue \/ timer
        \/ pc \in {"apply", "pod", "connect", "version"}
        \/ pc = "status" /\ inst.status.ready # "True"

NoneLost == left.pod = PodLosses

RestInv ==
    /\ TypeOK /\ Passed /\ Owed /\ OfRevision
    /\ left.pod <= PodLosses
    /\ NoneLost => OnePod /\ Relied /\ Marked /\ Reported

-----------------------------------------------------------------------------
(* Type correctness.                                                       *)

Budgets == [fault : Nat, pod : Nat]

Steps == {"idle", "apply", "pod", "connect", "version", "install", "initialize",
          "annotate", "status"}

LEMMA NewTypes ==
    /\ NewWorkspace \in Objects /\ Idle \in Sessions
    /\ NewStatefulSet \in StatefulSets /\ NoPod \in Pods
BY DEF NewWorkspace, Objects, Statuses, Idle, Sessions, NewStatefulSet, StatefulSets, NoPod, Pods

LEMMA InitType == Init => TypeOK
<1> SUFFICES ASSUME Init PROVE TypeOK
  OBVIOUS
<1>1. left \in Budgets
  BY ConstantAssumption DEF Init, Budgets
<1>2. ss \in StatefulSets
  BY ConstantAssumption DEF Init, NewStatefulSet, StatefulSets
<1>3. podCache \in SeenPods
  BY DEF Init, Seen, NoPod, SeenPods
<1> QED
  BY <1>1, <1>2, <1>3, NewTypes DEF Init, TypeOK, Budgets

LEMMA FaultType ==
    ASSUME TypeOK, Fault \/ UNCHANGED left
    PROVE  left' \in Budgets /\ left'.pod = left.pod
BY DEF TypeOK, Fault, Budgets

LEMMA FinishType ==
    ASSUME TypeOK, NEW how, Finish(how)
    PROVE  /\ pc' = "idle" /\ inst' \in Objects /\ sess' \in Sessions
           /\ timer' \in BOOLEAN /\ queue' \in BOOLEAN /\ cache' \in Objects
BY NewTypes DEF TypeOK, Finish

\* A report changes the condition of the local copy, and what follows.
LEMMA ReportType ==
    ASSUME TypeOK, NEW ready \in {"True", "False"}, NEW stalled \in BOOLEAN,
           NEW next \in {"stop", "later", "error", "install", "initialize"},
           Report(ready, stalled, next)
    PROVE  /\ pc' = "status" /\ inst' \in Objects /\ sess' \in Sessions
           /\ inst'.gen = inst.gen /\ inst'.status.ready = ready /\ sess'.next = next
           /\ UNCHANGED cacheVars
BY DEF TypeOK, Report, Goto, Objects, Statuses, Sessions

LEMMA SeenType == TypeOK => Seen(pod) \in SeenPods
<1> SUFFICES ASSUME TypeOK PROVE Seen(pod) \in SeenPods
  OBVIOUS
<1>1. (pod.state # "none") \in BOOLEAN
  OBVIOUS
<1>2. pod.rev \in Nat /\ pod.annotated \in BOOLEAN
  BY DEF TypeOK, Pods
<1> QED
  BY <1>1, <1>2 DEF Seen, SeenPods

LEMMA StalledType == TypeOK => inst.status.stalled \in BOOLEAN
BY DEF TypeOK, Objects, Statuses

LEMMA TypeStep == TypeOK /\ [Next]_vars => TypeOK'
<1> SUFFICES ASSUME TypeOK, [Next]_vars PROVE TypeOK'
  OBVIOUS
<1> USE DEF WorldStep, cacheVars, sessVars, podVars
<1>1. CASE UNCHANGED vars
  BY <1>1 DEF vars, TypeOK
<1>2. CASE EditSpec \/ DeleteWorkspace \/ WorkspaceGone
  <2>1. obj.gen + 1 \in Nat
    BY DEF TypeOK, Objects
  <2>2. obj' \in Objects
    <3>1. CASE EditSpec
      BY <2>1, <3>1 DEF EditSpec, TypeOK, Objects
    <3>2. CASE DeleteWorkspace
      BY <2>1, <3>2 DEF DeleteWorkspace, TypeOK, Objects
    <3>3. CASE WorkspaceGone
      BY <3>3 DEF WorkspaceGone, TypeOK, Objects
    <3> QED
      BY <1>2, <3>1, <3>2, <3>3
  <2> QED
    BY <1>2, <2>2 DEF EditSpec, DeleteWorkspace, WorkspaceGone, TypeOK
<1>3. CASE SyncCache
  BY <1>3 DEF SyncCache, TypeOK
<1>4. CASE SyncPod
  BY <1>4, SeenType DEF SyncPod, TypeOK
<1>5. CASE SyncStatefulSet \/ TimerFires
  BY <1>5 DEF SyncStatefulSet, TimerFires, TypeOK
<1>6. CASE Roll \/ Recreate \/ PodStarts
  <2>1. ss' \in StatefulSets
    BY <1>6 DEF Roll, Recreate, PodStarts, TypeOK, StatefulSets
  <2>0. pod' \in Pods
    <3>1. CASE Roll
      BY <3>1, NewTypes DEF Roll
    <3>2. CASE Recreate
      BY <3>2 DEF Recreate, TypeOK, StatefulSets, Pods, NoPod
    <3>3. CASE PodStarts
      BY <3>3 DEF PodStarts, TypeOK, Pods
    <3> QED
      BY <1>6, <3>1, <3>2, <3>3
  <2>2. ssEvent' \in BOOLEAN
    BY <1>6 DEF Roll, Recreate, PodStarts, StatefulSetStep, StatefulSetEvent, TypeOK
  <2> QED
    BY <1>6, <2>0, <2>1, <2>2 DEF Roll, Recreate, PodStarts, StatefulSetStep, TypeOK
<1>7. CASE PodLost
  <2>1. left' \in Budgets
    BY <1>7 DEF PodLost, TypeOK, Budgets
  <2> QED
    BY <1>7, <2>1, NewTypes DEF PodLost, StatefulSetStep, StatefulSetEvent, TypeOK, Budgets
<1>8. CASE Start
  <2>1. inst' \in Objects
    BY <1>8 DEF Start, TypeOK, Objects, Statuses
  <2> QED
    BY <1>8, <2>1, NewTypes DEF Start, TypeOK
<1>9. CASE ApplyStatefulSet
  <2>1. left' \in Budgets
    BY <1>9, FaultType DEF ApplyStatefulSet
  <2>2. ss' \in StatefulSets /\ pod' \in Pods
    BY <1>9, NewTypes DEF ApplyStatefulSet, StatefulSetFor, SourceHash, TypeOK, StatefulSets, Objects
  <2>3. /\ pc' \in Steps /\ inst' \in Objects /\ sess' \in Sessions
        /\ timer' \in BOOLEAN /\ queue' \in BOOLEAN /\ cache' \in Objects
    <3>1. CASE Goto("pod", inst, sess)
      BY <3>1 DEF Goto, TypeOK, Steps
    <3>2. CASE Report("False", inst.status.stalled, "stop")
      BY <3>2, ReportType, StalledType DEF TypeOK, Steps
    <3>3. CASE Finish("later") \/ Finish("error")
      BY <3>3, FinishType DEF Steps
    <3> QED
      BY <1>9, <3>1, <3>2, <3>3 DEF ApplyStatefulSet
  <2> QED
    BY <1>9, <2>1, <2>2, <2>3 DEF ApplyStatefulSet, StatefulSetEvent, TypeOK, Budgets, Steps
<1>10. CASE ReadPod
  <2>1. podCache.annotated \in BOOLEAN
    BY DEF TypeOK, SeenPods
  <2>2. CASE Goto("connect", inst, [sess EXCEPT !.annotated = podCache.annotated])
    <3>1. sess' \in Sessions
      BY <2>1, <2>2 DEF Goto, TypeOK, Sessions
    <3> QED
      BY <1>10, <2>2, <3>1 DEF ReadPod, Goto, TypeOK
  <2>3. CASE Finish("error")
    BY <1>10, <2>3, FinishType DEF ReadPod, TypeOK
  <2> QED
    BY <1>10, <2>2, <2>3 DEF ReadPod
<1>11. CASE Connect
  <2>1. left' \in Budgets
    BY <1>11, FaultType DEF Connect, Reached, Unreached
  <2>2. CASE Goto("version", [inst EXCEPT !.status.stalled = FALSE], sess)
    <3>1. inst' \in Objects
      BY <2>2 DEF Goto, TypeOK, Objects, Statuses
    <3> QED
      BY <1>11, <2>1, <2>2, <3>1 DEF Connect, Goto, TypeOK, Budgets
  <2>3. CASE Report("True", inst.status.stalled, "stop") \/ Report("False", inst.status.stalled, "later")
    BY <1>11, <2>1, <2>3, ReportType, StalledType DEF Connect, TypeOK, Budgets
  <2> QED
    BY <1>11, <2>2, <2>3 DEF Connect
<1>12. CASE QueryVersion
  <2>1. left' \in Budgets
    BY <1>12, FaultType DEF QueryVersion, Reached, Unreached
  <2>2. \E b \in BOOLEAN, n \in {"stop", "error", "install", "initialize"} : Report("False", b, n)
    BY <1>12 DEF QueryVersion
  <2> QED
    BY <1>12, <2>1, <2>2, ReportType DEF QueryVersion, TypeOK, Budgets
<1>13. CASE Install
  <2>1. left' \in Budgets
    BY <1>13, FaultType DEF Install, Reached, Unreached
  <2>2. \E b \in BOOLEAN, n \in {"stop", "initialize"} : Report("False", b, n)
    BY <1>13, StalledType DEF Install
  <2>3. pod' \in Pods
    BY <1>13 DEF Install, TypeOK, Pods
  <2> QED
    BY <1>13, <2>1, <2>2, <2>3, ReportType DEF Install, TypeOK, Budgets
<1>14. CASE InitializeStacks
  <2>1. left' \in Budgets
    BY <1>14, FaultType DEF InitializeStacks, Reached, Unreached
  <2>2. \/ Goto("annotate", inst, sess)
        \/ Report("False", TRUE, "stop")
    BY <1>14 DEF InitializeStacks
  <2>3. pod' \in Pods
    BY <1>14 DEF InitializeStacks, TypeOK, Pods, Objects
  <2>4. pc' \in Steps /\ inst' \in Objects /\ sess' \in Sessions /\ UNCHANGED cacheVars
    BY <2>2, ReportType DEF Goto, TypeOK, Steps
  <2> QED
    BY <1>14, <2>1, <2>3, <2>4 DEF InitializeStacks, TypeOK, Budgets, Steps
<1>15. CASE MarkInitialized
  <2>1. left' \in Budgets
    BY <1>15, FaultType DEF MarkInitialized
  <2>2. Report("True", inst.status.stalled, "stop") \/ Finish("error")
    BY <1>15 DEF MarkInitialized
  <2>3. pod' \in Pods
    BY <1>15 DEF MarkInitialized, TypeOK, Pods
  <2>4. /\ pc' \in Steps /\ inst' \in Objects /\ sess' \in Sessions
        /\ timer' \in BOOLEAN /\ queue' \in BOOLEAN /\ cache' \in Objects
    BY <2>2, ReportType, FinishType, StalledType DEF TypeOK, Steps
  <2> QED
    BY <1>15, <2>1, <2>3, <2>4 DEF MarkInitialized, TypeOK, Budgets, Steps
<1>16. CASE UpdateStatus
  <2>1. left' \in Budgets
    BY <1>16, FaultType DEF UpdateStatus
  <2>2. obj' \in Objects
    BY <1>16 DEF UpdateStatus, TypeOK, Objects, Statuses
  <2>3. \/ sess.next \in {"install", "initialize"} /\ Goto(sess.next, obj', sess)
        \/ Finish(sess.next) \/ Finish("error")
    BY <1>16 DEF UpdateStatus
  <2>4. /\ pc' \in Steps /\ inst' \in Objects /\ sess' \in Sessions
        /\ timer' \in BOOLEAN /\ queue' \in BOOLEAN /\ cache' \in Objects
    BY <2>2, <2>3, FinishType DEF Goto, TypeOK, Steps
  <2> QED
    BY <1>16, <2>1, <2>2, <2>4 DEF UpdateStatus, TypeOK, Budgets, Steps
<1>17. CASE Crash
  BY <1>17, NewTypes, SeenType, FaultType DEF Crash, TypeOK, Budgets
<1> QED
  BY <1>1, <1>2, <1>3, <1>4, <1>5, <1>6, <1>7, <1>8, <1>9, <1>10, <1>11, <1>12, <1>13,
     <1>14, <1>15, <1>16, <1>17 DEF Next, World, Reconcile

(* Every variable of the Workspace reconciler keeps its type, whatever edits, *)
(* faults, lost pods and restarts there are (WorkspaceReconciler.Reconcile).  *)
THEOREM TypeCorrect == Spec => []TypeOK
BY InitType, TypeStep, PTL DEF Spec

-----------------------------------------------------------------------------
(* The invariant is inductive.                                             *)

LEMMA Numbers ==
    TypeOK => /\ ss.template \in Nat /\ ss.update \in Nat /\ ss.current \in Nat
              /\ obj.gen \in Nat /\ cache.gen \in Nat /\ inst.gen \in Nat
              /\ pod.rev \in Nat /\ pod.configured \in Nat /\ podCache.rev \in Nat
              /\ left.pod \in Nat
              /\ obj.status.ready \in {"Unknown", "True", "False"}
              /\ inst.status.ready \in {"Unknown", "True", "False"}
BY DEF TypeOK, StatefulSets, Objects, Statuses, Pods, SeenPods

LEMMA InitRest == Init => RestInv
<1> SUFFICES ASSUME Init PROVE RestInv
  OBVIOUS
<1>1. /\ ss.template = 0 /\ ss.update = 0 /\ ~ss.available
      /\ pod.state = "none" /\ ~pod.annotated /\ pod.configured = 0 /\ ~podCache.found
      /\ obj.gen = 1 /\ obj.status.ready = "Unknown" /\ obj.exists
      /\ cache = obj /\ inst = obj /\ queue /\ pc = "idle" /\ left.pod = PodLosses
  BY DEF Init, NewStatefulSet, NoPod, NewWorkspace, Seen
<1> QED
  BY <1>1, InitType, ConstantAssumption DEF RestInv, Passed, Owed, OfRevision, OnePod, Relied,
     Past, Marked, Reported

\* The object changes: its generation grows, and deletion is for good.
LEMMA UserRest ==
    ASSUME RestInv, TypeOK', EditSpec \/ DeleteWorkspace \/ WorkspaceGone
    PROVE  RestInv'
<1>1. /\ obj'.gen \in Nat /\ obj'.gen >= obj.gen /\ obj'.status = obj.status
      /\ (obj.deleting => obj'.deleting) /\ (~obj.exists => ~obj'.exists)
      /\ UNCHANGED <<cacheVars, sessVars, podVars, podCache, left>>
  <2>1. obj \in Objects /\ obj' \in Objects /\ obj.gen \in Nat /\ obj'.gen \in Nat
    BY DEF RestInv, TypeOK, Objects
  <2>2. CASE EditSpec
    BY <2>1, <2>2 DEF EditSpec, Objects, cacheVars, sessVars, WorldStep
  <2>3. CASE DeleteWorkspace
    BY <2>1, <2>3 DEF DeleteWorkspace, Objects, cacheVars, sessVars, WorldStep
  <2>4. CASE WorkspaceGone
    BY <2>1, <2>4 DEF WorkspaceGone, Objects, cacheVars, sessVars, WorldStep
  <2> QED
    BY <2>2, <2>3, <2>4
<1>2. TypeOK /\ Passed /\ Owed /\ OfRevision /\ left.pod <= PodLosses
  BY DEF RestInv
<1>3. NoneLost => OnePod /\ Relied /\ Marked /\ Reported
  BY DEF RestInv
<1>4. Passed'
  BY <1>1, <1>2, Numbers DEF Passed, OfRevision, cacheVars, sessVars, podVars
<1>5. Owed'
  BY <1>1, <1>2, Numbers DEF Passed, Owed, cacheVars, sessVars, podVars
<1>6. OfRevision'
  BY <1>1, <1>2, Numbers DEF Passed, OfRevision, cacheVars, sessVars, podVars
<1>7. (NoneLost <=> NoneLost') /\ left'.pod <= PodLosses
  BY <1>1, <1>2 DEF NoneLost
<1>8. NoneLost' => OnePod'
  BY <1>1, <1>2, <1>3, <1>7, Numbers DEF Passed, OfRevision, OnePod, Relied, Past, Installed,
     Marked, cacheVars, sessVars, podVars
<1>9. NoneLost' => Relied'
  BY <1>1, <1>2, <1>3, <1>7, Numbers DEF Passed, Owed, OfRevision, OnePod, Relied, Past,
     Installed, Marked, cacheVars, sessVars, podVars
<1>10. NoneLost' => Marked'
  BY <1>1, <1>2, <1>3, <1>7, Numbers DEF Passed, OfRevision, OnePod, Relied, Past, Installed,
     Marked, cacheVars, sessVars, podVars
<1>11. NoneLost' => Reported'
  BY <1>1, <1>2, <1>3, <1>7, Numbers DEF Passed, Relied, Past, Installed, OnePod, Reported,
     Marked, OfRevision, cacheVars, sessVars, podVars
<1> QED
  BY <1>4, <1>5, <1>6, <1>7, <1>8, <1>9, <1>10, <1>11 DEF RestInv

\* The caches catch up, and the queue is filled.
LEMMA SyncRest ==
    ASSUME RestInv, TypeOK', SyncCache \/ SyncPod \/ SyncStatefulSet \/ TimerFires \/ UNCHANGED vars
    PROVE  RestInv'
<1>1. /\ \/ cache' = cache
         \/ cache' = obj /\ (cache.gen # obj.gen \/ ~obj.exists => queue')
      /\ \/ podCache' = podCache
         \/ podCache'.rev = pod.rev /\ (podCache'.found => pod.state # "none")
            /\ (podCache'.annotated => pod.annotated)
      /\ (queue => queue') /\ (timer => timer' \/ queue')
      /\ UNCHANGED <<obj, sessVars, ss, pod, left>>
  <2>1. CASE SyncCache
    BY <2>1 DEF SyncCache, WorldStep, podVars
  <2>2. CASE SyncPod
    BY <2>2 DEF SyncPod, Seen, WorldStep, podVars
  <2>3. CASE SyncStatefulSet \/ TimerFires
    BY <2>3 DEF SyncStatefulSet, TimerFires, WorldStep, podVars
  <2>4. CASE UNCHANGED vars
    BY <2>4 DEF vars, cacheVars, podVars
  <2> QED
    BY <2>1, <2>2, <2>3, <2>4
<1>2. TypeOK /\ Passed /\ Owed /\ OfRevision /\ left.pod <= PodLosses
  BY DEF RestInv
<1>3. NoneLost => OnePod /\ Relied /\ Marked /\ Reported
  BY DEF RestInv
<1>4. Passed'
  BY <1>1, <1>2, Numbers DEF Passed, OfRevision, cacheVars, sessVars, podVars
<1>5. Owed'
  BY <1>1, <1>2, Numbers DEF Passed, Owed, cacheVars, sessVars, podVars
<1>6. OfRevision'
  BY <1>1, <1>2, Numbers DEF Passed, OfRevision, cacheVars, sessVars, podVars
<1>7. (NoneLost <=> NoneLost') /\ left'.pod <= PodLosses
  BY <1>1, <1>2 DEF NoneLost
<1>8. NoneLost' => OnePod'
  BY <1>1, <1>2, <1>3, <1>7, Numbers DEF Passed, OfRevision, OnePod, Relied, Past, Installed,
     Marked, cacheVars, sessVars, podVars
<1>9. NoneLost' => Relied'
  BY <1>1, <1>2, <1>3, <1>7, Numbers DEF Passed, Owed, OfRevision, OnePod, Relied, Past,
     Installed, Marked, cacheVars, sessVars, podVars
<1>10. NoneLost' => Marked'
  BY <1>1, <1>2, <1>3, <1>7, Numbers DEF Passed, OfRevision, OnePod, Relied, Past, Installed,
     Marked, cacheVars, sessVars, podVars
<1>11. NoneLost' => Reported'
  BY <1>1, <1>2, <1>3, <1>7, Numbers DEF Passed, Relied, Past, Installed, OnePod, Reported,
     Marked, OfRevision, cacheVars, sessVars, podVars
<1> QED
  BY <1>4, <1>5, <1>6, <1>7, <1>8, <1>9, <1>10, <1>11 DEF RestInv

\* The pod of an older revision is taken down.
LEMMA RollRest ==
    ASSUME RestInv, TypeOK', Roll
    PROVE  RestInv'
<1>1. /\ ss.template # ss.update /\ ss'.update = ss.template /\ ss'.template = ss.template
      /\ ss'.current = ss.current /\ ~ss'.available /\ ss'.legacy = ss.legacy
      /\ pod'.state = "none" /\ ~pod'.annotated /\ pod'.configured = 0
      /\ UNCHANGED <<obj, cacheVars, sessVars, podCache, left>>
  BY DEF Roll, StatefulSetStep, WorldStep, RestInv, TypeOK, StatefulSets, NoPod,
     cacheVars, sessVars
<1>2. TypeOK /\ Passed /\ Owed /\ OfRevision /\ left.pod <= PodLosses
  BY DEF RestInv
<1>3. NoneLost => OnePod /\ Relied /\ Marked /\ Reported
  BY DEF RestInv
<1>4. Passed'
  BY <1>1, <1>2, Numbers DEF Passed, OfRevision, cacheVars, sessVars, podVars
<1>5. Owed'
  BY <1>1, <1>2, Numbers DEF Passed, Owed, cacheVars, sessVars, podVars
<1>6. OfRevision'
  BY <1>1, <1>2, Numbers DEF Passed, OfRevision, cacheVars, sessVars, podVars
<1>7. (NoneLost <=> NoneLost') /\ left'.pod <= PodLosses
  BY <1>1, <1>2 DEF NoneLost
<1>8. NoneLost' => OnePod'
  BY <1>1, <1>2, <1>3, <1>7, Numbers DEF Passed, OfRevision, OnePod, Relied, Past, Installed,
     Marked, cacheVars, sessVars, podVars
<1>9. NoneLost' => Relied'
  BY <1>1, <1>2, <1>3, <1>7, Numbers DEF Passed, Owed, OfRevision, OnePod, Relied, Past,
     Installed, Marked, cacheVars, sessVars, podVars
<1>10. NoneLost' => Marked'
  BY <1>1, <1>2, <1>3, <1>7, Numbers DEF Passed, OfRevision, OnePod, Relied, Past, Installed,
     Marked, cacheVars, sessVars, podVars
<1>11. NoneLost' => Reported'
  BY <1>1, <1>2, <1>3, <1>7, Numbers DEF Passed, Relied, Past, Installed, OnePod, Reported,
     Marked, OfRevision, cacheVars, sessVars, podVars
<1> QED
  BY <1>4, <1>5, <1>6, <1>7, <1>8, <1>9, <1>10, <1>11 DEF RestInv

\* The missing pod is created.
LEMMA RecreateRest ==
    ASSUME RestInv, TypeOK', Recreate
    PROVE  RestInv'
<1>1. /\ pod.state = "none" /\ ss.update > 0 /\ ss'.update = ss.update /\ ss'.template = ss.template
      /\ ss'.current = ss.current /\ ~ss'.available /\ ss'.legacy = ss.legacy
      /\ pod'.state = "starting" /\ ~pod'.annotated /\ pod'.configured = 0 /\ pod'.rev = ss.update
      /\ UNCHANGED <<obj, cacheVars, sessVars, podCache, left>>
  BY DEF Recreate, StatefulSetStep, WorldStep, RestInv, TypeOK, StatefulSets, NoPod,
     cacheVars, sessVars
<1>2. TypeOK /\ Passed /\ Owed /\ OfRevision /\ left.pod <= PodLosses
  BY DEF RestInv
<1>3. NoneLost => OnePod /\ Relied /\ Marked /\ Reported
  BY DEF RestInv
<1>4. Passed'
  BY <1>1, <1>2, Numbers DEF Passed, OfRevision, cacheVars, sessVars, podVars
<1>5. Owed'
  BY <1>1, <1>2, Numbers DEF Passed, Owed, cacheVars, sessVars, podVars
<1>6. OfRevision'
  BY <1>1, <1>2, Numbers DEF Passed, OfRevision, cacheVars, sessVars, podVars
<1>7. (NoneLost <=> NoneLost') /\ left'.pod <= PodLosses
  BY <1>1, <1>2 DEF NoneLost
<1>8. NoneLost' => OnePod'
  BY <1>1, <1>2, <1>3, <1>7, Numbers DEF Passed, OfRevision, OnePod, Relied, Past, Installed,
     Marked, cacheVars, sessVars, podVars
<1>9. NoneLost' => Relied'
  BY <1>1, <1>2, <1>3, <1>7, Numbers DEF Passed, Owed, OfRevision, OnePod, Relied, Past,
     Installed, Marked, cacheVars, sessVars, podVars
<1>10. NoneLost' => Marked'
  BY <1>1, <1>2, <1>3, <1>7, Numbers DEF Passed, OfRevision, OnePod, Relied, Past, Installed,
     Marked, cacheVars, sessVars, podVars
<1>11. NoneLost' => Reported'
  BY <1>1, <1>2, <1>3, <1>7, Numbers DEF Passed, Relied, Past, Installed, OnePod, Reported,
     Marked, OfRevision, cacheVars, sessVars, podVars
<1> QED
  BY <1>4, <1>5, <1>6, <1>7, <1>8, <1>9, <1>10, <1>11 DEF RestInv

\* The pod starts to serve.
LEMMA PodStartsRest ==
    ASSUME RestInv, TypeOK', PodStarts
    PROVE  RestInv'
<1>1. /\ pod.state = "starting" /\ ss'.update = ss.update /\ ss'.template = ss.template
      /\ ss'.current = ss.update /\ ss'.legacy = ss.legacy
      /\ pod'.state = "up" /\ pod'.annotated = pod.annotated /\ pod'.configured = pod.configured
      /\ pod'.rev = pod.rev /\ pod'.installed = pod.installed
      /\ UNCHANGED <<obj, cacheVars, sessVars, podCache, left>>
  BY DEF PodStarts, StatefulSetStep, WorldStep, RestInv, TypeOK, StatefulSets, Pods,
     cacheVars, sessVars
<1>2. TypeOK /\ Passed /\ Owed /\ OfRevision /\ left.pod <= PodLosses
  BY DEF RestInv
<1>3. NoneLost => OnePod /\ Relied /\ Marked /\ Reported
  BY DEF RestInv
<1>4. Passed'
  BY <1>1, <1>2, Numbers DEF Passed, OfRevision, cacheVars, sessVars, podVars
<1>5. Owed'
  BY <1>1, <1>2, Numbers DEF Passed, Owed, cacheVars, sessVars, podVars
<1>6. OfRevision'
  BY <1>1, <1>2, Numbers DEF Passed, OfRevision, cacheVars, sessVars, podVars
<1>7. (NoneLost <=> NoneLost') /\ left'.pod <= PodLosses
  BY <1>1, <1>2 DEF NoneLost
<1>8. NoneLost' => OnePod'
  BY <1>1, <1>2, <1>3, <1>7, Numbers DEF Passed, OfRevision, OnePod, Relied, Past, Installed,
     Marked, cacheVars, sessVars, podVars
<1>9. NoneLost' => Relied'
  BY <1>1, <1>2, <1>3, <1>7, Numbers DEF Passed, Owed, OfRevision, OnePod, Relied, Past,
     Installed, Marked, cacheVars, sessVars, podVars
<1>10. NoneLost' => Marked'
  BY <1>1, <1>2, <1>3, <1>7, Numbers DEF Passed, OfRevision, OnePod, Relied, Past, Installed,
     Marked, cacheVars, sessVars, podVars
<1>11. NoneLost' => Reported'
  BY <1>1, <1>2, <1>3, <1>7, Numbers DEF Passed, Relied, Past, Installed, OnePod, Reported,
     Marked, OfRevision, cacheVars, sessVars, podVars
<1> QED
  BY <1>4, <1>5, <1>6, <1>7, <1>8, <1>9, <1>10, <1>11 DEF RestInv

\* A lost pod ends what is claimed of the pods.
LEMMA PodLostRest ==
    ASSUME RestInv, TypeOK', PodLost
    PROVE  RestInv'
<1>1. /\ pod'.state = "none" /\ left'.pod = left.pod - 1
      /\ UNCHANGED <<obj, cacheVars, sessVars, ss, podCache>>
  BY DEF PodLost, StatefulSetStep, WorldStep, RestInv, TypeOK, NoPod,
     cacheVars, sessVars
<1>2. TypeOK /\ Passed /\ Owed /\ OfRevision /\ left.pod <= PodLosses
  BY DEF RestInv
<1>3. NoneLost => OnePod /\ Relied /\ Marked /\ Reported
  BY DEF RestInv
<1>4. Passed'
  BY <1>1, <1>2, Numbers DEF Passed, OfRevision, cacheVars, sessVars, podVars
<1>5. Owed'
  BY <1>1, <1>2, Numbers DEF Passed, Owed, cacheVars, sessVars, podVars
<1>6. OfRevision'
  BY <1>1, <1>2, Numbers DEF Passed, OfRevision, cacheVars, sessVars, podVars
<1>7. ~NoneLost' /\ left'.pod <= PodLosses
  BY <1>1, <1>2, Numbers, ConstantAssumption DEF NoneLost
<1> QED
  BY <1>4, <1>5, <1>6, <1>7 DEF RestInv

\* A reconcile starts from the cached object.
LEMMA StartRest ==
    ASSUME RestInv, TypeOK', Start
    PROVE  RestInv'
<1>1. /\ pc = "idle"
      /\ \/ ~cache.exists /\ UNCHANGED sessVars
         \/ /\ cache.exists /\ cache.deleting /\ pc' = "status" /\ inst'.gen = cache.gen
            /\ inst'.status.ready = "False" /\ sess'.next = "stop"
         \/ /\ cache.exists /\ ~cache.deleting /\ pc' = "apply" /\ inst' = cache /\ sess'.next = "stop"
      /\ UNCHANGED <<obj, cache, timer, podVars, podCache, left>>
  BY DEF Start, Idle, RestInv, TypeOK, Objects, Statuses, sessVars
<1>2. TypeOK /\ Passed /\ Owed /\ OfRevision /\ left.pod <= PodLosses
  BY DEF RestInv
<1>3. NoneLost => OnePod /\ Relied /\ Marked /\ Reported
  BY DEF RestInv
<1>4. Passed'
  BY <1>1, <1>2, Numbers DEF Passed, OfRevision, cacheVars, sessVars, podVars
<1>5. Owed'
  BY <1>1, <1>2, Numbers DEF Passed, Owed, cacheVars, sessVars, podVars
<1>6. OfRevision'
  BY <1>1, <1>2, Numbers DEF Passed, OfRevision, cacheVars, sessVars, podVars
<1>7. (NoneLost <=> NoneLost') /\ left'.pod <= PodLosses
  BY <1>1, <1>2 DEF NoneLost
<1>8. NoneLost' => OnePod'
  BY <1>1, <1>2, <1>3, <1>7, Numbers DEF Passed, OfRevision, OnePod, Relied, Past, Installed,
     Marked, cacheVars, sessVars, podVars
<1>9. NoneLost' => Relied'
  BY <1>1, <1>2, <1>3, <1>7, Numbers DEF Passed, Owed, OfRevision, OnePod, Relied, Past,
     Installed, Marked, cacheVars, sessVars, podVars
<1>10. NoneLost' => Marked'
  BY <1>1, <1>2, <1>3, <1>7, Numbers DEF Passed, OfRevision, OnePod, Relied, Past, Installed,
     Marked, cacheVars, sessVars, podVars
<1>11. NoneLost' => Reported'
  BY <1>1, <1>2, <1>3, <1>7, Numbers DEF Passed, Relied, Past, Installed, OnePod, Reported,
     Marked, OfRevision, cacheVars, sessVars, podVars
<1> QED
  BY <1>4, <1>5, <1>6, <1>7, <1>8, <1>9, <1>10, <1>11 DEF RestInv

\* The StatefulSet is applied: what comes back is ready, or it is reported that it is not.
LEMMA ApplyRest ==
    ASSUME RestInv, TypeOK', ApplyStatefulSet
    PROVE  RestInv'
<1>1. /\ pc = "apply" /\ left'.pod = left.pod
      /\ \/ /\ ~ss.legacy /\ inst.gen \notin InvalidTemplate
            /\ ss'.template = inst.gen /\ ss'.update = ss.update /\ ss'.current = ss.current
            /\ ss'.available = ss.available /\ ~ss'.legacy /\ inst'.gen = inst.gen
            /\ \/ /\ pc' = "pod" /\ ss'.template = ss'.update /\ ss'.update = ss'.current /\ ss'.available
               \/ pc' = "status" /\ inst'.status.ready = "False" /\ sess'.next = "stop"
            /\ UNCHANGED <<pod, cacheVars>>
         \/ /\ ss.legacy \/ inst.gen \in InvalidTemplate
            /\ ss'.template = 0 /\ ss'.update = 0 /\ ~ss'.available /\ ~ss'.legacy
            /\ pod'.state = "none" /\ ~pod'.annotated /\ pod'.configured = 0
            /\ pc' = "idle" /\ inst'.gen = 1 /\ cache' = cache
            /\ timer' \/ queue'
            /\ queue => queue'
         \/ /\ UNCHANGED <<ss, pod, cache>> /\ pc' = "idle" /\ inst'.gen = 1 /\ queue'
      /\ UNCHANGED <<obj, podCache>>
  <2>1. left'.pod = left.pod
    BY FaultType DEF ApplyStatefulSet, RestInv
  <2>2. CASE ~IsInvalid(inst) /\ ss' = StatefulSetFor(inst) /\ UNCHANGED pod
             /\ IF IsStatefulSetReady(ss') THEN Goto("pod", inst, sess)
                ELSE Report("False", inst.status.stalled, "stop")
    <3>1. /\ ss'.template = inst.gen /\ ss'.update = ss.update /\ ss'.current = ss.current
          /\ ss'.available = ss.available /\ ss'.legacy = ss.legacy
      BY <2>2 DEF StatefulSetFor, SourceHash, RestInv, TypeOK, StatefulSets
    <3>2. CASE IsStatefulSetReady(ss')
      BY <2>1, <2>2, <3>1, <3>2 DEF ApplyStatefulSet, IsInvalid, IsStatefulSetReady, Goto
    <3>3. CASE ~IsStatefulSetReady(ss')
      <4>1. Report("False", inst.status.stalled, "stop")
        BY <2>2, <3>3
      <4>2. pc' = "status" /\ inst'.gen = inst.gen /\ inst'.status.ready = "False" /\ sess'.next = "stop"
            /\ UNCHANGED cacheVars
        BY <4>1, ReportType, StalledType DEF RestInv
      <4> QED
        BY <2>1, <2>2, <3>1, <4>2 DEF ApplyStatefulSet, IsInvalid
    <3> QED
      BY <3>2, <3>3
  <2>3. CASE /\ IsInvalid(inst) /\ ss' = NewStatefulSet /\ pod' = NoPod
             /\ Finish(IF SomeStatefulSet THEN "later" ELSE "error")
    BY <2>1, <2>3 DEF ApplyStatefulSet, IsInvalid, NewStatefulSet, NoPod, Finish, NewWorkspace,
       RestInv, TypeOK
  <2>4. CASE Finish("error") /\ UNCHANGED <<ss, pod>>
    BY <2>1, <2>4 DEF ApplyStatefulSet, Finish, NewWorkspace
  <2> QED
    BY <2>2, <2>3, <2>4 DEF ApplyStatefulSet
<1>2. TypeOK /\ Passed /\ Owed /\ OfRevision /\ left.pod <= PodLosses
  BY DEF RestInv
<1>3. NoneLost => OnePod /\ Relied /\ Marked /\ Reported
  BY DEF RestInv
<1>4. Passed'
  BY <1>1, <1>2, Numbers DEF Passed, OfRevision, cacheVars, sessVars, podVars
<1>5. Owed'
  BY <1>1, <1>2, Numbers DEF Passed, Owed, cacheVars, sessVars, podVars
<1>6. OfRevision'
  BY <1>1, <1>2, Numbers DEF Passed, OfRevision, cacheVars, sessVars, podVars
<1>7. (NoneLost <=> NoneLost') /\ left'.pod <= PodLosses
  BY <1>1, <1>2 DEF NoneLost
<1>8. NoneLost' => OnePod'
  BY <1>1, <1>2, <1>3, <1>7, Numbers DEF Passed, OfRevision, OnePod, Relied, Past, Installed,
     Marked, cacheVars, sessVars, podVars
<1>9. NoneLost' => Relied'
  BY <1>1, <1>2, <1>3, <1>7, Numbers DEF Passed, Owed, OfRevision, OnePod, Relied, Past,
     Installed, Marked, cacheVars, sessVars, podVars
<1>10. NoneLost' => Marked'
  BY <1>1, <1>2, <1>3, <1>7, Numbers DEF Passed, OfRevision, OnePod, Relied, Past, Installed,
     Marked, cacheVars, sessVars, podVars
<1>11. NoneLost' => Reported'
  BY <1>1, <1>2, <1>3, <1>7, Numbers DEF Passed, Relied, Past, Installed, OnePod, Reported,
     Marked, OfRevision, cacheVars, sessVars, podVars
<1> QED
  BY <1>4, <1>5, <1>6, <1>7, <1>8, <1>9, <1>10, <1>11 DEF RestInv

\* The cached pod is the one of the current revision, or the reconcile is tried again.
LEMMA ReadPodRest ==
    ASSUME RestInv, TypeOK', ReadPod
    PROVE  RestInv'
<1>1. /\ pc = "pod"
      /\ \/ /\ pc' = "connect" /\ podCache.found /\ podCache.rev = ss.current /\ inst' = inst
            /\ sess'.annotated = podCache.annotated /\ UNCHANGED cacheVars
         \/ pc' = "idle" /\ inst'.gen = 1 /\ queue' /\ cache' = cache
      /\ UNCHANGED <<obj, podVars, podCache, left>>
  <2>1. CASE PodIsCurrent
    BY <2>1 DEF ReadPod, PodIsCurrent, Goto, RestInv, TypeOK, Sessions
  <2>2. CASE ~PodIsCurrent
    <3>1. Finish("error")
      BY <2>2 DEF ReadPod
    <3> QED
      BY <3>1 DEF ReadPod, Finish, NewWorkspace
  <2> QED
    BY <2>1, <2>2
<1>2. TypeOK /\ Passed /\ Owed /\ OfRevision /\ left.pod <= PodLosses
  BY DEF RestInv
<1>3. NoneLost => OnePod /\ Relied /\ Marked /\ Reported
  BY DEF RestInv
<1>4. Passed'
  BY <1>1, <1>2, Numbers DEF Passed, OfRevision, cacheVars, sessVars, podVars
<1>5. Owed'
  BY <1>1, <1>2, Numbers DEF Passed, Owed, cacheVars, sessVars, podVars
<1>6. OfRevision'
  BY <1>1, <1>2, Numbers DEF Passed, OfRevision, cacheVars, sessVars, podVars
<1>7. (NoneLost <=> NoneLost') /\ left'.pod <= PodLosses
  BY <1>1, <1>2 DEF NoneLost
<1>8. NoneLost' => OnePod'
  BY <1>1, <1>2, <1>3, <1>7, Numbers DEF Passed, OfRevision, OnePod, Relied, Past, Installed,
     Marked, cacheVars, sessVars, podVars
<1>9. NoneLost' => Relied'
  BY <1>1, <1>2, <1>3, <1>7, Numbers DEF Passed, Owed, OfRevision, OnePod, Relied, Past,
     Installed, Marked, cacheVars, sessVars, podVars
<1>10. NoneLost' => Marked'
  BY <1>1, <1>2, <1>3, <1>7, Numbers DEF Passed, OfRevision, OnePod, Relied, Past, Installed,
     Marked, cacheVars, sessVars, podVars
<1>11. NoneLost' => Reported'
  BY <1>1, <1>2, <1>3, <1>7, Numbers DEF Passed, Relied, Past, Installed, OnePod, Reported,
     Marked, OfRevision, cacheVars, sessVars, podVars
<1> QED
  BY <1>4, <1>5, <1>6, <1>7, <1>8, <1>9, <1>10, <1>11 DEF RestInv

\* An initialized pod makes the workspace ready.
LEMMA ConnectRest ==
    ASSUME RestInv, TypeOK', Connect
    PROVE  RestInv'
<1>1. /\ pc = "connect" /\ inst'.gen = inst.gen /\ left'.pod = left.pod
      /\ \/ sess.annotated /\ pc' = "status" /\ inst'.status.ready = "True" /\ sess'.next = "stop"
         \/ pc' = "version"
         \/ pc' = "status" /\ inst'.status.ready = "False" /\ sess'.next = "later"
      /\ UNCHANGED <<obj, cacheVars, podVars, podCache>>
  <2>1. left'.pod = left.pod
    BY FaultType DEF Connect, Reached, Unreached, RestInv
  <2>2. CASE Goto("version", [inst EXCEPT !.status.stalled = FALSE], sess)
    BY <2>1, <2>2 DEF Connect, Goto, RestInv, TypeOK, Objects
  <2>3. CASE sess.annotated /\ Report("True", inst.status.stalled, "stop")
    BY <2>1, <2>3, ReportType, StalledType DEF Connect, RestInv
  <2>4. CASE Report("False", inst.status.stalled, "later")
    BY <2>1, <2>4, ReportType, StalledType DEF Connect, RestInv
  <2> QED
    BY <2>2, <2>3, <2>4 DEF Connect
<1>2. TypeOK /\ Passed /\ Owed /\ OfRevision /\ left.pod <= PodLosses
  BY DEF RestInv
<1>3. NoneLost => OnePod /\ Relied /\ Marked /\ Reported
  BY DEF RestInv
<1>4. Passed'
  BY <1>1, <1>2, Numbers DEF Passed, OfRevision, cacheVars, sessVars, podVars
<1>5. Owed'
  BY <1>1, <1>2, Numbers DEF Passed, Owed, cacheVars, sessVars, podVars
<1>6. OfRevision'
  BY <1>1, <1>2, Numbers DEF Passed, OfRevision, cacheVars, sessVars, podVars
<1>7. (NoneLost <=> NoneLost') /\ left'.pod <= PodLosses
  BY <1>1, <1>2 DEF NoneLost
<1>8. NoneLost' => OnePod'
  BY <1>1, <1>2, <1>3, <1>7, Numbers DEF Passed, OfRevision, OnePod, Relied, Past, Installed,
     Marked, cacheVars, sessVars, podVars
<1>9. NoneLost' => Relied'
  BY <1>1, <1>2, <1>3, <1>7, Numbers DEF Passed, Owed, OfRevision, OnePod, Relied, Past,
     Installed, Marked, cacheVars, sessVars, podVars
<1>10. NoneLost' => Marked'
  BY <1>1, <1>2, <1>3, <1>7, Numbers DEF Passed, OfRevision, OnePod, Relied, Past, Installed,
     Marked, cacheVars, sessVars, podVars
<1>11. NoneLost' => Reported'
  BY <1>1, <1>2, <1>3, <1>7, Numbers DEF Passed, Relied, Past, Installed, OnePod, Reported,
     Marked, OfRevision, cacheVars, sessVars, podVars
<1> QED
  BY <1>4, <1>5, <1>6, <1>7, <1>8, <1>9, <1>10, <1>11 DEF RestInv

\* What follows is decided by the generation whose template was applied.
LEMMA VersionRest ==
    ASSUME RestInv, TypeOK', QueryVersion
    PROVE  RestInv'
<1>1. /\ pc = "version" /\ pc' = "status" /\ inst'.gen = inst.gen /\ left'.pod = left.pod
      /\ inst'.status.ready = "False" /\ (sess'.next = "initialize" => inst.gen \in NoProgram)
      /\ UNCHANGED <<obj, cacheVars, podVars, podCache>>
  <2>1. left'.pod = left.pod
    BY FaultType DEF QueryVersion, Reached, Unreached, RestInv
  <2>2. PICK b \in BOOLEAN, n \in {"stop", "error", "install", "initialize"} :
            Report("False", b, n) /\ (n = "initialize" => inst.gen \in NoProgram)
    BY DEF QueryVersion
  <2> QED
    BY <2>1, <2>2, ReportType DEF QueryVersion, RestInv
<1>2. TypeOK /\ Passed /\ Owed /\ OfRevision /\ left.pod <= PodLosses
  BY DEF RestInv
<1>3. NoneLost => OnePod /\ Relied /\ Marked /\ Reported
  BY DEF RestInv
<1>4. Passed'
  BY <1>1, <1>2, Numbers DEF Passed, OfRevision, cacheVars, sessVars, podVars
<1>5. Owed'
  BY <1>1, <1>2, Numbers DEF Passed, Owed, cacheVars, sessVars, podVars
<1>6. OfRevision'
  BY <1>1, <1>2, Numbers DEF Passed, OfRevision, cacheVars, sessVars, podVars
<1>7. (NoneLost <=> NoneLost') /\ left'.pod <= PodLosses
  BY <1>1, <1>2 DEF NoneLost
<1>8. NoneLost' => OnePod'
  BY <1>1, <1>2, <1>3, <1>7, Numbers DEF Passed, OfRevision, OnePod, Relied, Past, Installed,
     Marked, cacheVars, sessVars, podVars
<1>9. NoneLost' => Relied'
  BY <1>1, <1>2, <1>3, <1>7, Numbers DEF Passed, Owed, OfRevision, OnePod, Relied, Past,
     Installed, Marked, cacheVars, sessVars, podVars
<1>10. NoneLost' => Marked'
  BY <1>1, <1>2, <1>3, <1>7, Numbers DEF Passed, OfRevision, OnePod, Relied, Past, Installed,
     Marked, cacheVars, sessVars, podVars
<1>11. NoneLost' => Reported'
  BY <1>1, <1>2, <1>3, <1>7, Numbers DEF Passed, Relied, Past, Installed, OnePod, Reported,
     Marked, OfRevision, cacheVars, sessVars, podVars
<1> QED
  BY <1>4, <1>5, <1>6, <1>7, <1>8, <1>9, <1>10, <1>11 DEF RestInv

\* Packages are installed before the stacks are configured.
LEMMA InstallRest ==
    ASSUME RestInv, TypeOK', Install
    PROVE  RestInv'
<1>1. /\ pc = "install" /\ pc' = "status" /\ inst'.gen = inst.gen /\ left'.pod = left.pod
      /\ inst'.status.ready = "False"
      /\ \/ sess'.next = "initialize" /\ pod'.installed
         \/ sess'.next = "stop" /\ pod'.installed = pod.installed
      /\ pod'.state = pod.state /\ pod'.rev = pod.rev /\ pod'.annotated = pod.annotated
      /\ pod'.configured = pod.configured
      /\ UNCHANGED <<obj, cacheVars, ss, podCache>>
  <2>1. left'.pod = left.pod
    BY FaultType DEF Install, Reached, Unreached, RestInv
  <2>2. CASE pod' = [pod EXCEPT !.installed = TRUE] /\ Report("False", inst.status.stalled, "initialize")
    <3>1. /\ pod'.installed /\ pod'.state = pod.state /\ pod'.rev = pod.rev
          /\ pod'.annotated = pod.annotated /\ pod'.configured = pod.configured
      BY <2>2 DEF RestInv, TypeOK, Pods
    <3> QED
      BY <2>1, <2>2, <3>1, ReportType, StalledType DEF Install, RestInv
  <2>3. CASE UNCHANGED pod /\ Report("False", TRUE, "stop")
    BY <2>1, <2>3, ReportType DEF Install, RestInv
  <2> QED
    BY <2>2, <2>3 DEF Install
<1>2. TypeOK /\ Passed /\ Owed /\ OfRevision /\ left.pod <= PodLosses
  BY DEF RestInv
<1>3. NoneLost => OnePod /\ Relied /\ Marked /\ Reported
  BY DEF RestInv
<1>4. Passed'
  BY <1>1, <1>2, Numbers DEF Passed, OfRevision, cacheVars, sessVars, podVars
<1>5. Owed'
  BY <1>1, <1>2, Numbers DEF Passed, Owed, cacheVars, sessVars, podVars
<1>6. OfRevision'
  BY <1>1, <1>2, Numbers DEF Passed, OfRevision, cacheVars, sessVars, podVars
<1>7. (NoneLost <=> NoneLost') /\ left'.pod <= PodLosses
  BY <1>1, <1>2 DEF NoneLost
<1>8. NoneLost' => OnePod'
  BY <1>1, <1>2, <1>3, <1>7, Numbers DEF Passed, OfRevision, OnePod, Relied, Past, Installed,
     Marked, cacheVars, sessVars, podVars
<1>9. NoneLost' => Relied'
  BY <1>1, <1>2, <1>3, <1>7, Numbers DEF Passed, Owed, OfRevision, OnePod, Relied, Past,
     Installed, Marked, cacheVars, sessVars, podVars
<1>10. NoneLost' => Marked'
  BY <1>1, <1>2, <1>3, <1>7, Numbers DEF Passed, OfRevision, OnePod, Relied, Past, Installed,
     Marked, cacheVars, sessVars, podVars
<1>11. NoneLost' => Reported'
  BY <1>1, <1>2, <1>3, <1>7, Numbers DEF Passed, Relied, Past, Installed, OnePod, Reported,
     Marked, OfRevision, cacheVars, sessVars, podVars
<1> QED
  BY <1>4, <1>5, <1>6, <1>7, <1>8, <1>9, <1>10, <1>11 DEF RestInv

\* The stacks are configured for a generation no older than the pod.
LEMMA InitializeRest ==
    ASSUME RestInv, TypeOK', InitializeStacks
    PROVE  RestInv'
<1>1. /\ pc = "initialize" /\ inst'.gen = inst.gen /\ left'.pod = left.pod
      /\ \/ pc' = "annotate" /\ pod'.configured = inst.gen
         \/ /\ pc' = "status" /\ inst'.status.ready = "False" /\ sess'.next = "stop"
            /\ pod'.configured = pod.configured
      /\ pod'.state = pod.state /\ pod'.rev = pod.rev /\ pod'.annotated = pod.annotated
      /\ pod'.installed = pod.installed
      /\ UNCHANGED <<obj, cacheVars, ss, podCache>>
  <2>1. left'.pod = left.pod
    BY FaultType DEF InitializeStacks, Reached, Unreached, RestInv
  <2>2. CASE pod' = [pod EXCEPT !.configured = inst.gen] /\ Goto("annotate", inst, sess)
    <3>1. /\ pod'.configured = inst.gen /\ pod'.state = pod.state /\ pod'.rev = pod.rev
          /\ pod'.annotated = pod.annotated /\ pod'.installed = pod.installed
      BY <2>2 DEF RestInv, TypeOK, Pods
    <3> QED
      BY <2>1, <2>2, <3>1 DEF InitializeStacks, Goto
  <2>3. CASE UNCHANGED pod /\ Report("False", TRUE, "stop")
    BY <2>1, <2>3, ReportType DEF InitializeStacks, RestInv
  <2> QED
    BY <2>2, <2>3 DEF InitializeStacks
<1>2. TypeOK /\ Passed /\ Owed /\ OfRevision /\ left.pod <= PodLosses
  BY DEF RestInv
<1>3. NoneLost => OnePod /\ Relied /\ Marked /\ Reported
  BY DEF RestInv
<1>4. Passed'
  BY <1>1, <1>2, Numbers DEF Passed, OfRevision, cacheVars, sessVars, podVars
<1>5. Owed'
  BY <1>1, <1>2, Numbers DEF Passed, Owed, cacheVars, sessVars, podVars
<1>6. OfRevision'
  BY <1>1, <1>2, Numbers DEF Passed, OfRevision, cacheVars, sessVars, podVars
<1>7. (NoneLost <=> NoneLost') /\ left'.pod <= PodLosses
  BY <1>1, <1>2 DEF NoneLost
<1>8. NoneLost' => OnePod'
  BY <1>1, <1>2, <1>3, <1>7, Numbers DEF Passed, OfRevision, OnePod, Relied, Past, Installed,
     Marked, cacheVars, sessVars, podVars
<1>9. NoneLost' => Relied'
  BY <1>1, <1>2, <1>3, <1>7, Numbers DEF Passed, Owed, OfRevision, OnePod, Relied, Past,
     Installed, Marked, cacheVars, sessVars, podVars
<1>10. NoneLost' => Marked'
  BY <1>1, <1>2, <1>3, <1>7, Numbers DEF Passed, OfRevision, OnePod, Relied, Past, Installed,
     Marked, cacheVars, sessVars, podVars
<1>11. NoneLost' => Reported'
  BY <1>1, <1>2, <1>3, <1>7, Numbers DEF Passed, Relied, Past, Installed, OnePod, Reported,
     Marked, OfRevision, cacheVars, sessVars, podVars
<1> QED
  BY <1>4, <1>5, <1>6, <1>7, <1>8, <1>9, <1>10, <1>11 DEF RestInv

\* The pod is marked, and the workspace is ready.
LEMMA MarkRest ==
    ASSUME RestInv, TypeOK', MarkInitialized
    PROVE  RestInv'
<1>1. /\ pc = "annotate" /\ left'.pod = left.pod
      /\ \/ /\ pc' = "status" /\ inst'.status.ready = "True" /\ inst'.gen = inst.gen /\ sess'.next = "stop"
            /\ pod.state # "none" /\ pod'.annotated /\ UNCHANGED cacheVars
         \/ /\ pc' = "idle" /\ inst'.gen = 1 /\ queue' /\ cache' = cache
            /\ pod'.annotated = pod.annotated
      /\ pod'.state = pod.state /\ pod'.rev = pod.rev /\ pod'.configured = pod.configured
      /\ pod'.installed = pod.installed
      /\ UNCHANGED <<obj, ss, podCache>>
  <2>1. left'.pod = left.pod
    BY FaultType DEF MarkInitialized, RestInv
  <2>2. CASE /\ pod.state # "none" /\ pod' = [pod EXCEPT !.annotated = TRUE]
             /\ Report("True", inst.status.stalled, "stop")
    <3>1. /\ pod'.annotated /\ pod'.state = pod.state /\ pod'.rev = pod.rev
          /\ pod'.configured = pod.configured /\ pod'.installed = pod.installed
      BY <2>2 DEF RestInv, TypeOK, Pods
    <3> QED
      BY <2>1, <2>2, <3>1, ReportType, StalledType DEF MarkInitialized, RestInv
  <2>3. CASE UNCHANGED pod /\ Finish("error")
    BY <2>1, <2>3 DEF MarkInitialized, Finish, NewWorkspace
  <2> QED
    BY <2>2, <2>3 DEF MarkInitialized
<1>2. TypeOK /\ Passed /\ Owed /\ OfRevision /\ left.pod <= PodLosses
  BY DEF RestInv
<1>3. NoneLost => OnePod /\ Relied /\ Marked /\ Reported
  BY DEF RestInv
<1>4. Passed'
  BY <1>1, <1>2, Numbers DEF Passed, OfRevision, cacheVars, sessVars, podVars
<1>5. Owed'
  BY <1>1, <1>2, Numbers DEF Passed, Owed, cacheVars, sessVars, podVars
<1>6. OfRevision'
  BY <1>1, <1>2, Numbers DEF Passed, OfRevision, cacheVars, sessVars, podVars
<1>7. (NoneLost <=> NoneLost') /\ left'.pod <= PodLosses
  BY <1>1, <1>2 DEF NoneLost
<1>8. NoneLost' => OnePod'
  BY <1>1, <1>2, <1>3, <1>7, Numbers DEF Passed, OfRevision, OnePod, Relied, Past, Installed,
     Marked, cacheVars, sessVars, podVars
<1>9. NoneLost' => Relied'
  BY <1>1, <1>2, <1>3, <1>7, Numbers DEF Passed, Owed, OfRevision, OnePod, Relied, Past,
     Installed, Marked, cacheVars, sessVars, podVars
<1>10. NoneLost' => Marked'
  BY <1>1, <1>2, <1>3, <1>7, Numbers DEF Passed, OfRevision, OnePod, Relied, Past, Installed,
     Marked, cacheVars, sessVars, podVars
<1>11. NoneLost' => Reported'
  BY <1>1, <1>2, <1>3, <1>7, Numbers DEF Passed, Relied, Past, Installed, OnePod, Reported,
     Marked, OfRevision, cacheVars, sessVars, podVars
<1> QED
  BY <1>4, <1>5, <1>6, <1>7, <1>8, <1>9, <1>10, <1>11 DEF RestInv

\* The status is written, and the local copy refreshed; or the reconcile is tried again.
LEMMA StatusRest ==
    ASSUME RestInv, TypeOK', UpdateStatus
    PROVE  RestInv'
<1>1. /\ pc = "status" /\ left'.pod = left.pod /\ cache' = cache /\ (queue => queue') /\ (timer => timer')
      /\ obj'.gen = obj.gen /\ obj'.deleting = obj.deleting /\ obj'.exists = obj.exists
      /\ \/ /\ obj'.status.ready = inst.status.ready
            /\ \/ sess.next \in {"install", "initialize"} /\ pc' = sess.next /\ inst' = obj' /\ sess' = sess
               \/ pc' = "idle" /\ inst'.gen = 1
         \/ obj' = obj /\ pc' = "idle" /\ inst'.gen = 1 /\ queue'
      /\ UNCHANGED <<podVars, podCache>>
  <2>1. left'.pod = left.pod
    BY FaultType DEF UpdateStatus, RestInv
  <2>2. CASE /\ obj' = [obj EXCEPT !.status = [inst.status EXCEPT !.obsGen = inst.gen]]
             /\ IF sess.next \in {"install", "initialize"}
                THEN Goto(sess.next, obj', sess)
                ELSE Finish(sess.next)
    <3>1. /\ obj'.gen = obj.gen /\ obj'.deleting = obj.deleting /\ obj'.exists = obj.exists
          /\ obj'.status.ready = inst.status.ready
      BY <2>2 DEF RestInv, TypeOK, Objects, Statuses
    <3>2. CASE sess.next \in {"install", "initialize"}
      BY <2>1, <2>2, <3>1, <3>2 DEF UpdateStatus, Goto, cacheVars
    <3>3. CASE sess.next \notin {"install", "initialize"}
      BY <2>1, <2>2, <3>1, <3>3 DEF UpdateStatus, Finish, NewWorkspace, RestInv, TypeOK
    <3> QED
      BY <3>2, <3>3
  <2>3. CASE UNCHANGED obj /\ Finish("error")
    BY <2>1, <2>3 DEF UpdateStatus, Finish, NewWorkspace
  <2> QED
    BY <2>2, <2>3 DEF UpdateStatus
<1>2. TypeOK /\ Passed /\ Owed /\ OfRevision /\ left.pod <= PodLosses
  BY DEF RestInv
<1>3. NoneLost => OnePod /\ Relied /\ Marked /\ Reported
  BY DEF RestInv
<1>4. Passed'
  BY <1>1, <1>2, Numbers DEF Passed, OfRevision, cacheVars, sessVars, podVars
<1>5. Owed'
  BY <1>1, <1>2, Numbers DEF Passed, Owed, cacheVars, sessVars, podVars
<1>6. OfRevision'
  BY <1>1, <1>2, Numbers DEF Passed, OfRevision, cacheVars, sessVars, podVars
<1>7. (NoneLost <=> NoneLost') /\ left'.pod <= PodLosses
  BY <1>1, <1>2 DEF NoneLost
<1>8. NoneLost' => OnePod'
  BY <1>1, <1>2, <1>3, <1>7, Numbers DEF Passed, OfRevision, OnePod, Relied, Past, Installed,
     Marked, cacheVars, sessVars, podVars
<1>9. NoneLost' => Relied'
  BY <1>1, <1>2, <1>3, <1>7, Numbers DEF Passed, Owed, OfRevision, OnePod, Relied, Past,
     Installed, Marked, cacheVars, sessVars, podVars
<1>10. NoneLost' => Marked'
  BY <1>1, <1>2, <1>3, <1>7, Numbers DEF Passed, OfRevision, OnePod, Relied, Past, Installed,
     Marked, cacheVars, sessVars, podVars
<1>11. NoneLost' => Reported'
  BY <1>1, <1>2, <1>3, <1>7, Numbers DEF Passed, Relied, Past, Installed, OnePod, Reported,
     Marked, OfRevision, cacheVars, sessVars, podVars
<1> QED
  BY <1>4, <1>5, <1>6, <1>7, <1>8, <1>9, <1>10, <1>11 DEF RestInv

\* A restart reads everything again.
LEMMA CrashRest ==
    ASSUME RestInv, TypeOK', Crash
    PROVE  RestInv'
<1>1. /\ pc' = "idle" /\ inst'.gen = 1 /\ cache' = obj /\ queue' /\ left'.pod = left.pod
      /\ podCache'.rev = pod.rev /\ (podCache'.found => pod.state # "none")
      /\ (podCache'.annotated => pod.annotated)
      /\ UNCHANGED <<obj, ss, pod>>
  <2>1. left'.pod = left.pod
    BY FaultType DEF Crash, RestInv
  <2> QED
    BY <2>1 DEF Crash, Seen, NewWorkspace
<1>2. TypeOK /\ Passed /\ Owed /\ OfRevision /\ left.pod <= PodLosses
  BY DEF RestInv
<1>3. NoneLost => OnePod /\ Relied /\ Marked /\ Reported
  BY DEF RestInv
<1>4. Passed'
  BY <1>1, <1>2, Numbers DEF Passed, OfRevision, cacheVars, sessVars, podVars
<1>5. Owed'
  BY <1>1, <1>2, Numbers DEF Passed, Owed, cacheVars, sessVars, podVars
<1>6. OfRevision'
  BY <1>1, <1>2, Numbers DEF Passed, OfRevision, cacheVars, sessVars, podVars
<1>7. (NoneLost <=> NoneLost') /\ left'.pod <= PodLosses
  BY <1>1, <1>2 DEF NoneLost
<1>8. NoneLost' => OnePod'
  BY <1>1, <1>2, <1>3, <1>7, Numbers DEF Passed, OfRevision, OnePod, Relied, Past, Installed,
     Marked, cacheVars, sessVars, podVars
<1>9. NoneLost' => Relied'
  BY <1>1, <1>2, <1>3, <1>7, Numbers DEF Passed, Owed, OfRevision, OnePod, Relied, Past,
     Installed, Marked, cacheVars, sessVars, podVars
<1>10. NoneLost' => Marked'
  BY <1>1, <1>2, <1>3, <1>7, Numbers DEF Passed, OfRevision, OnePod, Relied, Past, Installed,
     Marked, cacheVars, sessVars, podVars
<1>11. NoneLost' => Reported'
  BY <1>1, <1>2, <1>3, <1>7, Numbers DEF Passed, Relied, Past, Installed, OnePod, Reported,
     Marked, OfRevision, cacheVars, sessVars, podVars
<1> QED
  BY <1>4, <1>5, <1>6, <1>7, <1>8, <1>9, <1>10, <1>11 DEF RestInv

LEMMA RestStep == RestInv /\ [Next]_vars => RestInv'
<1> SUFFICES ASSUME RestInv, [Next]_vars PROVE RestInv'
  OBVIOUS
<1>1. TypeOK'
  BY TypeStep DEF RestInv
<1> QED
  BY <1>1, UserRest, SyncRest, RollRest, RecreateRest, PodStartsRest, PodLostRest, StartRest,
     ApplyRest, ReadPodRest, ConnectRest, VersionRest, InstallRest, InitializeRest,
     MarkRest, StatusRest, CrashRest
     DEF Next, World, Reconcile

\* At rest the template is that of the current generation, so is the pod.
LEMMA RestImplies == RestInv => ReadyAtRest
<1> SUFFICES ASSUME RestInv, IsWorkspaceReady, AtRest
             PROVE  /\ pod.rev = obj.gen
                    /\ (left.pod = PodLosses) => PreparedFor(obj.gen)
  BY DEF ReadyAtRest
<1>1. ss.template = obj.gen /\ ss.update = obj.gen
  BY DEF RestInv, Owed, IsWorkspaceReady, AtRest
<1>2. pod.rev = obj.gen
  BY <1>1 DEF RestInv, OfRevision, AtRest
<1>3. ASSUME left.pod = PodLosses PROVE PreparedFor(obj.gen)
  <2>1. pod.annotated
    BY <1>3 DEF RestInv, NoneLost, Reported, IsWorkspaceReady, AtRest
  <2>2. pod.configured = obj.gen /\ (pod.installed \/ obj.gen \in NoProgram)
    BY <1>1, <1>3, <2>1, Numbers DEF RestInv, NoneLost, Marked, Installed
  <2> QED
    BY <1>2, <2>2 DEF PreparedFor, AtRest
<1> QED
  BY <1>2, <1>3

(* A Workspace that the reconciler leaves as ready has a pod of its current    *)
(* generation, which was installed and configured for it unless a pod was      *)
(* lost: although the status names the generation that the last response       *)
(* happened to carry, and the pod was read from a cache (Reconcile,            *)
(* isStatefulSetReady, updateStatus in workspace_controller.go).               *)
THEOREM ReadyIsPrepared == Spec => []ReadyAtRest
BY InitRest, RestStep, RestImplies, PTL DEF Spec
=============================================================================
