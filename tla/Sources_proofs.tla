---------------------------- MODULE Sources_proofs ----------------------------
(***************************************************************************)
(* Proofs about the way from a source to the pod, for any number of Stacks *)
(* and of revisions and any budget of faults.                              *)
(***************************************************************************)
EXTENDS Sources, TLAPS

-----------------------------------------------------------------------------
(* Type correctness.                                                       *)

Budgets == [publish : Nat, watch : Nat, fetch : Nat, pod : Nat]
Programs == [queued : BOOLEAN, busy : Rev]

LEMMA InitType == Init => TypeOK
<1> SUFFICES ASSUME Init PROVE TypeOK
  OBVIOUS
<1>1. 0 \in Rev
  BY ConstantAssumption DEF Rev
<1>2. NewStack \in StackType /\ NoWorkspace \in WorkspaceType /\ NoUpdate \in UpdateType
  BY <1>1 DEF NewStack, StackType, NoWorkspace, WorkspaceType, NoUpdate, UpdateType
<1>3. left \in Budgets /\ program \in Programs
  BY <1>1, ConstantAssumption DEF Init, Budgets, Programs
<1> QED
  BY <1>1, <1>2, <1>3 DEF Init, TypeOK, Budgets, Programs

\* A step that changes what is kept of one Stack.
LEMMA StackChange ==
    ASSUME TypeOK, NEW s \in Stacks, NEW c \in StackType, st' = [st EXCEPT ![s] = c]
    PROVE  st' \in [Stacks -> StackType]
BY DEF TypeOK

LEMMA GotoType ==
    ASSUME TypeOK, NEW s \in Stacks, NEW pc \in {"install", "read"}, Goto(s, pc)
    PROVE  st' \in [Stacks -> StackType]
<1> DEFINE c == [st[s] EXCEPT !.pc = pc]
<1>1. c \in StackType
  BY DEF TypeOK, StackType
<1>2. st' = [st EXCEPT ![s] = c]
  BY DEF Goto
<1> QED
  BY <1>1, <1>2, StackChange

LEMMA StopType ==
    ASSUME TypeOK, NEW s \in Stacks, NEW requeue \in BOOLEAN, Stop(s, requeue)
    PROVE  st' \in [Stacks -> StackType]
<1> DEFINE c == [st[s] EXCEPT !.pc = "idle", !.seen = 0, !.timer = @ \/ requeue]
<1>1. c \in StackType
  <2>1. (st[s].timer \/ requeue) \in BOOLEAN /\ 0 \in Rev /\ st[s] \in StackType
    BY ConstantAssumption DEF TypeOK, Rev
  <2>2. \A b \in BOOLEAN : [st[s] EXCEPT !.pc = "idle", !.seen = 0, !.timer = b] \in StackType
    BY <2>1 DEF StackType
  <2> QED
    BY <2>1, <2>2
<1>2. st' = [st EXCEPT ![s] = c]
  BY DEF Stop, TypeOK, StackType
<1> QED
  BY <1>1, <1>2, StackChange

LEMMA QueuedType ==
    ASSUME TypeOK, NEW s \in Stacks, st' = [st EXCEPT ![s].queued = TRUE]
    PROVE  st' \in [Stacks -> StackType]
BY ZenonT(30) DEF TypeOK, StackType

LEMMA TypeStep == TypeOK /\ [Next]_vars => TypeOK'
<1> SUFFICES ASSUME TypeOK, [Next]_vars PROVE TypeOK'
  OBVIOUS
<1> USE DEF sourceVars, watchVars
<1>1. CASE UNCHANGED vars
  BY <1>1 DEF vars, TypeOK
<1>2. CASE EditSource
  BY <1>2, ConstantAssumption DEF EditSource, TypeOK, Rev
<1>3. CASE PublishFlux
  BY <1>3 DEF PublishFlux, Publish, TypeOK
<1>4. CASE SyncProgram
  <2>1. program' \in Programs
    BY <1>4 DEF SyncProgram, TypeOK, Programs
  <2> QED
    BY <1>4, <2>1 DEF SyncProgram, TypeOK, Programs
<1>5. CASE ReconcileProgram
  <2>1. program' \in Programs
    BY <1>5 DEF ReconcileProgram, TypeOK, Programs
  <2> QED
    BY <1>5, <2>1 DEF ReconcileProgram, TypeOK, Programs
<1>6. CASE PublishProgram
  <2>1. program' \in Programs /\ program.busy \in Rev
    BY <1>6, ConstantAssumption DEF PublishProgram, TypeOK, Programs, Rev
  <2> QED
    BY <1>6, <2>1 DEF PublishProgram, Publish, TypeOK, Programs
<1>7. CASE PublishFails
  <2>1. program' \in Programs
    BY <1>7, ConstantAssumption DEF PublishFails, TypeOK, Programs, Rev
  <2>2. left' \in Budgets
    BY <1>7 DEF PublishFails, TypeOK, Budgets
  <2> QED
    BY <1>7, <2>1, <2>2 DEF PublishFails, TypeOK, Programs, Budgets
<1>8. CASE SourceEvent
  <2>1. st' \in [Stacks -> StackType]
    BY <1>8, ZenonT(30) DEF SourceEvent, TypeOK, StackType
  <2> QED
    BY <1>8, <2>1 DEF SourceEvent, TypeOK
<1>9. ASSUME NEW s \in Stacks, BeginReconcile(s) PROVE TypeOK'
  <2>1. st[s] \in StackType /\ update[s] \in UpdateType /\ NoUpdate \in UpdateType
    BY ConstantAssumption DEF TypeOK, NoUpdate, UpdateType, Rev
  <2>2. CASE update[s].state = "pending"
    <3>1. st' \in [Stacks -> StackType]
      <4>1. st' = [st EXCEPT ![s].queued = FALSE]
        BY <1>9, <2>2 DEF BeginReconcile
      <4> QED
        BY <4>1, ZenonT(30) DEF TypeOK, StackType
    <3> QED
      BY <1>9, <2>2, <3>1 DEF BeginReconcile, TypeOK
  <2>3. CASE update[s].state # "pending"
    <3> DEFINE last == IF update[s].state = "done" THEN update[s].commit ELSE st[s].last
               c == [st[s] EXCEPT !.queued = FALSE, !.timer = FALSE, !.pc = "watch", !.last = last]
    <3>1. last \in Rev
      BY <2>1 DEF StackType, UpdateType
    <3>2. c \in StackType
      BY <2>1, <3>1 DEF StackType
    <3>3. st' = [st EXCEPT ![s] = c]
      BY <1>9, <2>3 DEF BeginReconcile, TypeOK, StackType
    <3> HIDE DEF c
    <3>4. st' \in [Stacks -> StackType]
      BY <3>2, <3>3, StackChange
    <3> QED
      BY <1>9, <2>1, <2>3, <3>4 DEF BeginReconcile, TypeOK
  <2> QED
    BY <2>2, <2>3
<1>10. ASSUME NEW s \in Stacks, MaybeWatch(s) PROVE TypeOK'
  BY <1>10, GotoType DEF MaybeWatch, TypeOK
<1>11. ASSUME NEW s \in Stacks, InstallWatch(s) PROVE TypeOK'
  BY <1>11, GotoType DEF InstallWatch, TypeOK
<1>12. ASSUME NEW s \in Stacks, InstallWatchFails(s) PROVE TypeOK'
  <2>1. left' \in Budgets
    BY <1>12 DEF InstallWatchFails, TypeOK, Budgets
  <2> QED
    BY <1>12, <2>1, StopType DEF InstallWatchFails, TypeOK, Budgets
<1>13. ASSUME NEW s \in Stacks, ReadSource(s) PROVE TypeOK'
  <2>1. CurrentCommit \in Rev
    BY DEF CurrentCommit, TypeOK
  <2>2. st' \in [Stacks -> StackType]
    <3>1. CASE CurrentCommit \in {0, st[s].last}
      BY <1>13, <3>1, StopType DEF ReadSource
    <3>2. CASE CurrentCommit \notin {0, st[s].last}
      <4> DEFINE c == [st[s] EXCEPT !.pc = "apply", !.seen = CurrentCommit]
      <4>1. c \in StackType
        BY <2>1 DEF TypeOK, StackType
      <4>2. st' = [st EXCEPT ![s] = c]
        BY <1>13, <3>2 DEF ReadSource, TypeOK, StackType
      <4> QED
        BY <4>1, <4>2, StackChange
    <3> QED
      BY <3>1, <3>2
  <2> QED
    BY <1>13, <2>2 DEF ReadSource, TypeOK
<1>14. ASSUME NEW s \in Stacks, ApplyWorkspace(s) PROVE TypeOK'
  <2>1. st' \in [Stacks -> StackType]
    BY <1>14, StopType DEF ApplyWorkspace
  <2>2. st[s].seen \in Rev
    BY DEF TypeOK, StackType
  <2>3. CASE ws[s].want # st[s].seen
    <3> DEFINE w == [NoWorkspace EXCEPT !.want = st[s].seen, !.pod = "fetching"]
    <3>1. w \in WorkspaceType
      <4>1. 0 \in Rev
        BY ConstantAssumption DEF Rev
      <4>2. NoWorkspace \in WorkspaceType
        BY <4>1 DEF NoWorkspace, WorkspaceType
      <4> QED
        BY <2>2, <4>2 DEF WorkspaceType
    <3>2. ws' = [ws EXCEPT ![s] = w] /\ update' = update
      BY <1>14, <2>3 DEF ApplyWorkspace
    <3> HIDE DEF w
    <3> QED
      BY <1>14, <2>1, <3>1, <3>2 DEF ApplyWorkspace, TypeOK
  <2>4. CASE ws[s].want = st[s].seen
    <3>1. update' \in [Stacks -> UpdateType]
      <4>1. CASE ws[s].pod = "ready"
        <5> DEFINE u == [update[s] EXCEPT !.state = "pending", !.commit = st[s].seen]
        <5>1. u \in UpdateType
          BY <2>2 DEF TypeOK, UpdateType
        <5>2. update' = [update EXCEPT ![s] = u]
          BY <1>14, <2>4, <4>1 DEF ApplyWorkspace, TypeOK, UpdateType
        <5> QED
          BY <5>1, <5>2 DEF TypeOK
      <4>2. CASE ws[s].pod # "ready"
        BY <1>14, <2>4, <4>2 DEF ApplyWorkspace, TypeOK
      <4> QED
        BY <4>1, <4>2
    <3> QED
      BY <1>14, <2>1, <2>4, <3>1 DEF ApplyWorkspace, TypeOK
  <2> QED
    BY <2>3, <2>4
<1>15. ASSUME NEW s \in Stacks, TimerFires(s) PROVE TypeOK'
  <2> DEFINE c == [st[s] EXCEPT !.timer = FALSE, !.queued = TRUE]
  <2>1. st' \in [Stacks -> StackType]
    <3>1. st[s] \in StackType
      BY DEF TypeOK
    <3>2. c \in StackType
      BY <3>1 DEF StackType
    <3>3. st' = [st EXCEPT ![s] = c]
      BY <1>15 DEF TimerFires, TypeOK, StackType
    <3> HIDE DEF c
    <3> QED
      BY <3>2, <3>3, StackChange
  <2> QED
    BY <1>15, <2>1 DEF TimerFires, TypeOK
<1>16. ASSUME NEW s \in Stacks, Fetch(s) \/ FetchFoundClone(s) PROVE TypeOK'
  <2>1. PICK r \in Rev : PodReady(s, r)
    <3>1. 0 \in Rev /\ ws[s].want \in Rev
      BY ConstantAssumption DEF TypeOK, Rev, WorkspaceType
    <3> QED
      BY <1>16, <3>1 DEF Fetch, FetchFoundClone
  <2>2. ws' \in [Stacks -> WorkspaceType]
    BY <2>1, ZenonT(30) DEF PodReady, TypeOK, WorkspaceType
  <2>3. st' \in [Stacks -> StackType]
    BY <2>1, QueuedType DEF PodReady
  <2> QED
    BY <1>16, <2>1, <2>2, <2>3 DEF Fetch, FetchFoundClone, PodReady, TypeOK
<1>17. ASSUME NEW s \in Stacks, FetchCutShort(s) PROVE TypeOK'
  <2>1. left' \in Budgets
    BY <1>17 DEF FetchCutShort, TypeOK, Budgets
  <2>2. ws' \in [Stacks -> WorkspaceType]
    BY <1>17, ZenonT(30) DEF FetchCutShort, TypeOK, WorkspaceType
  <2> QED
    BY <1>17, <2>1, <2>2 DEF FetchCutShort, TypeOK, Budgets
<1>18. ASSUME NEW s \in Stacks, PodLost(s) PROVE TypeOK'
  <2>1. left' \in Budgets
    BY <1>18 DEF PodLost, TypeOK, Budgets
  <2>2. ws' \in [Stacks -> WorkspaceType]
    <3> DEFINE w == [ws[s] EXCEPT !.pod = "fetching", !.has = 0, !.cut = FALSE]
    <3>1. 0 \in Rev
      BY ConstantAssumption DEF Rev
    <3>2. w \in WorkspaceType
      BY <3>1 DEF TypeOK, WorkspaceType
    <3>3. ws' = [ws EXCEPT ![s] = w]
      BY <1>18 DEF PodLost, TypeOK, WorkspaceType
    <3> QED
      BY <3>2, <3>3 DEF TypeOK
  <2> QED
    BY <1>18, <2>1, <2>2 DEF PodLost, TypeOK, Budgets
<1>19. ASSUME NEW s \in Stacks, RunUpdate(s) PROVE TypeOK'
  <2>1. update' \in [Stacks -> UpdateType]
    <3> DEFINE u == [update[s] EXCEPT !.state = "done", !.ran = ws[s].has, !.cut = ws[s].cut]
    <3>1. u \in UpdateType
      BY ZenonT(30) DEF TypeOK, UpdateType, WorkspaceType
    <3>2. update' = [update EXCEPT ![s] = u]
      BY <1>19 DEF RunUpdate, TypeOK, UpdateType
    <3> QED
      BY <3>1, <3>2 DEF TypeOK
  <2>2. st' \in [Stacks -> StackType]
    BY <1>19, QueuedType DEF RunUpdate
  <2> QED
    BY <1>19, <2>1, <2>2 DEF RunUpdate, TypeOK
<1> QED
  BY <1>1, <1>2, <1>3, <1>4, <1>5, <1>6, <1>7, <1>8, <1>9, <1>10, <1>11, <1>12, <1>13, <1>14,
     <1>15, <1>16, <1>17, <1>18, <1>19 DEF Next, SourceStep, StackStep, PodStep

(* Sources, watches, Stacks, workspaces and Updates keep their types.      *)
THEOREM TypeCorrect == Spec => []TypeOK
BY InitType, TypeStep, PTL DEF Spec

-----------------------------------------------------------------------------
(* The watches.                                                            *)

\* The mark of a kind stands for one handler: installed, or about to be by the
\* one reconcile that set the mark.
OneWatcher ==
    /\ handlers <= 1
    /\ \A s \in Stacks : st[s].pc = "install" => kind = "flux" /\ watched /\ handlers = 0
    /\ \A s, t \in Stacks : st[s].pc = "install" /\ st[t].pc = "install" => s = t
    /\ kind = "flux" /\ ~watched => handlers = 0

\* No reconcile starts or stops installing a watch.
LEMMA WatcherKept ==
    ASSUME OneWatcher, UNCHANGED <<kind, watched, handlers>>,
           \A s \in Stacks : st'[s].pc = "install" => st[s].pc = "install"
    PROVE  OneWatcher'
BY DEF OneWatcher

LEMMA StopEffect ==
    ASSUME TypeOK, NEW s \in Stacks, NEW requeue, Stop(s, requeue)
    PROVE  st'[s].pc = "idle" /\ \A t \in Stacks \ {s} : st'[t] = st[t]
BY DEF Stop, TypeOK, StackType

LEMMA GotoEffect ==
    ASSUME TypeOK, NEW s \in Stacks, NEW pc, Goto(s, pc)
    PROVE  st'[s].pc = pc /\ \A t \in Stacks \ {s} : st'[t] = st[t]
BY DEF Goto, TypeOK, StackType

LEMMA WatcherStep == TypeOK /\ OneWatcher /\ [Next]_vars => OneWatcher'
<1> SUFFICES ASSUME TypeOK, OneWatcher, [Next]_vars PROVE OneWatcher'
  OBVIOUS
<1> USE DEF watchVars
<1>1. CASE \/ UNCHANGED vars \/ EditSource \/ PublishFlux \/ SyncProgram \/ ReconcileProgram
           \/ PublishProgram \/ PublishFails
           \/ \E s \in Stacks : FetchCutShort(s) \/ PodLost(s)
  <2>1. UNCHANGED <<kind, watched, handlers, st>>
    BY <1>1 DEF vars, EditSource, PublishFlux, Publish, SyncProgram, ReconcileProgram, PublishProgram,
                PublishFails, FetchCutShort, PodLost
  <2> QED
    BY <2>1, WatcherKept
<1>2. CASE SourceEvent
  BY <1>2, WatcherKept DEF SourceEvent, TypeOK, StackType
<1>3. ASSUME NEW s \in Stacks, BeginReconcile(s) \/ TimerFires(s) \/ RunUpdate(s)
      PROVE  OneWatcher'
  BY <1>3, WatcherKept DEF BeginReconcile, TimerFires, RunUpdate, TypeOK, StackType
<1>4. ASSUME NEW s \in Stacks, Fetch(s) \/ FetchFoundClone(s) PROVE OneWatcher'
  BY <1>4, WatcherKept, SMTT(20) DEF Fetch, FetchFoundClone, PodReady, TypeOK, StackType
<1>5. ASSUME NEW s \in Stacks, ReadSource(s) PROVE OneWatcher'
  <2>1. \A t \in Stacks : st'[t].pc = "install" => st[t].pc = "install"
    BY <1>5, StopEffect DEF ReadSource, TypeOK, StackType
  <2> QED
    BY <1>5, <2>1, WatcherKept DEF ReadSource
<1>6. ASSUME NEW s \in Stacks, ApplyWorkspace(s) PROVE OneWatcher'
  <2>1. \A t \in Stacks : st'[t].pc = "install" => st[t].pc = "install"
    BY <1>6, StopEffect DEF ApplyWorkspace
  <2> QED
    BY <1>6, <2>1, WatcherKept DEF ApplyWorkspace
<1>7. ASSUME NEW s \in Stacks, MaybeWatch(s) PROVE OneWatcher'
  <2>1. CASE kind = "flux" /\ ~watched
    <3>1. watched' /\ Goto(s, "install") /\ UNCHANGED <<kind, handlers>>
      BY <1>7, <2>1 DEF MaybeWatch
    <3>2. handlers = 0 /\ \A t \in Stacks : st[t].pc # "install"
      BY <2>1 DEF OneWatcher
    <3> QED
      BY <2>1, <3>1, <3>2, GotoEffect DEF OneWatcher
  <2>2. CASE ~(kind = "flux" /\ ~watched)
    <3>1. Goto(s, "read") /\ UNCHANGED <<kind, watched, handlers>>
      BY <1>7, <2>2 DEF MaybeWatch
    <3> QED
      BY <3>1, GotoEffect, WatcherKept
  <2> QED
    BY <2>1, <2>2
<1>8. ASSUME NEW s \in Stacks, InstallWatch(s) PROVE OneWatcher'
  <2>1. /\ st[s].pc = "install" /\ handlers' = handlers + 1 /\ UNCHANGED <<kind, watched>>
        /\ Goto(s, "read")
    BY <1>8 DEF InstallWatch
  <2>2. handlers' = 1 /\ kind = "flux" /\ watched
    BY <2>1 DEF OneWatcher
  <2>3. \A t \in Stacks : st'[t].pc # "install"
    BY <2>1, GotoEffect DEF OneWatcher
  <2> QED
    BY <2>1, <2>2, <2>3 DEF OneWatcher
<1>9. ASSUME NEW s \in Stacks, InstallWatchFails(s) PROVE OneWatcher'
  <2>1. st[s].pc = "install" /\ Stop(s, FALSE) /\ UNCHANGED <<kind, handlers>>
    BY <1>9 DEF InstallWatchFails
  <2>2. handlers = 0
    BY <2>1 DEF OneWatcher
  <2>3. \A t \in Stacks : st'[t].pc # "install"
    BY <2>1, StopEffect DEF OneWatcher
  <2> QED
    BY <2>1, <2>2, <2>3 DEF OneWatcher
<1> QED
  BY <1>1, <1>2, <1>3, <1>4, <1>5, <1>6, <1>7, <1>8, <1>9 DEF Next, SourceStep, StackStep, PodStep

(* However many Stacks name a new kind of source at once, and however often *)
(* its watch fails to start, at most one handler is installed for the kind. *)
THEOREM WatchedOnce == Spec => []OneHandler
<1>1. Init => OneWatcher
  BY DEF Init, OneWatcher, NewStack, Kinds
<1>2. OneWatcher => OneHandler
  BY DEF OneWatcher, OneHandler
<1> QED
  BY <1>1, <1>2, WatcherStep, TypeCorrect, PTL DEF Spec

-----------------------------------------------------------------------------
(* What an Update runs.                                                    *)

\* A pod that is ready has the revision that its workspace wants, an Update that
\* waits names that revision, and the workspace stays as it is meanwhile.
Named ==
    \A s \in Stacks :
        /\ ws[s].pod = "ready" => ws[s].has = ws[s].want \/ ws[s].cut
        /\ st[s].pc # "idle" => update[s].state = "none"
        /\ update[s].state = "pending" => update[s].commit = ws[s].want
        /\ update[s].state = "done" => update[s].ran = update[s].commit \/ update[s].cut

\* A step that changes nothing but the queues.
LEMMA NamedKept ==
    ASSUME Named, UNCHANGED <<ws, update>>,
           \A s \in Stacks : st'[s].pc # "idle" => st[s].pc # "idle"
    PROVE  Named'
BY DEF Named

LEMMA NamedStep == TypeOK /\ Named /\ [Next]_vars => Named'
<1> SUFFICES ASSUME TypeOK, Named, [Next]_vars PROVE Named'
  OBVIOUS
<1>1. CASE \/ UNCHANGED vars \/ EditSource \/ PublishFlux \/ SyncProgram \/ ReconcileProgram
           \/ PublishProgram \/ PublishFails
  <2>1. UNCHANGED <<st, ws, update>>
    BY <1>1 DEF vars, EditSource, PublishFlux, Publish, SyncProgram, ReconcileProgram, PublishProgram,
                PublishFails
  <2> QED
    BY <2>1, NamedKept
<1>2. CASE SourceEvent
  BY <1>2, NamedKept DEF SourceEvent, TypeOK, StackType
<1>3. ASSUME NEW s \in Stacks, BeginReconcile(s) PROVE Named'
  <2>1. CASE update[s].state = "pending"
    BY <1>3, <2>1, NamedKept DEF BeginReconcile, TypeOK, StackType
  <2>2. CASE update[s].state # "pending"
    <3>1. update' = [update EXCEPT ![s] = NoUpdate] /\ ws' = ws
      BY <1>3, <2>2 DEF BeginReconcile
    <3>2. \A t \in Stacks \ {s} : st'[t] = st[t]
      BY <1>3, <2>2 DEF BeginReconcile, TypeOK
    <3> QED
      BY <3>1, <3>2 DEF Named, NoUpdate, TypeOK
  <2> QED
    BY <2>1, <2>2
<1>4. ASSUME NEW s \in Stacks, TimerFires(s) PROVE Named'
  BY <1>4, NamedKept DEF TimerFires, TypeOK, StackType
<1>5. ASSUME NEW s \in Stacks, MaybeWatch(s) \/ InstallWatch(s) PROVE Named'
  <2>1. \E pc \in {"install", "read"} : Goto(s, pc)
    BY <1>5 DEF MaybeWatch, InstallWatch
  <2>2. st[s].pc # "idle" /\ UNCHANGED <<ws, update>>
    BY <1>5 DEF MaybeWatch, InstallWatch
  <2> QED
    BY <2>1, <2>2, GotoEffect, NamedKept
<1>6. ASSUME NEW s \in Stacks, InstallWatchFails(s) PROVE Named'
  BY <1>6, StopEffect, NamedKept DEF InstallWatchFails
<1>7. ASSUME NEW s \in Stacks, ReadSource(s) PROVE Named'
  <2>1. \A t \in Stacks : st'[t].pc # "idle" => st[t].pc # "idle"
    BY <1>7, StopEffect DEF ReadSource, TypeOK, StackType
  <2> QED
    BY <1>7, <2>1, NamedKept DEF ReadSource
<1>8. ASSUME NEW s \in Stacks, ApplyWorkspace(s) PROVE Named'
  <2>1. st'[s].pc = "idle" /\ \A t \in Stacks \ {s} : st'[t] = st[t]
    BY <1>8, StopEffect DEF ApplyWorkspace
  <2>2. update[s].state = "none"
    BY <1>8 DEF Named, ApplyWorkspace
  <2>3. CASE ws[s].want # st[s].seen
    <3> DEFINE w == [NoWorkspace EXCEPT !.want = st[s].seen, !.pod = "fetching"]
    <3>1. /\ update' = update /\ ws'[s].pod = "fetching"
          /\ \A t \in Stacks \ {s} : ws'[t] = ws[t]
      <4>1. w.pod = "fetching"
        BY DEF NoWorkspace
      <4>2. ws' = [ws EXCEPT ![s] = w] /\ update' = update
        BY <1>8, <2>3 DEF ApplyWorkspace
      <4>3. ws \in [Stacks -> WorkspaceType]
        BY DEF TypeOK
      <4> HIDE DEF w
      <4> QED
        BY <4>1, <4>2, <4>3
    <3> QED
      BY <2>1, <2>2, <3>1 DEF Named
  <2>4. CASE ws[s].want = st[s].seen /\ ws[s].pod = "ready"
    <3>1. /\ ws' = ws /\ update'[s].state = "pending" /\ update'[s].commit = ws[s].want
          /\ \A t \in Stacks \ {s} : update'[t] = update[t]
      BY <1>8, <2>4 DEF ApplyWorkspace, TypeOK, UpdateType
    <3> QED
      BY <2>1, <3>1 DEF Named
  <2>5. CASE ws[s].want = st[s].seen /\ ws[s].pod # "ready"
    BY <1>8, <2>1, <2>5, NamedKept DEF ApplyWorkspace
  <2> QED
    BY <2>3, <2>4, <2>5
<1>9. ASSUME NEW s \in Stacks, Fetch(s) \/ FetchFoundClone(s) PROVE Named'
  <2>1. update' = update /\ \A t \in Stacks : st'[t].pc = st[t].pc
    BY <1>9 DEF Fetch, FetchFoundClone, PodReady, TypeOK, StackType
  <2>2. /\ ws'[s].want = ws[s].want /\ (ws'[s].has = ws[s].want \/ ws'[s].cut)
        /\ \A t \in Stacks \ {s} : ws'[t] = ws[t]
    BY <1>9 DEF Fetch, FetchFoundClone, PodReady, TypeOK, WorkspaceType
  <2> QED
    BY <2>1, <2>2 DEF Named
<1>10. ASSUME NEW s \in Stacks, FetchCutShort(s) \/ PodLost(s) PROVE Named'
  <2>1. /\ ws'[s].want = ws[s].want /\ ws'[s].pod = "fetching"
        /\ \A t \in Stacks \ {s} : ws'[t] = ws[t]
        /\ UNCHANGED <<st, update>>
    BY <1>10 DEF FetchCutShort, PodLost, TypeOK, WorkspaceType
  <2> QED
    BY <2>1 DEF Named
<1>11. ASSUME NEW s \in Stacks, RunUpdate(s) PROVE Named'
  <2>1. ws' = ws /\ \A t \in Stacks : st'[t].pc = st[t].pc
    BY <1>11 DEF RunUpdate, TypeOK, StackType
  <2>2. /\ update'[s].state = "done" /\ update'[s].ran = ws[s].has /\ update'[s].cut = ws[s].cut
        /\ update'[s].commit = update[s].commit
        /\ \A t \in Stacks \ {s} : update'[t] = update[t]
    BY <1>11 DEF RunUpdate, TypeOK, UpdateType
  <2>3. update[s].state = "pending" /\ ws[s].pod = "ready"
    BY <1>11 DEF RunUpdate
  <2> QED
    BY <2>1, <2>2, <2>3 DEF Named
<1> QED
  BY <1>1, <1>2, <1>3, <1>4, <1>5, <1>6, <1>7, <1>8, <1>9, <1>10, <1>11
     DEF Next, SourceStep, StackStep, PodStep

(* The commit that a Stack reports for an update is the one that ran in its *)
(* pod, however the source, the workspace and the pod change meanwhile,     *)
(* unless the clone was cut short.                                          *)
THEOREM RunsWhatItNames == Spec => []RanAsNamed
<1>1. Init => Named
  <2> SUFFICES ASSUME Init, NEW s \in Stacks
               PROVE  ws[s].pod = "none" /\ st[s].pc = "idle" /\ update[s].state = "none"
    BY DEF Named
  <2> QED
    BY DEF Init, NewStack, NoWorkspace, NoUpdate
<1>2. Named => RanAsNamed
  BY DEF Named, RanAsNamed
<1> QED
  BY <1>1, <1>2, NamedStep, TypeCorrect, PTL DEF Spec

=============================================================================
