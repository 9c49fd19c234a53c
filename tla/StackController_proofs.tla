------------------------ MODULE StackController_proofs ------------------------
(***************************************************************************)
(* Proofs about the Stack reconciler, for every value of the constants.    *)
(***************************************************************************)
EXTENDS StackController, TLAPS

-----------------------------------------------------------------------------
(* Type correctness.                                                       *)

\* A status write takes the status fields of a typed object and stays typed.
LEMMA WithStatusType ==
    ASSUME NEW p \in Objects, NEW o \in Objects
    PROVE  WithStatus(p, o) \in Objects
BY DEF WithStatus, Objects

LEMMA NilTypes == NilLast \in LastUpdates /\ NilCurrent \in CurrentUpdates
BY BoundAssumption DEF NilLast, NilCurrent, LastUpdates, CurrentUpdates, Revisions, Names, Types

LEMMA NewStackType == NewStack \in Objects
BY SpecAssumption, NilTypes DEF NewStack, Objects, Conditions

LEMMA IdleType == Idle \in Sessions
BY SpecAssumption, BoundAssumption DEF Idle, Sessions, Revisions, Names, Types

LEMMA NoUpdateType == NoUpdate \in UpdateObjects
BY SpecAssumption DEF NoUpdate, UpdateObjects, NoContent, Content, Revisions, Types

LEMMA InitType == Init => TypeOK
<1> SUFFICES ASSUME Init PROVE TypeOK
  OBVIOUS
<1>1. left \in [api : Nat, crash : Nat, ws : Nat, run : Nat, src : Nat, del : Nat]
  BY BoundAssumption DEF Init
<1>2. ws \in [state : {"absent", "pending", "ready", "stalled", "deleting"}, content : Content]
  BY SpecAssumption DEF Init, NoContent, Content, Revisions
<1>3. names \in 0..MaxUpdates
  BY BoundAssumption DEF Init
<1> QED
  BY <1>1, <1>2, <1>3, NewStackType, IdleType, NoUpdateType DEF Init, TypeOK

\* The part of the type invariant that the ways to go on or end disturb.
SessionOK ==
    /\ queue \in BOOLEAN /\ timer \in BOOLEAN
    /\ pc \in {"idle", "addFinalizer", "decide", "save", "reclaim", "apply",
               "create", "addUpdateFinalizer", "release", "finalize"}
    /\ inst \in Objects /\ sess \in Sessions

LEMMA EndTypes ==
    ASSUME TypeOK, Stop \/ Later \/ Retry
    PROVE  SessionOK'
BY NewStackType, IdleType DEF TypeOK, SessionOK, Stop, Later, Retry, Finish, queueVars

LEMMA GotoType ==
    ASSUME TypeOK, NEW p \in {"decide", "save", "reclaim", "apply",
                              "create", "addUpdateFinalizer", "release", "finalize"},
           NEW o \in Objects, NEW s \in Sessions, Goto(p, o, s)
    PROVE  SessionOK'
BY DEF TypeOK, SessionOK, Goto, queueVars

LEMMA SaveType ==
    ASSUME TypeOK, NEW o \in Objects, NEW s \in Sessions,
           NEW after \in {"stop", "later", "error", "release", "finalize", "apply", "create"},
           Save(o, s, after)
    PROVE  SessionOK'
<1>1. [s EXCEPT !.after = after] \in Sessions
  BY DEF Sessions
<1> QED
  BY <1>1, GotoType DEF Save

LEMMA ProceedType ==
    ASSUME TypeOK, NEW o \in Objects, NEW s \in Sessions, Proceed(o, s)
    PROVE  SessionOK'
<1>1. CASE s.after \in {"stop", "later", "error"}
  BY <1>1, EndTypes DEF Proceed
<1>2. CASE s.after \notin {"stop", "later", "error"}
  <2>1. s.after \in {"release", "finalize", "apply", "create"}
    BY <1>2 DEF Sessions
  <2> QED
    BY <1>2, <2>1, GotoType DEF Proceed
<1> QED
  BY <1>1, <1>2

\* Changes of a single Update keep the function typed.
LEMMA UpdateRecordTypes ==
    ASSUME NEW r \in UpdateObjects
    PROVE  ReleasedUpdate(r) \in UpdateObjects /\ DeletedUpdate(r) \in UpdateObjects
BY DEF ReleasedUpdate, DeletedUpdate, UpdateObjects

LEMMA UnfinalizedType ==
    ASSUME TypeOK, NEW u \in Names
    PROVE  Unfinalized(u) \in [Updates -> UpdateObjects]
BY UpdateRecordTypes DEF TypeOK, Unfinalized

LEMMA MarkDeletedType ==
    ASSUME TypeOK, NEW u \in Names
    PROVE  MarkDeleted(u) \in [Updates -> UpdateObjects]
BY UpdateRecordTypes DEF TypeOK, MarkDeleted

\* Spending from a budget that is not exhausted leaves it a natural number.
LEMMA FaultType ==
    ASSUME TypeOK, Fault
    PROVE  left' \in [api : Nat, crash : Nat, ws : Nat, run : Nat, src : Nat, del : Nat]
BY DEF TypeOK, Fault

\* Absorbing a result keeps the local copy typed.
LEMMA AbsorbedType ==
    ASSUME TypeOK, NEW o \in Objects
    PROVE  Absorbed(o) \in Objects
<1>1. o.cur \in CurrentUpdates /\ o.last \in LastUpdates
  BY DEF Objects
<1>2. o.cur.name \in Names /\ o.cur.gen \in Nat /\ o.cur.req \in Nat /\ o.cur.commit \in Revisions
  BY <1>1 DEF CurrentUpdates
<1>3. o.last.good \in Revisions /\ o.last.failures \in Nat
  BY <1>1 DEF LastUpdates
<1>4. CASE o.cur.name = 0
  BY <1>4 DEF Absorbed
<1>5. CASE o.cur.name # 0
  <2> DEFINE u == o.cur.name
  <2>1. u \in Updates
    BY <1>2, <1>5, BoundAssumption DEF Names, Updates
  <2>2. upd[u].type \in Types \union {"none"}
    BY <2>1 DEF TypeOK, UpdateObjects
  <2>3. MarkStackFailed(o, u) \in Objects
    <3> DEFINE f == IF o.last # NilLast /\ o.last.gen = o.cur.gen /\ o.last.req = o.cur.req
                    THEN o.last.failures + 1 ELSE 0
               l == [gen |-> o.cur.gen, req |-> o.cur.req, name |-> u, type |-> upd[u].type,
                     state |-> "failed", tried |-> o.cur.commit, good |-> o.last.good,
                     failures |-> f]
    <3>1. f \in Nat
      BY <1>3
    <3> HIDE DEF f
    <3>2. l \in LastUpdates
      BY <1>2, <1>3, <2>2, <3>1 DEF LastUpdates
    <3>3. MarkStackFailed(o, u) = [o EXCEPT !.cur = NilCurrent, !.last = l]
      BY DEF MarkStackFailed, f
    <3> HIDE DEF l
    <3> QED
      BY <3>2, <3>3, NilTypes DEF Objects
  <2>4. MarkStackSucceeded(o, u) \in Objects
    <3> DEFINE l == [gen |-> o.cur.gen, req |-> o.cur.req, name |-> u, type |-> upd[u].type,
                     state |-> "succeeded", tried |-> o.cur.commit, good |-> o.cur.commit,
                     failures |-> 0]
           i == o.info \/ ReportsProjectInfo
    <3>1. l \in LastUpdates
      BY <1>2, <2>2 DEF LastUpdates
    <3>3. i \in BOOLEAN
      OBVIOUS
    <3>2. MarkStackSucceeded(o, u) = [o EXCEPT !.cur = NilCurrent, !.info = i, !.last = l]
      BY DEF MarkStackSucceeded
    <3> HIDE DEF l, i
    <3> QED
      BY <3>1, <3>2, <3>3, NilTypes DEF Objects
  <2> QED
    BY <1>5, <2>3, <2>4 DEF Absorbed
<1> QED
  BY <1>4, <1>5

\* The ways in which a Stack object and the local values change.
LEMMA ObjectTypes ==
    ASSUME NEW o \in Objects
    PROVE  /\ \A t \in Specs : [o EXCEPT !.spec = t, !.gen = @ + 1] \in Objects
           /\ [o EXCEPT !.req = @ + 1] \in Objects
           /\ [o EXCEPT !.deleting = TRUE, !.gen = @ + 1, !.exists = o.finalizer] \in Objects
           /\ [o EXCEPT !.finalizer = TRUE] \in Objects
           /\ [o EXCEPT !.finalizer = FALSE, !.exists = FALSE] \in Objects
           /\ [o EXCEPT !.obsGen = o.gen, !.obsReq = o.req] \in Objects
           /\ \A c \in Conditions : [o EXCEPT !.cond = c] \in Objects
           /\ \A c \in CurrentUpdates : [o EXCEPT !.cur = c] \in Objects
           /\ \A d \in Conditions, c \in CurrentUpdates :
                 [o EXCEPT !.cond = d, !.cur = c] \in Objects
<1> o.gen + 1 \in Nat
  BY DEF Objects
<1>1. \A t \in Specs : [o EXCEPT !.spec = t, !.gen = @ + 1] \in Objects
  <2>1. \A t \in Specs, g \in Nat : [o EXCEPT !.spec = t, !.gen = g] \in Objects
    BY DEF Objects
  <2> QED
    BY <2>1
<1>2. [o EXCEPT !.req = @ + 1] \in Objects
  BY DEF Objects
<1>3. [o EXCEPT !.deleting = TRUE, !.gen = @ + 1, !.exists = o.finalizer] \in Objects
  <2>1. o.finalizer \in BOOLEAN
    BY DEF Objects
  <2>2. \A g \in Nat, b \in BOOLEAN :
          [o EXCEPT !.deleting = TRUE, !.gen = g, !.exists = b] \in Objects
    BY DEF Objects
  <2> QED
    BY <2>1, <2>2
<1>4. [o EXCEPT !.finalizer = TRUE] \in Objects
  BY DEF Objects
<1>5. [o EXCEPT !.finalizer = FALSE, !.exists = FALSE] \in Objects
  BY DEF Objects
<1>6. [o EXCEPT !.obsGen = o.gen, !.obsReq = o.req] \in Objects
  BY DEF Objects
<1>7. \A c \in Conditions : [o EXCEPT !.cond = c] \in Objects
  BY DEF Objects
<1>8. \A c \in CurrentUpdates : [o EXCEPT !.cur = c] \in Objects
  BY DEF Objects
<1>9. \A d \in Conditions, c \in CurrentUpdates : [o EXCEPT !.cond = d, !.cur = c] \in Objects
  BY DEF Objects
<1> QED
  BY <1>1, <1>2, <1>3, <1>4, <1>5, <1>6, <1>7, <1>8, <1>9

LEMMA OutdateType ==
    ASSUME TypeOK, Outdate
    PROVE  sess' \in Sessions
BY DEF TypeOK, Outdate, Sessions

LEMMA WorkspaceType ==
    ASSUME TypeOK, NEW t \in {"absent", "pending", "ready", "stalled", "deleting"}
    PROVE  [ws EXCEPT !.state = t]
              \in [state : {"absent", "pending", "ready", "stalled", "deleting"}, content : Content]
BY DEF TypeOK

\* Every action of the users and of the world keeps the types.
LEMMA WorldType ==
    ASSUME TypeOK, User \/ World
    PROVE  TypeOK'
<1> USE DEF stackVars, cacheVars, queueVars, sessVars, wsVars, updVars, worldVars
<1>1. ASSUME NEW s \in Specs, EditSpec(s)  PROVE TypeOK'
  <2>1. stack' \in Objects
    BY <1>1, ObjectTypes DEF EditSpec, TypeOK
  <2>2. sess' \in Sessions
    BY <1>1, OutdateType DEF EditSpec
  <2> QED
    BY <1>1, <2>1, <2>2 DEF EditSpec, TypeOK
<1>2. CASE RequestReconcile
  <2>1. stack' \in Objects
    BY <1>2, ObjectTypes DEF RequestReconcile, TypeOK
  <2>2. sess' \in Sessions
    BY <1>2, OutdateType DEF RequestReconcile
  <2> QED
    BY <1>2, <2>1, <2>2 DEF RequestReconcile, TypeOK
<1>3. CASE DeleteStack
  <2>1. stack' \in Objects
    BY <1>3, ObjectTypes DEF DeleteStack, TypeOK
  <2>2. sess' \in Sessions
    BY <1>3, OutdateType DEF DeleteStack
  <2>3. finalSpecs' \subseteq Specs
    BY <1>3 DEF DeleteStack, TypeOK, Objects
  <2>4. nsGone' \in BOOLEAN
    BY <1>3 DEF DeleteStack
  <2> QED
    BY <1>3, <2>1, <2>2, <2>3, <2>4 DEF DeleteStack, TypeOK
<1>4. ASSUME NEW c \in Commits, NewRevision(c)  PROVE TypeOK'
  BY <1>4 DEF NewRevision, TypeOK
<1>5. CASE SourceOutage
  BY <1>5 DEF SourceOutage, TypeOK
<1>6. CASE PrereqReady
  BY <1>6 DEF PrereqReady, TypeOK
<1>7. CASE TimePasses
  BY <1>7 DEF TimePasses, TypeOK
<1>8. CASE DeleteWorkspace \/ WorkspaceReady \/ WorkspaceStalls \/ WorkspaceUnready \/ WorkspaceGone
  <2>1. ws' \in [state : {"absent", "pending", "ready", "stalled", "deleting"}, content : Content]
    BY <1>8, WorkspaceType DEF DeleteWorkspace, WorkspaceReady, WorkspaceStalls, WorkspaceUnready,
       WorkspaceGone, SetWorkspace
  <2>2. left' \in [api : Nat, crash : Nat, ws : Nat, run : Nat, src : Nat, del : Nat]
    BY <1>8 DEF DeleteWorkspace, WorkspaceReady, WorkspaceStalls, WorkspaceUnready, WorkspaceGone,
       TypeOK
  <2>3. wsEvent' \in BOOLEAN
    BY <1>8 DEF DeleteWorkspace, WorkspaceReady, WorkspaceStalls, WorkspaceUnready, WorkspaceGone,
       TypeOK
  <2>4. UNCHANGED <<stackVars, cacheVars, queueVars, sessVars, updVars, worldVars, aged>>
    BY <1>8 DEF DeleteWorkspace, WorkspaceReady, WorkspaceStalls, WorkspaceUnready, WorkspaceGone,
       SetWorkspace
  <2> QED
    BY <2>1, <2>2, <2>3, <2>4 DEF TypeOK
<1>9. ASSUME NEW u \in Updates, UpdateStarts(u) \/ UpdateCanceled(u)  PROVE TypeOK'
  <2>1. upd' \in [Updates -> UpdateObjects]
    BY <1>9 DEF UpdateStarts, UpdateCanceled, UpdateObjects, TypeOK
  <2> QED
    BY <1>9, <2>1 DEF UpdateStarts, UpdateCanceled, UpdateStep, TypeOK
<1>10. ASSUME NEW u \in Updates, NEW ok \in BOOLEAN, UpdateFinishes(u, ok)  PROVE TypeOK'
  <2>1. upd' \in [Updates -> UpdateObjects]
    <3>1. upd[u] \in UpdateObjects
      BY DEF TypeOK
    <3>2. \A p \in {"succeeded", "failed"} : [upd[u] EXCEPT !.phase = p] \in UpdateObjects
      BY <3>1 DEF UpdateObjects
    <3> QED
      BY <1>10, <3>2 DEF UpdateFinishes, TypeOK
  <2>2. upd[u].ran \in Content
    BY DEF TypeOK, UpdateObjects
  <2>3. infra' \subseteq Content
    BY <1>10, <2>2 DEF UpdateFinishes, Deployed, TypeOK
  <2>4. left' \in [api : Nat, crash : Nat, ws : Nat, run : Nat, src : Nat, del : Nat]
    BY <1>10 DEF UpdateFinishes, TypeOK
  <2> QED
    BY <1>10, <2>1, <2>3, <2>4 DEF UpdateFinishes, UpdateStep, TypeOK
<1>11. ASSUME NEW u \in Updates, UpdateExpires(u) \/ DeleteUpdate(u)  PROVE TypeOK'
  <2>1. upd' \in [Updates -> UpdateObjects]
    BY <1>11, MarkDeletedType, BoundAssumption DEF UpdateExpires, DeleteUpdate, Names, Updates
  <2>2. left' \in [api : Nat, crash : Nat, ws : Nat, run : Nat, src : Nat, del : Nat]
    BY <1>11 DEF UpdateExpires, DeleteUpdate, TypeOK
  <2> QED
    BY <1>11, <2>1, <2>2 DEF UpdateExpires, DeleteUpdate, UpdateStep, TypeOK
<1> QED
  BY <1>1, <1>2, <1>3, <1>4, <1>5, <1>6, <1>7, <1>8, <1>9, <1>10, <1>11 DEF User, World

\* So does every delivery, and a restart.
LEMMA DeliveryType ==
    ASSUME TypeOK, Delivery \/ Crash
    PROVE  TypeOK'
<1> USE DEF stackVars, cacheVars, queueVars, sessVars, wsVars, updVars, worldVars
<1>1. \A u \in Updates : View(u) \in {"absent", "incomplete", "succeeded", "failed"}
  BY DEF View, Complete
<1>2. CASE SyncCache \/ TimerFires \/ WorkspaceEvent
  <2>1. CASE SyncCache
    <3>1. cache' \in Objects /\ queue' \in BOOLEAN /\ event' \in BOOLEAN
      BY <2>1 DEF SyncCache, TypeOK
    <3> QED
      BY <2>1, <3>1 DEF SyncCache, TypeOK
  <2>2. CASE TimerFires
    <3>1. queue' \in BOOLEAN /\ timer' \in BOOLEAN
      BY <2>2 DEF TimerFires
    <3>2. UNCHANGED <<stackVars, cacheVars, sessVars, wsVars, updVars, worldVars, aged, left>>
      BY <2>2 DEF TimerFires
    <3> QED
      BY <3>1, <3>2 DEF TypeOK
  <2>3. CASE WorkspaceEvent
    <3>1. queue' \in BOOLEAN /\ wsEvent' \in BOOLEAN
      BY <2>3 DEF WorkspaceEvent
    <3>2. UNCHANGED <<stackVars, cacheVars, timer, sessVars, ws, updVars, worldVars, aged, left>>
      BY <2>3 DEF WorkspaceEvent
    <3> QED
      BY <3>1, <3>2 DEF TypeOK
  <2> QED
    BY <1>2, <2>1, <2>2, <2>3
<1>3. ASSUME NEW u \in Updates, SyncUpdate(u)  PROVE TypeOK'
  <2>1. ucache' \in [Updates -> {"absent", "incomplete", "succeeded", "failed"}]
    BY <1>1, <1>3 DEF SyncUpdate, TypeOK
  <2>2. queue' \in BOOLEAN
    BY <1>3 DEF SyncUpdate, TypeOK
  <2> QED
    BY <1>3, <2>1, <2>2 DEF SyncUpdate, TypeOK
<1>4. CASE Crash
  <2>1. ucache' \in [Updates -> {"absent", "incomplete", "succeeded", "failed"}]
    BY <1>1, <1>4 DEF Crash
  <2>2. inst' \in Objects /\ cache' \in Objects /\ sess' \in Sessions
    BY <1>4, NewStackType, IdleType DEF Crash, TypeOK
  <2>3. left' \in [api : Nat, crash : Nat, ws : Nat, run : Nat, src : Nat, del : Nat]
    BY <1>4 DEF Crash, TypeOK
  <2> QED
    BY <1>4, <2>1, <2>2, <2>3 DEF Crash, TypeOK
<1> QED
  BY <1>2, <1>3, <1>4 DEF Delivery

\* The local values at a decision, and at the creation of an Update.
LEMMA SessionTypes ==
    ASSUME NEW s \in Sessions
    PROVE  /\ \A u \in Names, c \in Revisions : [s EXCEPT !.toFin = u, !.commit = c] \in Sessions
           /\ \A u \in Names, a \in {"stop", "later"} :
                 [s EXCEPT !.toFin = u, !.after = a] \in Sessions
           /\ \A b \in BOOLEAN, u \in Names : [s EXCEPT !.rvOk = b, !.toFin = u] \in Sessions
           /\ \A u \in Names : [s EXCEPT !.toFin = u] \in Sessions
           /\ \A t \in Types : [s EXCEPT !.type = t] \in Sessions
BY DEF Sessions

\* Everything but the session and the clock of the last update is unchanged.
LEMMA DecideType ==
    ASSUME TypeOK, NEW d \in Objects, NEW c \in Conditions, NEW r \in Revisions,
           NEW after \in {"stop", "later", "release", "finalize", "apply"},
           Decide(d, c, after, r)
    PROVE  TypeOK'
<1>1. inst.cur.name \in Names
  BY DEF TypeOK, Objects, CurrentUpdates
<1>2. [d EXCEPT !.cond = c] \in Objects
  BY ObjectTypes
<1>3. [sess EXCEPT !.toFin = inst.cur.name, !.commit = r] \in Sessions
  BY <1>1, SessionTypes DEF TypeOK
<1>4. SessionOK'
  BY <1>2, <1>3, SaveType DEF Decide
<1>5. aged' \in BOOLEAN
  BY DEF Decide, Old, TypeOK
<1> QED
  BY <1>4, <1>5 DEF Decide, SessionOK, TypeOK, stackVars, cacheVars, wsVars, updVars, worldVars

\* The actions from the cached read to the decision.
LEMMA DecisionType ==
    ASSUME TypeOK,
           \/ Start \/ AddFinalizer \/ WaitForUpdate \/ ReadFails
           \/ ReleaseWithoutDestroy \/ StallOnSource \/ KeepSynced \/ AwaitPrereqs \/ BeginUpdate
    PROVE  TypeOK'
<1> USE DEF stackVars, cacheVars, wsVars, updVars, worldVars
<1> DEFINE d == Absorbed(inst)
<1>d. d \in Objects
  BY AbsorbedType DEF TypeOK
<1>c. /\ {"ready", "reconciling", "stalled"} \subseteq Conditions
      /\ NoCommit \in Revisions
      /\ \A l : StackResult(l) \in Conditions
  BY DEF Conditions, Revisions, StackResult
<1>o. Resolved(d) # Unavailable => Resolved(d) \in Revisions
  BY DEF Resolved, Revisions, TypeOK
<1> HIDE DEF d
<1>1. CASE Start
  <2>1. inst' \in Objects
    BY <1>1, ObjectTypes DEF Start, TypeOK, sessVars
  <2>2. sess' \in Sessions
    <3>1. cache.spec \in Specs /\ cache.deleting \in BOOLEAN /\ cache.req \in Nat
      BY DEF TypeOK, Objects
    <3>2. \A t \in Specs, m \in BOOLEAN, r \in Nat, b \in BOOLEAN :
            [Idle EXCEPT !.spec = t, !.marked = m, !.req = r, !.rvOk = b] \in Sessions
      BY IdleType DEF Sessions
    <3>3. (cache = stack) \in BOOLEAN
      OBVIOUS
    <3>4. [Idle EXCEPT !.spec = cache.spec, !.marked = cache.deleting, !.req = cache.req,
                       !.rvOk = (cache = stack)] \in Sessions
      BY <3>1, <3>2, <3>3, Zenon
    <3> QED
      BY <1>1, <3>4 DEF Start, sessVars, TypeOK
  <2> QED
    BY <1>1, <2>1, <2>2 DEF Start, TypeOK, sessVars
<1>2. CASE AddFinalizer
  <2>1. stack' \in Objects
    BY <1>2, ObjectTypes DEF AddFinalizer, WriteFails, TypeOK
  <2>2. SessionOK'
    BY <1>2, ObjectTypes, GotoType, EndTypes DEF AddFinalizer, WriteFails, TypeOK
  <2>3. left' \in [api : Nat, crash : Nat, ws : Nat, run : Nat, src : Nat, del : Nat]
    BY <1>2, FaultType DEF AddFinalizer, WriteFails, TypeOK
  <2> QED
    BY <1>2, <2>1, <2>2, <2>3 DEF AddFinalizer, SessionOK, TypeOK
<1>3. CASE WaitForUpdate
  <2>1. [inst EXCEPT !.cond = "reconciling"] \in Objects
    BY <1>c, ObjectTypes DEF TypeOK
  <2>2. SessionOK'
    BY <1>3, <2>1, SaveType DEF WaitForUpdate, TypeOK
  <2> QED
    BY <1>3, <2>2 DEF WaitForUpdate, SessionOK, TypeOK
<1>4. CASE ReadFails
  <2>1. SessionOK'
    BY <1>4, EndTypes DEF ReadFails
  <2> QED
    BY <1>4, <2>1, FaultType DEF ReadFails, SessionOK, TypeOK
<1>5. CASE ReleaseWithoutDestroy
  BY <1>5, <1>d, <1>c, DecideType DEF ReleaseWithoutDestroy, d
<1>6. CASE StallOnSource
  BY <1>6, <1>d, <1>c, DecideType DEF StallOnSource, d
<1>7. CASE AwaitPrereqs
  BY <1>7, <1>d, <1>c, DecideType DEF AwaitPrereqs, d
<1>8. CASE BeginUpdate
  BY <1>8, <1>d, <1>c, <1>o, DecideType DEF BeginUpdate, Resolvable, d
<1>9. CASE KeepSynced
  <2> DEFINE again == IF Requeues(d) THEN "later" ELSE "stop"
  <2>1. again \in {"stop", "later"}
    OBVIOUS
  <2> HIDE DEF again
  <2>2. \/ Decide(d, StackResult(d.last), "finalize", NoCommit)
        \/ Decide(d, StackResult(d.last), "later", NoCommit)
        \/ Decide(d, StackResult(d.last), again, NoCommit)
        \/ /\ Goto("reclaim", [d EXCEPT !.cond = "ready"],
                   [sess EXCEPT !.toFin = inst.cur.name, !.after = again])
           /\ aged' = Old
           /\ UNCHANGED <<stackVars, cacheVars, wsVars, updVars, worldVars, left>>
    BY <1>9 DEF KeepSynced, d, again
  <2>3. ASSUME NEW a \in {"finalize", "later", again}, Decide(d, StackResult(d.last), a, NoCommit)
        PROVE  TypeOK'
    BY <1>d, <1>c, <2>1, <2>3, DecideType
  <2>4. ASSUME Goto("reclaim", [d EXCEPT !.cond = "ready"],
                    [sess EXCEPT !.toFin = inst.cur.name, !.after = again]),
               aged' = Old,
               UNCHANGED <<stackVars, cacheVars, wsVars, updVars, worldVars, left>>
        PROVE  TypeOK'
    <3>1. inst.cur.name \in Names
      BY DEF TypeOK, Objects, CurrentUpdates
    <3>2. [sess EXCEPT !.toFin = inst.cur.name, !.after = again] \in Sessions
      BY <2>1, <3>1, SessionTypes DEF TypeOK
    <3>3. [d EXCEPT !.cond = "ready"] \in Objects
      BY <1>d, <1>c, ObjectTypes
    <3>4. SessionOK'
      BY <2>4, <3>2, <3>3, GotoType
    <3>5. aged' \in BOOLEAN
      BY <2>4 DEF Old
    <3> QED
      BY <2>4, <3>4, <3>5 DEF SessionOK, TypeOK
  <2> QED
    BY <2>2, <2>3, <2>4
<1> QED
  BY <1>1, <1>2, <1>3, <1>4, <1>5, <1>6, <1>7, <1>8, <1>9

LEMMA SaveStatusType ==
    ASSUME TypeOK, SaveStatus
    PROVE  TypeOK'
<1> USE DEF stackVars, cacheVars, wsVars, updVars, worldVars
<1>0. 0 \in Names /\ sess.toFin \in Names
  BY BoundAssumption DEF TypeOK, Sessions, Names
<1>1. ASSUME stack.exists, stack' = WithStatus(stack, inst),
             Proceed(stack', [sess EXCEPT !.rvOk = TRUE, !.toFin = 0]),
             \/ upd' = Unfinalized(sess.toFin) /\ UNCHANGED left
             \/ sess.toFin # 0 /\ Fault /\ UNCHANGED upd
      PROVE  TypeOK'
  <2>1. stack' \in Objects
    BY <1>1, WithStatusType DEF TypeOK
  <2>2. [sess EXCEPT !.rvOk = TRUE, !.toFin = 0] \in Sessions
    BY <1>0, SessionTypes DEF TypeOK
  <2>3. SessionOK'
    BY <1>1, <2>1, <2>2, ProceedType
  <2>4. upd' \in [Updates -> UpdateObjects]
    BY <1>0, <1>1, UnfinalizedType DEF TypeOK
  <2>5. left' \in [api : Nat, crash : Nat, ws : Nat, run : Nat, src : Nat, del : Nat]
    BY <1>1, FaultType DEF TypeOK
  <2> QED
    BY <2>1, <2>3, <2>4, <2>5 DEF SaveStatus, SessionOK, TypeOK
<1>2. ASSUME (~stack.exists /\ UNCHANGED left) \/ Fault,
             IF sess.after = "finalize" THEN Goto("finalize", inst, sess) ELSE Retry,
             UNCHANGED <<stack, upd>>
      PROVE  TypeOK'
  <2>1. SessionOK'
    BY <1>2, GotoType, EndTypes DEF TypeOK
  <2>2. left' \in [api : Nat, crash : Nat, ws : Nat, run : Nat, src : Nat, del : Nat]
    BY <1>2, FaultType DEF TypeOK
  <2> QED
    BY <1>2, <2>1, <2>2 DEF SaveStatus, SessionOK, TypeOK
<1> QED
  BY <1>1, <1>2 DEF SaveStatus

LEMMA ReclaimType ==
    ASSUME TypeOK, ReclaimWorkspace
    PROVE  TypeOK'
<1> USE DEF stackVars, cacheVars, wsVars, updVars, worldVars
<1>1. sess.toFin \in Names /\ 0 \in Names
  BY BoundAssumption DEF TypeOK, Sessions, Names
<1>2. upd' \in [Updates -> UpdateObjects]
  BY <1>1, UnfinalizedType DEF ReclaimWorkspace, TypeOK
<1>3. ws' \in [state : {"absent", "pending", "ready", "stalled", "deleting"}, content : Content]
  BY WorkspaceType DEF ReclaimWorkspace, TypeOK
<1>4. left' \in [api : Nat, crash : Nat, ws : Nat, run : Nat, src : Nat, del : Nat]
  BY FaultType DEF ReclaimWorkspace, TypeOK
<1>5. SessionOK'
  <2>1. [sess EXCEPT !.toFin = 0] \in Sessions /\ inst \in Objects
    BY <1>1, SessionTypes DEF TypeOK
  <2>2. sess.after \in {"stop", "later", "error", "release", "finalize", "apply", "create"}
    BY DEF TypeOK, Sessions
  <2> QED
    BY <2>1, <2>2, SaveType, EndTypes DEF ReclaimWorkspace
<1> QED
  BY <1>2, <1>3, <1>4, <1>5 DEF ReclaimWorkspace, SessionOK, TypeOK

LEMMA ApplyType ==
    ASSUME TypeOK, ApplyWorkspace
    PROVE  TypeOK'
<1> USE DEF stackVars, cacheVars, wsVars, updVars, worldVars
<1>1. Applied \in [state : {"absent", "pending", "ready", "stalled", "deleting"}, content : Content]
  BY DEF Applied, TypeOK, Sessions, Content
<1>2. ws' \in [state : {"absent", "pending", "ready", "stalled", "deleting"}, content : Content]
  BY <1>1 DEF ApplyWorkspace, TypeOK
<1>3. names' \in 0..MaxUpdates
  BY BoundAssumption DEF ApplyWorkspace, TypeOK
<1>4. left' \in [api : Nat, crash : Nat, ws : Nat, run : Nat, src : Nat, del : Nat]
  BY FaultType DEF ApplyWorkspace, TypeOK
<1>5. SessionOK'
  <2> DEFINE c == [gen |-> inst.gen, req |-> sess.req, name |-> names + 1, commit |-> sess.commit]
  <2>1. inst \in Objects /\ sess \in Sessions /\ [inst EXCEPT !.cond = "stalled"] \in Objects
    BY ObjectTypes DEF TypeOK, Conditions
  <2>2. ASSUME names < MaxUpdates,
               Save([inst EXCEPT !.cond = "reconciling", !.cur = c],
                    [sess EXCEPT !.type = NextType], "create")
        PROVE  SessionOK'
    <3>1. inst.gen \in Nat /\ sess.req \in Nat /\ sess.commit \in Revisions
      BY <2>1 DEF Objects, Sessions
    <3>2. names + 1 \in Names
      BY <2>2, BoundAssumption DEF TypeOK, Names
    <3>3. c \in CurrentUpdates
      BY <3>1, <3>2 DEF CurrentUpdates
    <3> HIDE DEF c
    <3>4. [inst EXCEPT !.cond = "reconciling", !.cur = c] \in Objects
      BY <2>1, <3>3, ObjectTypes DEF Conditions
    <3>5. [sess EXCEPT !.type = NextType] \in Sessions
      BY <2>1, SessionTypes DEF NextType, Types
    <3> QED
      BY <2>2, <3>4, <3>5, SaveType
  <2>3. ASSUME Goto("finalize", inst, sess)  PROVE SessionOK'
    BY <2>1, <2>3, GotoType
  <2>4. ASSUME NEW a \in {"stop", "later"}, Save([inst EXCEPT !.cond = "stalled"], sess, a)
        PROVE  SessionOK'
    BY <2>1, <2>4, SaveType
  <2>5. ASSUME Stop \/ Retry  PROVE SessionOK'
    BY <2>5, EndTypes
  <2> HIDE DEF c
  <2> QED
    BY <2>2, <2>3, <2>4, <2>5 DEF ApplyWorkspace, StallInTerminatingNamespace, c
<1> QED
  BY <1>2, <1>3, <1>4, <1>5 DEF ApplyWorkspace, SessionOK, TypeOK

LEMMA CreateType ==
    ASSUME TypeOK, CreateUpdate
    PROVE  TypeOK'
<1> USE DEF stackVars, cacheVars, wsVars, updVars, worldVars
<1> DEFINE r == [NoUpdate EXCEPT !.obj = "live", !.type = sess.type,
                                 !.gen = inst.cur.gen, !.req = sess.req]
<1>1. inst \in Objects /\ sess \in Sessions /\ inst.cur.gen \in Nat
  BY DEF TypeOK, Objects, CurrentUpdates
<1>2. sess.type \in Types \union {"none"} /\ sess.req \in Nat
  BY <1>1 DEF Sessions
<1>3. r \in UpdateObjects
  BY <1>1, <1>2, NoUpdateType DEF UpdateObjects
<1>4. upd' = [upd EXCEPT ![inst.cur.name] = r] \/ upd' = upd
  BY DEF CreateUpdate
<1> HIDE DEF r
<1>5. upd' \in [Updates -> UpdateObjects]
  BY <1>3, <1>4 DEF TypeOK
<1>6. left' \in [api : Nat, crash : Nat, ws : Nat, run : Nat, src : Nat, del : Nat]
  BY FaultType DEF CreateUpdate, TypeOK
<1>7. SessionOK'
  <2>1. [inst EXCEPT !.cur = NilCurrent] \in Objects
    BY <1>1, NilTypes, ObjectTypes
  <2> QED
    BY <1>1, <2>1, GotoType, SaveType DEF CreateUpdate
<1> QED
  BY <1>5, <1>6, <1>7 DEF CreateUpdate, SessionOK, TypeOK

LEMMA AddUpdateFinalizerType ==
    ASSUME TypeOK, AddUpdateFinalizer
    PROVE  TypeOK'
<1> USE DEF stackVars, cacheVars, wsVars, updVars, worldVars
<1>1. inst \in Objects /\ sess \in Sessions /\ inst.cur.name \in Names
  BY DEF TypeOK, Objects, CurrentUpdates
<1>2. Held(inst.cur.name) \in [Updates -> UpdateObjects]
  <2>1. \A r \in UpdateObjects : [r EXCEPT !.fin = TRUE] \in UpdateObjects
    BY DEF UpdateObjects
  <2> QED
    BY <2>1 DEF Held, TypeOK
<1>3. upd' \in [Updates -> UpdateObjects]
  BY <1>1, <1>2, MarkDeletedType DEF AddUpdateFinalizer, TypeOK
<1>4. left' \in [api : Nat, crash : Nat, ws : Nat, run : Nat, src : Nat, del : Nat]
  BY FaultType DEF AddUpdateFinalizer, TypeOK
<1>5. SessionOK'
  <2>1. [inst EXCEPT !.cur = NilCurrent] \in Objects
    BY <1>1, NilTypes, ObjectTypes
  <2> QED
    BY <1>1, <2>1, EndTypes, SaveType DEF AddUpdateFinalizer
<1> QED
  BY <1>3, <1>4, <1>5 DEF AddUpdateFinalizer, SessionOK, TypeOK

LEMMA RemoveFinalizerType ==
    ASSUME TypeOK, RemoveFinalizer
    PROVE  TypeOK'
<1> USE DEF stackVars, cacheVars, wsVars, updVars, worldVars
<1>1. stack' \in Objects
  BY ObjectTypes DEF RemoveFinalizer, WriteFails, TypeOK
<1>2. SessionOK'
  BY EndTypes DEF RemoveFinalizer, WriteFails
<1>3. left' \in [api : Nat, crash : Nat, ws : Nat, run : Nat, src : Nat, del : Nat]
  BY FaultType DEF RemoveFinalizer, WriteFails, TypeOK
<1> QED
  BY <1>1, <1>2, <1>3 DEF RemoveFinalizer, SessionOK, TypeOK

LEMMA StepType == TypeOK /\ [Next]_vars => TypeOK'
<1> SUFFICES ASSUME TypeOK, [Next]_vars PROVE TypeOK'
  OBVIOUS
<1>1. CASE Next
  BY <1>1, WorldType, DeliveryType, DecisionType, SaveStatusType, ReclaimType, ApplyType,
     CreateType, AddUpdateFinalizerType, RemoveFinalizerType DEF Next, Reconcile
<1>2. CASE UNCHANGED vars
  BY <1>2 DEF vars, TypeOK, stackVars, cacheVars, queueVars, sessVars, wsVars, updVars, worldVars
<1> QED
  BY <1>1, <1>2

\* Type correctness: for any specs, sources and bounds, every variable of the
\* Stack reconciler's model keeps its type (TypeOK).
THEOREM TypeCorrect == Spec => []TypeOK
BY InitType, StepType, PTL DEF Spec

-----------------------------------------------------------------------------
(* Destroy before finalize: the inductive invariant.                       *)

WasDestroyed == \E u \in Updates : upd[u].type = "destroy" /\ upd[u].phase = "succeeded"

\* A recorded success of a destroy is backed by an Update that succeeded.
Honest(o) == o.last.type = "destroy" /\ o.last.state = "succeeded" => WasDestroyed

\* The reconcile is at p, or will be once the status is saved.
Heading(p) == pc = p \/ (pc = "save" /\ sess.after = p)

\* Names are fresh: what has not been created is pending, and the Update about
\* to be created is one of those.
FreshNames ==
    /\ \A u \in Updates : upd[u].obj = "none" => upd[u].phase = "pending"
    /\ \A u \in Updates : u > names => upd[u].obj = "none"
    /\ Heading("create") => /\ inst.cur.name = names /\ names \in Updates
                            /\ upd[names].obj = "none"
    /\ pc = "addUpdateFinalizer" => /\ inst.cur.name \in Updates
                                    /\ upd[inst.cur.name].obj # "none"

\* The informer shows no success that did not happen.
CachedSuccess == \A u \in Updates : ucache[u] = "succeeded" => upd[u].phase = "succeeded"

HonestCopies == Honest(stack) /\ Honest(cache) /\ Honest(inst)

\* A copy that is marked for deletion carries one of the final specs.
FinalSpecs ==
    /\ stack.deleting => stack.spec \in finalSpecs
    /\ cache.deleting => stack.deleting /\ cache.spec \in finalSpecs
    /\ sess.marked => stack.deleting /\ sess.spec \in finalSpecs
    /\ pc \in {"addFinalizer", "decide"} => sess.marked = inst.deleting

\* Only a Stack without a recorded update is without the finalizer, and a reconcile
\* that may write its status holds it.
Finalizer ==
    /\ stack.exists /\ ~stack.finalizer => stack.last = NilLast
    /\ cache.finalizer => (stack.exists => stack.finalizer)
    /\ pc \notin {"idle", "addFinalizer"} => (stack.exists => stack.finalizer)

\* What each way to give up the finalizer rests on.
Justified ==
    /\ Heading("release") => sess.marked /\ sess.spec \notin DestroyOnFinalize \ Preview
    /\ pc = "reclaim" => sess.after \in {"stop", "later"}
    /\ pc = "apply" => stack.last = inst.last
    /\ pc = "save" /\ sess.after = "finalize" => WasDestroyed
    /\ pc = "finalize" => WasDestroyed \/ stack.last = NilLast

IInv ==
    /\ TypeOK /\ FreshNames /\ CachedSuccess /\ HonestCopies
    /\ FinalSpecs /\ Finalizer /\ Justified
    /\ DestroyBeforeFinalize

-----------------------------------------------------------------------------
(* Destroy before finalize: the steps that leave the reconciler alone.     *)

\* What every step but the creation of an Update does to the Updates at most.
Harmless ==
    \A u \in Updates : /\ upd'[u].obj = "none" <=> upd[u].obj = "none"
                       /\ upd[u].obj = "none" => upd'[u].phase = upd[u].phase
                       /\ upd[u].phase = "succeeded" => upd'[u].phase = "succeeded"
                       /\ upd'[u].type = upd[u].type

LEMMA DestroyedStable ==
    ASSUME Harmless, WasDestroyed
    PROVE  WasDestroyed'
BY DEF Harmless, WasDestroyed

LEMMA HarmlessChanges ==
    ASSUME TypeOK, FreshNames
    PROVE  /\ upd' = upd => Harmless
           /\ \A v \in Names : upd' = Unfinalized(v) => Harmless
           /\ \A v \in Updates : upd[v].obj # "none" /\ upd' = MarkDeleted(v) => Harmless
<1> USE DEF Harmless
<1>0. \A u \in Updates : upd[u] \in UpdateObjects
  BY DEF TypeOK
<1>1. upd' = upd => Harmless
  OBVIOUS
<1>2. ASSUME NEW v \in Names, upd' = Unfinalized(v)  PROVE Harmless
  <2>1. \A r \in UpdateObjects : /\ (ReleasedUpdate(r).obj = "none") <=> (r.obj = "none")
                                 /\ ReleasedUpdate(r).phase = r.phase
                                 /\ ReleasedUpdate(r).type = r.type
    BY DEF ReleasedUpdate, UpdateObjects
  <2>2. \A u \in Updates : upd'[u] = upd[u] \/ upd'[u] = ReleasedUpdate(upd[u])
    BY <1>2 DEF Unfinalized, TypeOK
  <2> QED
    BY <1>0, <2>1, <2>2
<1>3. ASSUME NEW v \in Updates, upd[v].obj # "none", upd' = MarkDeleted(v)  PROVE Harmless
  <2>1. \A r \in UpdateObjects : /\ DeletedUpdate(r).obj # "none"
                                 /\ DeletedUpdate(r).phase = r.phase
                                 /\ DeletedUpdate(r).type = r.type
    BY DEF DeletedUpdate, UpdateObjects
  <2>2. \A u \in Updates : upd'[u] = IF u = v THEN DeletedUpdate(upd[u]) ELSE upd[u]
    BY <1>3 DEF MarkDeleted, TypeOK
  <2> QED
    BY <1>0, <1>3, <2>1, <2>2
<1> QED
  BY <1>1, <1>2, <1>3

\* A step of the world or of the watches: it leaves the Stack object and the running
\* reconcile alone, and brings the caches up to date at most.
Quiet ==
    /\ UNCHANGED <<stackVars, sessVars, names>>
    /\ Harmless
    /\ cache' = cache \/ cache' = stack
    /\ \A u \in Updates : ucache'[u] = ucache[u] \/ ucache'[u] = View(u)

LEMMA QuietSteps ==
    ASSUME TypeOK, FreshNames,
           World \/ Delivery \/ DeleteWorkspace \/ (\E u \in Updates : DeleteUpdate(u))
    PROVE  Quiet
<1> USE DEF stackVars, cacheVars, queueVars, sessVars, wsVars, updVars, worldVars
<1>0. \A u \in Updates : upd[u] \in UpdateObjects
  BY DEF TypeOK
<1>1. CASE \/ SourceOutage \/ (\E c \in Commits : NewRevision(c)) \/ PrereqReady \/ TimePasses
           \/ WorkspaceReady \/ WorkspaceStalls \/ WorkspaceUnready \/ WorkspaceGone
           \/ DeleteWorkspace \/ SyncCache \/ TimerFires \/ WorkspaceEvent
  <2>1. UNCHANGED <<stackVars, sessVars, names, upd, ucache>> /\ (cache' = cache \/ cache' = stack)
    BY <1>1 DEF SourceOutage, NewRevision, PrereqReady, TimePasses, WorkspaceReady, WorkspaceStalls,
       WorkspaceUnready, WorkspaceGone, DeleteWorkspace, SetWorkspace, SyncCache, TimerFires,
       WorkspaceEvent
  <2> QED
    BY <2>1, HarmlessChanges DEF Quiet
<1>2. ASSUME NEW u \in Updates, SyncUpdate(u)  PROVE Quiet
  <2>1. UNCHANGED <<stackVars, sessVars, names, upd, cache>>
    BY <1>2 DEF SyncUpdate
  <2>2. \A v \in Updates : ucache'[v] = ucache[v] \/ ucache'[v] = View(v)
    BY <1>2 DEF SyncUpdate, TypeOK
  <2> QED
    BY <2>1, <2>2, HarmlessChanges DEF Quiet
<1>3. ASSUME NEW u \in Updates, UpdateStarts(u) \/ UpdateCanceled(u)  PROVE Quiet
  <2>1. UNCHANGED <<stackVars, sessVars, names, cache, ucache>>
    BY <1>3 DEF UpdateStarts, UpdateCanceled, UpdateStep
  <2>2. upd[u].obj # "none" /\ upd[u].phase = "pending"
    BY <1>3 DEF UpdateStarts, UpdateCanceled
  <2>3. \A v \in Updates : /\ upd'[v].obj = upd[v].obj /\ upd'[v].type = upd[v].type
                           /\ v # u => upd'[v] = upd[v]
    BY <1>0, <1>3 DEF UpdateStarts, UpdateCanceled, TypeOK, UpdateObjects
  <2>4. Harmless
    BY <2>2, <2>3 DEF Harmless
  <2> QED
    BY <2>1, <2>4 DEF Quiet
<1>4. ASSUME NEW u \in Updates, NEW ok \in BOOLEAN, UpdateFinishes(u, ok)  PROVE Quiet
  <2>1. UNCHANGED <<stackVars, sessVars, names, cache, ucache>>
    BY <1>4 DEF UpdateFinishes, UpdateStep
  <2>2. upd[u].obj # "none" /\ upd[u].phase = "running"
    BY <1>4 DEF UpdateFinishes, FreshNames
  <2>3. \A v \in Updates : /\ upd'[v].obj = upd[v].obj /\ upd'[v].type = upd[v].type
                           /\ v # u => upd'[v] = upd[v]
    BY <1>0, <1>4 DEF UpdateFinishes, TypeOK, UpdateObjects
  <2>4. Harmless
    BY <2>2, <2>3 DEF Harmless
  <2> QED
    BY <2>1, <2>4 DEF Quiet
<1>5. ASSUME NEW u \in Updates, UpdateExpires(u) \/ DeleteUpdate(u)  PROVE Quiet
  <2>1. UNCHANGED <<stackVars, sessVars, names, cache, ucache>>
    BY <1>5 DEF UpdateExpires, DeleteUpdate, UpdateStep
  <2>2. upd[u].obj # "none" /\ upd' = MarkDeleted(u)
    BY <1>5 DEF UpdateExpires, DeleteUpdate
  <2> QED
    BY <2>1, <2>2, HarmlessChanges DEF Quiet
<1> QED
  BY <1>1, <1>2, <1>3, <1>4, <1>5 DEF World, Delivery

LEMMA SuccessView ==
    ASSUME TypeOK, NEW u \in Updates, View(u) = "succeeded"
    PROVE  upd[u].phase = "succeeded"
BY DEF View

LEMMA QuietInv ==
    ASSUME IInv, Quiet, TypeOK'
    PROVE  IInv'
<1> USE DEF stackVars, sessVars
<1>1. FreshNames'
  BY DEF IInv, Quiet, Harmless, FreshNames, Heading
<1>2. CachedSuccess'
  BY SuccessView DEF IInv, Quiet, Harmless, CachedSuccess
<1>3. HonestCopies'
  BY DestroyedStable DEF IInv, Quiet, HonestCopies, Honest
<1>4. FinalSpecs'
  BY DEF IInv, Quiet, FinalSpecs
<1>5. Finalizer'
  BY DEF IInv, Quiet, Finalizer
<1>6. Justified'
  BY DestroyedStable DEF IInv, Quiet, Justified, Heading
<1>7. DestroyBeforeFinalize'
  BY DestroyedStable DEF IInv, Quiet, DestroyBeforeFinalize, WasDestroyed
<1> QED
  BY <1>1, <1>2, <1>3, <1>4, <1>5, <1>6, <1>7 DEF IInv

\* The users change the Stack object only.
LEMMA UserInv ==
    ASSUME IInv, TypeOK',
           (\E s \in Specs : EditSpec(s)) \/ RequestReconcile \/ DeleteStack
    PROVE  IInv'
<1> USE DEF cacheVars, queueVars, wsVars, updVars, worldVars
<1>t. stack \in Objects /\ sess \in Sessions
  BY DEF IInv, TypeOK
<1>1. UNCHANGED <<cache, pc, inst, upd, ucache, names>>
  BY DEF EditSpec, RequestReconcile, DeleteStack
<1>2. stack'.last = stack.last /\ stack'.finalizer = stack.finalizer /\ stack.exists
  BY <1>t DEF EditSpec, RequestReconcile, DeleteStack, Objects
<1>3. sess'.marked = sess.marked /\ sess'.spec = sess.spec /\ sess'.after = sess.after
  BY <1>t DEF EditSpec, RequestReconcile, DeleteStack, Outdate, Sessions
<1>4. WasDestroyed' <=> WasDestroyed
  BY <1>1 DEF WasDestroyed
<1>5. FreshNames' /\ CachedSuccess'
  BY <1>1, <1>3 DEF IInv, FreshNames, CachedSuccess, Heading
<1>6. HonestCopies'
  BY <1>1, <1>2, <1>4 DEF IInv, HonestCopies, Honest
<1>7. Justified'
  BY <1>1, <1>2, <1>3, <1>4 DEF IInv, Justified, Heading
<1>8. FinalSpecs'
  <2>1. ASSUME NEW s \in Specs, EditSpec(s)  PROVE FinalSpecs'
    <3>1. stack'.deleting = stack.deleting /\ stack'.spec = s
      BY <1>t, <2>1 DEF EditSpec, Objects
    <3>2. finalSpecs' = IF stack.deleting THEN finalSpecs \union {s} ELSE {}
      BY <2>1 DEF EditSpec
    <3> QED
      BY <1>1, <1>3, <3>1, <3>2 DEF IInv, FinalSpecs
  <2>2. CASE RequestReconcile
    <3>1. stack'.deleting = stack.deleting /\ stack'.spec = stack.spec /\ finalSpecs' = finalSpecs
      BY <1>t, <2>2 DEF RequestReconcile, Objects
    <3> QED
      BY <1>1, <1>3, <3>1 DEF IInv, FinalSpecs
  <2>3. CASE DeleteStack
    <3>1. ~stack.deleting /\ stack'.deleting /\ stack'.spec = stack.spec /\ finalSpecs' = {stack.spec}
      BY <1>t, <2>3 DEF DeleteStack, Objects
    <3> QED
      BY <1>1, <1>3, <3>1 DEF IInv, FinalSpecs
  <2> QED
    BY <2>1, <2>2, <2>3
<1>9. Finalizer'
  BY <1>1, <1>2 DEF IInv, Finalizer
<1>10. DestroyBeforeFinalize'
  <2>1. stack'.exists \/ (DeleteStack /\ stack'.exists = stack.finalizer)
    BY <1>t DEF EditSpec, RequestReconcile, DeleteStack, Objects
  <2> QED
    BY <1>2, <2>1 DEF IInv, Finalizer, DestroyBeforeFinalize
<1> QED
  BY <1>5, <1>6, <1>7, <1>8, <1>9, <1>10 DEF IInv

LEMMA CrashInv ==
    ASSUME IInv, TypeOK', Crash
    PROVE  IInv'
<1>1. /\ UNCHANGED <<stack, finalSpecs, upd, names>> /\ cache' = stack
      /\ pc' = "idle" /\ inst' = NewStack /\ sess' = Idle
      /\ \A u \in Updates : ucache'[u] = View(u)
  BY DEF Crash, stackVars, worldVars
<1>2. WasDestroyed' <=> WasDestroyed
  BY <1>1 DEF WasDestroyed
<1>3. FreshNames'
  BY <1>1 DEF IInv, FreshNames, Heading
<1>4. CachedSuccess'
  BY <1>1, SuccessView DEF IInv, CachedSuccess
<1>5. HonestCopies'
  BY <1>1, <1>2 DEF IInv, HonestCopies, Honest, NewStack, NilLast
<1>6. FinalSpecs'
  BY <1>1 DEF IInv, FinalSpecs, Idle
<1>7. Finalizer'
  BY <1>1 DEF IInv, Finalizer
<1>8. Justified'
  BY <1>1 DEF Justified, Heading
<1>9. DestroyBeforeFinalize'
  BY <1>1 DEF IInv, DestroyBeforeFinalize
<1> QED
  BY <1>3, <1>4, <1>5, <1>6, <1>7, <1>8, <1>9 DEF IInv

-----------------------------------------------------------------------------
(* Destroy before finalize: the reconciler.                                *)

\* A reconcile ends and leaves the Stack object alone.
LEMMA EndInv ==
    ASSUME IInv, TypeOK', Stop \/ Later \/ Retry, Harmless,
           UNCHANGED <<stack, finalSpecs, cache, ucache, names>>
    PROVE  IInv'
<1>1. pc' = "idle" /\ inst' = NewStack /\ sess' = Idle
  BY DEF Stop, Later, Retry, Finish
<1>2. FreshNames'
  BY <1>1 DEF IInv, FreshNames, Heading, Harmless
<1>3. CachedSuccess'
  BY DEF IInv, CachedSuccess, Harmless
<1>4. HonestCopies'
  BY <1>1, DestroyedStable DEF IInv, HonestCopies, Honest, NewStack, NilLast
<1>5. FinalSpecs'
  BY <1>1 DEF IInv, FinalSpecs, Idle
<1>6. Finalizer'
  BY <1>1 DEF IInv, Finalizer
<1>7. Justified'
  BY <1>1 DEF Justified, Heading
<1>8. DestroyBeforeFinalize'
  BY DestroyedStable DEF IInv, DestroyBeforeFinalize, WasDestroyed
<1> QED
  BY <1>2, <1>3, <1>4, <1>5, <1>6, <1>7, <1>8 DEF IInv

\* A reconcile goes on with a local copy whose record is honest.
LEMMA GotoInv ==
    ASSUME IInv, TypeOK', Harmless,
           UNCHANGED <<stack, finalSpecs, cache, ucache, names>>,
           pc \notin {"idle", "addFinalizer"},
           NEW p \in {"save", "reclaim", "finalize"}, NEW o \in Objects, NEW s \in Sessions,
           Goto(p, o, s),
           s.marked = sess.marked, s.spec = sess.spec,
           Honest(o),
           p = "save" => s.after # "create",
           p = "save" /\ s.after = "release" =>
               s.marked /\ s.spec \notin DestroyOnFinalize \ Preview,
           p = "reclaim" => s.after \in {"stop", "later"},
           p = "save" /\ s.after = "finalize" => WasDestroyed,
           p = "finalize" => WasDestroyed \/ stack.last = NilLast
    PROVE  IInv'
<1>1. pc' = p /\ inst' = o /\ sess' = s
  BY DEF Goto
<1>2. FreshNames'
  BY <1>1 DEF IInv, FreshNames, Heading, Harmless
<1>3. CachedSuccess'
  BY DEF IInv, CachedSuccess, Harmless
<1>4. HonestCopies'
  BY <1>1, DestroyedStable DEF IInv, HonestCopies, Honest
<1>5. FinalSpecs'
  BY <1>1 DEF IInv, FinalSpecs
<1>6. Finalizer'
  BY <1>1 DEF IInv, Finalizer
<1>7. Justified'
  BY <1>1, DestroyedStable DEF Justified, Heading
<1>8. DestroyBeforeFinalize'
  BY DestroyedStable DEF IInv, DestroyBeforeFinalize, WasDestroyed
<1> QED
  BY <1>2, <1>3, <1>4, <1>5, <1>6, <1>7, <1>8 DEF IInv

LEMMA InitInv == Init => IInv
<1> SUFFICES ASSUME Init PROVE IInv
  OBVIOUS
<1>1. TypeOK
  BY InitType
<1>2. FreshNames
  BY DEF Init, FreshNames, Heading, NoUpdate
<1>3. CachedSuccess
  BY DEF Init, CachedSuccess
<1>4. HonestCopies
  BY DEF Init, HonestCopies, Honest, NewStack, NilLast
<1>5. FinalSpecs
  BY DEF Init, FinalSpecs, NewStack, Idle
<1>6. Finalizer
  BY DEF Init, Finalizer, NewStack
<1>7. Justified
  BY DEF Init, Justified, Heading
<1>8. DestroyBeforeFinalize
  BY DEF Init, DestroyBeforeFinalize, NewStack
<1> QED
  BY <1>1, <1>2, <1>3, <1>4, <1>5, <1>6, <1>7, <1>8 DEF IInv

\* The cached read starts from an honest copy, and holds the finalizer if it
\* goes straight to the decision.
LEMMA StartInv ==
    ASSUME IInv, TypeOK', Start
    PROVE  IInv'
<1>1. UNCHANGED <<stack, finalSpecs, cache, upd, ucache, names>>
  BY DEF Start, stackVars, cacheVars, updVars
<1>2. CASE ~Reconcilable(cache)
  <2>1. UNCHANGED sessVars
    BY <1>2 DEF Start
  <2>2. Quiet
    BY <1>1, <2>1, HarmlessChanges DEF Quiet, IInv, stackVars
  <2> QED
    BY <2>2, QuietInv
<1>3. CASE Reconcilable(cache)
  <2>t. cache \in Objects /\ Idle \in Sessions
    BY IdleType DEF IInv, TypeOK
  <2>1. /\ pc = "idle"
        /\ pc' = IF cache.finalizer THEN "decide" ELSE "addFinalizer"
        /\ inst' = [cache EXCEPT !.obsGen = cache.gen, !.obsReq = cache.req]
        /\ sess' = [Idle EXCEPT !.spec = cache.spec, !.marked = cache.deleting,
                                !.req = cache.req, !.rvOk = (cache = stack)]
    BY <1>3 DEF Start
  <2>2. inst'.last = cache.last /\ inst'.deleting = cache.deleting
    BY <2>t, <2>1 DEF Objects
  <2>3. sess'.marked = cache.deleting /\ sess'.spec = cache.spec
    BY <2>t, <2>1 DEF Sessions
  <2>4. WasDestroyed' <=> WasDestroyed
    BY <1>1 DEF WasDestroyed
  <2>5. FreshNames' /\ CachedSuccess'
    BY <1>1, <2>1 DEF IInv, FreshNames, CachedSuccess, Heading
  <2>6. HonestCopies'
    BY <1>1, <2>2, <2>4 DEF IInv, HonestCopies, Honest
  <2>7. FinalSpecs'
    BY <1>1, <2>1, <2>2, <2>3 DEF IInv, FinalSpecs
  <2>8. Finalizer'
    BY <1>1, <2>1 DEF IInv, Finalizer
  <2>9. Justified'
    BY <2>1 DEF Justified, Heading
  <2>10. DestroyBeforeFinalize'
    BY <1>1 DEF IInv, DestroyBeforeFinalize
  <2> QED
    BY <2>5, <2>6, <2>7, <2>8, <2>9, <2>10 DEF IInv
<1> QED
  BY <1>2, <1>3

LEMMA AddFinalizerInv ==
    ASSUME IInv, TypeOK', AddFinalizer
    PROVE  IInv'
<1>1. UNCHANGED <<finalSpecs, cache, upd, ucache, names>>
  BY DEF AddFinalizer, cacheVars, updVars
<1>2. CASE WriteFails
  BY <1>1, <1>2, EndInv, HarmlessChanges DEF WriteFails, IInv
<1>3. ASSUME stack.exists, stack' = [stack EXCEPT !.finalizer = TRUE],
             Goto("decide", [inst EXCEPT !.finalizer = TRUE], sess)
      PROVE  IInv'
  <2>t. stack \in Objects /\ inst \in Objects
    BY DEF IInv, TypeOK
  <2>1. /\ pc = "addFinalizer" /\ pc' = "decide"
        /\ stack' = [stack EXCEPT !.finalizer = TRUE]
        /\ inst' = [inst EXCEPT !.finalizer = TRUE] /\ sess' = sess
    BY <1>3 DEF AddFinalizer, Goto
  <2>2. /\ stack'.last = stack.last /\ stack'.finalizer /\ stack'.exists = stack.exists
        /\ stack'.deleting = stack.deleting /\ stack'.spec = stack.spec
        /\ inst'.last = inst.last /\ inst'.deleting = inst.deleting
    BY <2>t, <2>1 DEF Objects
  <2>4. WasDestroyed' <=> WasDestroyed
    BY <1>1 DEF WasDestroyed
  <2>5. FreshNames' /\ CachedSuccess'
    BY <1>1, <2>1 DEF IInv, FreshNames, CachedSuccess, Heading
  <2>6. HonestCopies'
    BY <1>1, <2>2, <2>4 DEF IInv, HonestCopies, Honest
  <2>7. FinalSpecs'
    BY <1>1, <2>1, <2>2 DEF IInv, FinalSpecs
  <2>8. Finalizer'
    BY <1>1, <2>1, <2>2 DEF IInv, Finalizer
  <2>9. Justified'
    BY <2>1 DEF Justified, Heading
  <2>10. DestroyBeforeFinalize'
    BY <1>3, <2>2 DEF DestroyBeforeFinalize
  <2> QED
    BY <2>5, <2>6, <2>7, <2>8, <2>9, <2>10 DEF IInv
<1> QED
  BY <1>2, <1>3 DEF AddFinalizer

\* Absorbing what the informer shows keeps the record honest, and does not touch
\* the deletion mark.
LEMMA AbsorbedHonest ==
    ASSUME IInv, ~Outstanding(inst.cur.name)
    PROVE  /\ Honest(Absorbed(inst))
           /\ Absorbed(inst).deleting = inst.deleting
<1>t. inst \in Objects
  BY DEF IInv, TypeOK
<1>1. CASE inst.cur.name = 0
  BY <1>1 DEF IInv, HonestCopies, Absorbed
<1>2. CASE inst.cur.name # 0
  <2> DEFINE u == inst.cur.name
  <2>1. u \in Updates
    BY <1>t, <1>2, BoundAssumption DEF Objects, CurrentUpdates, Names, Updates
  <2>2. CASE ucache[u] = "failed"
    <3>1. Absorbed(inst) = MarkStackFailed(inst, u)
      BY <1>2, <2>2 DEF Absorbed
    <3>2. /\ MarkStackFailed(inst, u).last.state = "failed"
          /\ MarkStackFailed(inst, u).deleting = inst.deleting
      BY <1>t DEF MarkStackFailed, Objects
    <3> QED
      BY <3>1, <3>2 DEF Honest
  <2>3. CASE ucache[u] # "failed"
    <3>1. Absorbed(inst) = MarkStackSucceeded(inst, u)
      BY <1>2, <2>3 DEF Absorbed
    <3>2. /\ MarkStackSucceeded(inst, u).last.type = upd[u].type
          /\ MarkStackSucceeded(inst, u).deleting = inst.deleting
      BY <1>t DEF MarkStackSucceeded, Objects
    <3>3. ucache[u] = "succeeded"
      BY <1>2, <2>1, <2>3 DEF IInv, TypeOK, Outstanding
    <3>4. upd[u].phase = "succeeded"
      BY <2>1, <3>3 DEF IInv, CachedSuccess
    <3> QED
      BY <2>1, <3>1, <3>2, <3>4 DEF Honest, WasDestroyed
  <2> QED
    BY <2>2, <2>3
<1> QED
  BY <1>1, <1>2

\* A decision saves the absorbed copy; it may head for the removal of the finalizer
\* where nothing is to be destroyed, or after a destroy.
LEMMA DecideInv ==
    ASSUME IInv, TypeOK', pc = "decide",
           NEW d \in Objects, NEW c \in Conditions, NEW r \in Revisions,
           NEW after \in {"stop", "later", "release", "finalize", "apply"},
           Decide(d, c, after, r),
           Honest(d),
           after = "release" => NothingToDestroy,
           after = "finalize" => WasDestroyed
    PROVE  IInv'
<1> DEFINE o == [d EXCEPT !.cond = c]
           s == [[sess EXCEPT !.toFin = inst.cur.name, !.commit = r] EXCEPT !.after = after]
<1>0. inst.cur.name \in Names /\ sess \in Sessions
  BY DEF IInv, TypeOK, Objects, CurrentUpdates
<1>1. o \in Objects /\ o.last = d.last
  BY DEF Objects
<1>2. [sess EXCEPT !.toFin = inst.cur.name, !.commit = r] \in Sessions
  BY <1>0, SessionTypes
<1>3. s \in Sessions /\ s.marked = sess.marked /\ s.spec = sess.spec /\ s.after = after
  BY <1>0, <1>2 DEF Sessions
<1>4. Goto("save", o, s)
  BY DEF Decide, Save
<1>5. UNCHANGED <<stack, finalSpecs, cache, upd, ucache, names>>
  BY DEF Decide, stackVars, cacheVars, updVars
<1>6. Harmless
  BY <1>5, HarmlessChanges DEF IInv
<1>7. Honest(o)
  BY <1>1 DEF Honest
<1>8. after = "release" => sess.marked /\ sess.spec \notin DestroyOnFinalize \ Preview
  BY DEF NothingToDestroy
<1> HIDE DEF o, s
<1> QED
  BY <1>1, <1>3, <1>4, <1>5, <1>6, <1>7, <1>8, GotoInv

LEMMA DecisionInv ==
    ASSUME IInv, TypeOK',
           \/ WaitForUpdate \/ ReadFails
           \/ ReleaseWithoutDestroy \/ StallOnSource \/ KeepSynced \/ AwaitPrereqs \/ BeginUpdate
    PROVE  IInv'
<1> USE DEF stackVars, cacheVars, wsVars, updVars, worldVars
<1> DEFINE d == Absorbed(inst)
<1>t. TypeOK /\ inst \in Objects /\ sess \in Sessions
  BY DEF IInv, TypeOK
<1>d. d \in Objects
  BY <1>t, AbsorbedType
<1>c. /\ {"ready", "reconciling", "stalled"} \subseteq Conditions
      /\ NoCommit \in Revisions
      /\ \A l : StackResult(l) \in Conditions
  BY DEF Conditions, Revisions, StackResult
<1>o. Resolved(d) # Unavailable => Resolved(d) \in Revisions
  BY <1>t DEF Resolved, Revisions, TypeOK
<1>h. Decidable => Honest(d) /\ d.deleting = inst.deleting /\ pc = "decide"
  BY AbsorbedHonest DEF Decidable
<1> HIDE DEF d
<1>1. CASE WaitForUpdate
  <2> DEFINE o == [inst EXCEPT !.cond = "reconciling"]
             s == [sess EXCEPT !.after = "stop"]
  <2>1. o \in Objects /\ o.last = inst.last
    BY <1>t, <1>c DEF Objects
  <2>2. s \in Sessions /\ s.marked = sess.marked /\ s.spec = sess.spec /\ s.after = "stop"
    BY <1>t DEF Sessions
  <2>3. Goto("save", o, s) /\ pc = "decide"
    BY <1>1 DEF WaitForUpdate, Save
  <2>4. UNCHANGED <<stack, finalSpecs, cache, upd, ucache, names>>
    BY <1>1 DEF WaitForUpdate
  <2>5. Harmless
    BY <2>4, HarmlessChanges DEF IInv
  <2>6. Honest(o)
    BY <2>1 DEF IInv, HonestCopies, Honest
  <2> HIDE DEF o, s
  <2> QED
    BY <2>1, <2>2, <2>3, <2>4, <2>5, <2>6, GotoInv
<1>2. CASE ReadFails
  BY <1>2, EndInv, HarmlessChanges DEF ReadFails, IInv
<1>3. CASE ReleaseWithoutDestroy
  BY <1>3, <1>d, <1>c, <1>h, DecideInv DEF ReleaseWithoutDestroy, d
<1>4. CASE StallOnSource
  BY <1>4, <1>d, <1>c, <1>h, DecideInv DEF StallOnSource, d
<1>5. CASE AwaitPrereqs
  BY <1>5, <1>d, <1>c, <1>h, DecideInv DEF AwaitPrereqs, Resolvable, d
<1>6. CASE BeginUpdate
  BY <1>6, <1>d, <1>c, <1>o, <1>h, DecideInv DEF BeginUpdate, Resolvable, d
<1>7. CASE KeepSynced
  <2> DEFINE again == IF Requeues(d) THEN "later" ELSE "stop"
  <2>1. again \in {"stop", "later"}
    OBVIOUS
  <2>2. Decidable /\ IsSynced(d, Resolved(d), Old)
    BY <1>7 DEF KeepSynced, Resolvable, d
  <2> HIDE DEF again
  <2>3. \/ sess.marked /\ Destroyed(d) /\ Decide(d, StackResult(d.last), "finalize", NoCommit)
        \/ Decide(d, StackResult(d.last), "later", NoCommit)
        \/ Decide(d, StackResult(d.last), again, NoCommit)
        \/ /\ Goto("reclaim", [d EXCEPT !.cond = "ready"],
                   [sess EXCEPT !.toFin = inst.cur.name, !.after = again])
           /\ UNCHANGED <<stackVars, cacheVars, wsVars, updVars, worldVars, left>>
    BY <1>7 DEF KeepSynced, d, again
  <2>4. ASSUME sess.marked, Destroyed(d)  PROVE WasDestroyed
    <3>1. d.deleting
      BY <1>h, <2>2, <2>4 DEF IInv, FinalSpecs
    <3>2. d.last.state = "succeeded" /\ d.last.type = "destroy"
      BY <2>2, <2>4, <3>1 DEF IsSynced, Destroyed
    <3> QED
      BY <1>h, <2>2, <3>2 DEF Honest
  <2>5. ASSUME NEW a \in {"later", again}, Decide(d, StackResult(d.last), a, NoCommit)
        PROVE  IInv'
    BY <1>d, <1>c, <1>h, <2>1, <2>2, <2>5, DecideInv
  <2>6. ASSUME sess.marked, Destroyed(d), Decide(d, StackResult(d.last), "finalize", NoCommit)
        PROVE  IInv'
    BY <1>d, <1>c, <1>h, <2>2, <2>4, <2>6, DecideInv
  <2>7. ASSUME Goto("reclaim", [d EXCEPT !.cond = "ready"],
                    [sess EXCEPT !.toFin = inst.cur.name, !.after = again]),
               UNCHANGED <<stackVars, cacheVars, wsVars, updVars, worldVars, left>>
        PROVE  IInv'
    <3> DEFINE o == [d EXCEPT !.cond = "ready"]
               s == [sess EXCEPT !.toFin = inst.cur.name, !.after = again]
    <3>0. inst.cur.name \in Names
      BY <1>t DEF Objects, CurrentUpdates
    <3>1. o \in Objects /\ o.last = d.last
      BY <1>d, <1>c DEF Objects
    <3>2. s \in Sessions
      BY <1>t, <2>1, <3>0, SessionTypes
    <3>3. s.marked = sess.marked /\ s.spec = sess.spec /\ s.after = again
      BY <1>t DEF Sessions
    <3>4. Honest(o)
      BY <1>h, <2>2, <3>1 DEF Honest
    <3>5. Harmless
      BY <2>7, HarmlessChanges DEF IInv
    <3>6. pc = "decide" /\ Goto("reclaim", o, s) /\ UNCHANGED <<stack, finalSpecs, cache, ucache, names>>
      BY <1>h, <2>2, <2>7
    <3> HIDE DEF o, s
    <3> QED
      BY <2>1, <3>1, <3>2, <3>3, <3>4, <3>5, <3>6, GotoInv
  <2> QED
    BY <2>3, <2>5, <2>6, <2>7
<1> QED
  BY <1>1, <1>2, <1>3, <1>4, <1>5, <1>6, <1>7

\* A status write copies an honest record to the object, which keeps its finalizer.
LEMMA SaveStatusInv ==
    ASSUME IInv, TypeOK', SaveStatus
    PROVE  IInv'
<1>t. TypeOK /\ stack \in Objects /\ inst \in Objects /\ sess \in Sessions /\ sess.toFin \in Names
  BY DEF IInv, TypeOK, Sessions
<1>0. pc = "save" /\ UNCHANGED <<finalSpecs, cache, ucache, names>>
  BY DEF SaveStatus, cacheVars
<1>1. ASSUME stack.exists, stack' = WithStatus(stack, inst),
             Proceed(stack', [sess EXCEPT !.rvOk = TRUE, !.toFin = 0]),
             upd' = Unfinalized(sess.toFin) \/ UNCHANGED upd
      PROVE  IInv'
  <2>1. Harmless
    BY <1>t, <1>1, HarmlessChanges DEF IInv
  <2>2. /\ stack'.last = inst.last /\ stack'.cur = inst.cur /\ stack'.exists
        /\ stack'.finalizer = stack.finalizer /\ stack'.deleting = stack.deleting
        /\ stack'.spec = stack.spec
    BY <1>t, <1>1 DEF WithStatus, Objects
  <2>3. \/ pc' = "idle" /\ inst' = NewStack /\ sess' = Idle
        \/ /\ pc' = sess.after /\ pc' \in {"release", "finalize", "apply", "create"}
           /\ inst' = stack' /\ sess'.marked = sess.marked /\ sess'.spec = sess.spec
    BY <1>t, <1>1 DEF Proceed, Stop, Later, Retry, Finish, Goto, Sessions
  <2>4. FreshNames'
    BY <1>0, <2>1, <2>2, <2>3 DEF IInv, FreshNames, Heading, Harmless
  <2>5. CachedSuccess'
    BY <1>0, <2>1 DEF IInv, CachedSuccess, Harmless
  <2>6. HonestCopies'
    BY <1>0, <2>1, <2>2, <2>3, DestroyedStable DEF IInv, HonestCopies, Honest, NewStack, NilLast
  <2>7. FinalSpecs'
    BY <1>0, <2>2, <2>3 DEF IInv, FinalSpecs, Idle
  <2>8. Finalizer'
    BY <1>0, <1>1, <2>2, <2>3 DEF IInv, Finalizer
  <2>9. Justified'
    BY <1>0, <2>1, <2>2, <2>3, DestroyedStable DEF IInv, Justified, Heading
  <2>10. DestroyBeforeFinalize'
    BY <2>2 DEF DestroyBeforeFinalize
  <2> QED
    BY <2>4, <2>5, <2>6, <2>7, <2>8, <2>9, <2>10 DEF IInv
<1>2. ASSUME IF sess.after = "finalize" THEN Goto("finalize", inst, sess) ELSE Retry,
             UNCHANGED <<stack, upd>>
      PROVE  IInv'
  <2>1. Harmless
    BY <1>2, HarmlessChanges DEF IInv
  <2>2. CASE sess.after = "finalize"
    <3>1. WasDestroyed /\ Honest(inst)
      BY <1>0, <2>2 DEF IInv, Justified, HonestCopies
    <3> QED
      BY <1>t, <1>0, <1>2, <2>1, <2>2, <3>1, GotoInv
  <2>3. CASE sess.after # "finalize"
    BY <1>0, <1>2, <2>1, <2>3, EndInv
  <2> QED
    BY <2>2, <2>3
<1> QED
  BY <1>1, <1>2 DEF SaveStatus

LEMMA ReclaimInv ==
    ASSUME IInv, TypeOK', ReclaimWorkspace
    PROVE  IInv'
<1>t. TypeOK /\ inst \in Objects /\ sess \in Sessions /\ sess.toFin \in Names /\ 0 \in Names
  BY BoundAssumption DEF IInv, TypeOK, Sessions, Names
<1>0. pc = "reclaim" /\ UNCHANGED <<stack, finalSpecs, cache, ucache, names>>
  BY DEF ReclaimWorkspace, stackVars, cacheVars
<1>1. Harmless
  BY <1>t, HarmlessChanges DEF ReclaimWorkspace, IInv
<1>2. CASE Retry
  BY <1>0, <1>1, <1>2, EndInv
<1>3. CASE Save(inst, [sess EXCEPT !.toFin = 0], sess.after)
  <2> DEFINE s == [[sess EXCEPT !.toFin = 0] EXCEPT !.after = sess.after]
  <2>1. s \in Sessions /\ s.marked = sess.marked /\ s.spec = sess.spec /\ s.after = sess.after
    BY <1>t DEF Sessions
  <2>2. Goto("save", inst, s)
    BY <1>3 DEF Save
  <2>3. sess.after \in {"stop", "later"} /\ Honest(inst)
    BY <1>0 DEF IInv, Justified, HonestCopies
  <2> HIDE DEF s
  <2> QED
    BY <1>t, <1>0, <1>1, <2>1, <2>2, <2>3, GotoInv
<1> QED
  BY <1>2, <1>3 DEF ReclaimWorkspace

\* Planning an Update takes a name nobody has used; a workspace that stalls gives
\* the finalizer up only where no update was ever recorded.
LEMMA ApplyInv ==
    ASSUME IInv, TypeOK', ApplyWorkspace
    PROVE  IInv'
<1>t. TypeOK /\ inst \in Objects /\ sess \in Sessions /\ names \in Nat /\ names <= MaxUpdates
  BY BoundAssumption DEF IInv, TypeOK
<1>0. pc = "apply" /\ UNCHANGED <<stack, finalSpecs, cache, upd, ucache>>
  BY DEF ApplyWorkspace, stackVars, cacheVars
<1>1. Harmless
  BY <1>0, HarmlessChanges DEF IInv
<1>2. Honest(inst) /\ stack.last = inst.last
  BY <1>0 DEF IInv, HonestCopies, Justified
<1>3. ASSUME names < MaxUpdates, names' = names + 1,
             Save([inst EXCEPT !.cond = "reconciling",
                               !.cur = [gen |-> inst.gen, req |-> sess.req,
                                        name |-> names + 1, commit |-> sess.commit]],
                  [sess EXCEPT !.type = NextType], "create")
      PROVE  IInv'
  <2>1. pc' = "save" /\ inst'.last = inst.last /\ inst'.cur.name = names + 1
    BY <1>t, <1>3 DEF Save, Goto, Objects
  <2>2. sess'.marked = sess.marked /\ sess'.spec = sess.spec /\ sess'.after = "create"
    BY <1>t, <1>3 DEF Save, Goto, Sessions
  <2>3. names' \in Updates /\ names' > names
    BY <1>t, <1>3, BoundAssumption DEF Updates
  <2>4. upd[names'].obj = "none"
    BY <2>3 DEF IInv, FreshNames
  <2>5. WasDestroyed' <=> WasDestroyed
    BY <1>0 DEF WasDestroyed
  <2>6. FreshNames'
    <3>1. \A u \in Updates : u > names' => u > names
      BY <1>t, <1>3 DEF Updates
    <3> QED
      BY <1>0, <1>3, <2>1, <2>3, <2>4, <3>1 DEF IInv, FreshNames, Heading
  <2>7. CachedSuccess' /\ HonestCopies'
    BY <1>0, <2>1, <2>5 DEF IInv, CachedSuccess, HonestCopies, Honest
  <2>8. FinalSpecs'
    BY <1>0, <2>1, <2>2 DEF IInv, FinalSpecs
  <2>9. Finalizer'
    BY <1>0, <2>1 DEF IInv, Finalizer
  <2>10. Justified'
    BY <2>1, <2>2 DEF Justified, Heading
  <2>11. DestroyBeforeFinalize'
    BY <1>0 DEF IInv, DestroyBeforeFinalize
  <2> QED
    BY <2>6, <2>7, <2>8, <2>9, <2>10, <2>11 DEF IInv
<1>4. ASSUME names' = names, NEW a \in {"stop", "later"},
             Save([inst EXCEPT !.cond = "stalled"], sess, a)
      PROVE  IInv'
  <2> DEFINE o == [inst EXCEPT !.cond = "stalled"]
             s == [sess EXCEPT !.after = a]
  <2>1. o \in Objects /\ o.last = inst.last
    BY <1>t DEF Objects, Conditions
  <2>2. s \in Sessions /\ s.marked = sess.marked /\ s.spec = sess.spec /\ s.after = a
    BY <1>t DEF Sessions
  <2>3. Goto("save", o, s)
    BY <1>4 DEF Save
  <2>4. Honest(o)
    BY <1>2, <2>1 DEF Honest
  <2> HIDE DEF o, s
  <2> QED
    BY <1>0, <1>1, <1>4, <2>1, <2>2, <2>3, <2>4, GotoInv
<1>5. ASSUME names' = names, inst.last = NilLast, Goto("finalize", inst, sess)
      PROVE  IInv'
  BY <1>t, <1>0, <1>1, <1>2, <1>5, GotoInv
<1>6. ASSUME names' = names, Stop \/ Retry
      PROVE  IInv'
  BY <1>0, <1>1, <1>6, EndInv
<1> QED
  BY <1>3, <1>4, <1>5, <1>6 DEF ApplyWorkspace, StallInTerminatingNamespace

\* The new Update takes the place of one that never ran.
LEMMA CreateInv ==
    ASSUME IInv, TypeOK', CreateUpdate
    PROVE  IInv'
<1> DEFINE u == inst.cur.name
<1>t. TypeOK /\ inst \in Objects /\ sess \in Sessions
  BY DEF IInv, TypeOK
<1>0. pc = "create" /\ UNCHANGED <<stack, finalSpecs, cache, ucache, names>>
  BY DEF CreateUpdate, stackVars, cacheVars
<1>1. u = names /\ u \in Updates /\ upd[u].obj = "none" /\ upd[u].phase = "pending"
  BY <1>0 DEF IInv, FreshNames, Heading
<1>2. ASSUME upd' = [upd EXCEPT ![u] = [NoUpdate EXCEPT !.obj = "live", !.type = sess.type,
                                                       !.gen = inst.cur.gen, !.req = sess.req]],
             Goto("addUpdateFinalizer", inst, sess)
      PROVE  IInv'
  <2>1. pc' = "addUpdateFinalizer" /\ inst' = inst /\ sess' = sess
    BY <1>2 DEF Goto
  <2>2. upd'[u].obj = "live" /\ \A v \in Updates : v # u => upd'[v] = upd[v]
    BY <1>t, <1>1, <1>2 DEF TypeOK, NoUpdate
  <2>3. ~(u > names)
    BY <1>t, <1>1 DEF TypeOK
  <2>4. WasDestroyed => WasDestroyed'
    BY <1>1, <2>2 DEF WasDestroyed
  <2>5. FreshNames'
    BY <1>0, <1>1, <2>1, <2>2, <2>3 DEF IInv, FreshNames, Heading
  <2>6. CachedSuccess'
    BY <1>0, <1>1, <2>2 DEF IInv, CachedSuccess
  <2>7. HonestCopies'
    BY <1>0, <2>1, <2>4 DEF IInv, HonestCopies, Honest
  <2>8. FinalSpecs'
    BY <1>0, <2>1 DEF IInv, FinalSpecs
  <2>9. Finalizer'
    BY <1>0, <2>1 DEF IInv, Finalizer
  <2>10. Justified'
    BY <2>1 DEF Justified, Heading
  <2>11. DestroyBeforeFinalize'
    BY <1>0, <2>4 DEF IInv, DestroyBeforeFinalize, WasDestroyed
  <2> QED
    BY <2>5, <2>6, <2>7, <2>8, <2>9, <2>10, <2>11 DEF IInv
<1>3. ASSUME Save([inst EXCEPT !.cur = NilCurrent], sess, "error"), UNCHANGED upd
      PROVE  IInv'
  <2> DEFINE o == [inst EXCEPT !.cur = NilCurrent]
             s == [sess EXCEPT !.after = "error"]
  <2>1. o \in Objects /\ o.last = inst.last
    BY <1>t, NilTypes DEF Objects
  <2>2. s \in Sessions /\ s.marked = sess.marked /\ s.spec = sess.spec /\ s.after = "error"
    BY <1>t DEF Sessions
  <2>3. Goto("save", o, s)
    BY <1>3 DEF Save
  <2>4. Honest(o)
    BY <2>1 DEF IInv, HonestCopies, Honest
  <2>5. Harmless
    BY <1>3, HarmlessChanges DEF IInv
  <2> HIDE DEF o, s
  <2> QED
    BY <1>0, <2>1, <2>2, <2>3, <2>4, <2>5, GotoInv
<1> QED
  BY <1>2, <1>3 DEF CreateUpdate

LEMMA AddUpdateFinalizerInv ==
    ASSUME IInv, TypeOK', AddUpdateFinalizer
    PROVE  IInv'
<1> DEFINE u == inst.cur.name
<1>t. TypeOK /\ inst \in Objects /\ sess \in Sessions
  BY DEF IInv, TypeOK
<1>0. pc = "addUpdateFinalizer" /\ UNCHANGED <<stack, finalSpecs, cache, ucache, names>>
  BY DEF AddUpdateFinalizer, stackVars, cacheVars
<1>1. u \in Updates /\ upd[u].obj # "none"
  BY <1>0 DEF IInv, FreshNames
<1>2. ASSUME upd' = Held(u), Stop  PROVE IInv'
  <2>1. \A v \in Updates : upd'[v] = IF v = u THEN [upd[u] EXCEPT !.fin = TRUE] ELSE upd[v]
    BY <1>t, <1>1, <1>2 DEF Held, TypeOK
  <2>2. \A r \in UpdateObjects : /\ [r EXCEPT !.fin = TRUE].obj = r.obj
                                 /\ [r EXCEPT !.fin = TRUE].phase = r.phase
                                 /\ [r EXCEPT !.fin = TRUE].type = r.type
    BY DEF UpdateObjects
  <2>3. upd[u] \in UpdateObjects
    BY <1>t, <1>1 DEF TypeOK
  <2>4. Harmless
    BY <2>1, <2>2, <2>3, ZenonT(30) DEF Harmless
  <2> QED
    BY <1>0, <1>2, <2>4, EndInv
<1>3. ASSUME upd' \in {MarkDeleted(u), upd}, Save([inst EXCEPT !.cur = NilCurrent], sess, "error")
      PROVE  IInv'
  <2> DEFINE o == [inst EXCEPT !.cur = NilCurrent]
             s == [sess EXCEPT !.after = "error"]
  <2>1. o \in Objects /\ o.last = inst.last
    BY <1>t, NilTypes DEF Objects
  <2>2. s \in Sessions /\ s.marked = sess.marked /\ s.spec = sess.spec /\ s.after = "error"
    BY <1>t DEF Sessions
  <2>3. Goto("save", o, s)
    BY <1>3 DEF Save
  <2>4. Honest(o)
    BY <2>1 DEF IInv, HonestCopies, Honest
  <2>5. Harmless
    BY <1>1, <1>3, HarmlessChanges DEF IInv
  <2> HIDE DEF o, s
  <2> QED
    BY <1>0, <2>1, <2>2, <2>3, <2>4, <2>5, GotoInv
<1> QED
  BY <1>2, <1>3 DEF AddUpdateFinalizer

\* The two ways in which the finalizer goes: an early release, for a spec that asks
\* for no destroy, and the end of a deletion, after a destroy or without updates.
LEMMA RemoveFinalizerInv ==
    ASSUME IInv, TypeOK', RemoveFinalizer
    PROVE  IInv'
<1>0. pc \in {"release", "finalize"} /\ UNCHANGED <<finalSpecs, cache, upd, ucache, names>>
  BY DEF RemoveFinalizer, cacheVars, updVars
<1>1. Harmless
  BY <1>0, HarmlessChanges DEF IInv
<1>2. CASE WriteFails
  BY <1>0, <1>1, <1>2, EndInv DEF WriteFails
<1>3. ASSUME stack' = [stack EXCEPT !.finalizer = FALSE, !.exists = FALSE], Stop
      PROVE  IInv'
  <2>1. pc' = "idle" /\ inst' = NewStack /\ sess' = Idle
    BY <1>3 DEF Stop, Finish
  <2>t. stack \in Objects
    BY DEF IInv, TypeOK
  <2>2. /\ stack'.last = stack.last /\ ~stack'.exists
        /\ stack'.deleting = stack.deleting /\ stack'.spec = stack.spec
    BY <1>3, <2>t DEF Objects
  <2>3. FreshNames' /\ CachedSuccess'
    BY <1>0, <2>1 DEF IInv, FreshNames, Heading, CachedSuccess
  <2>4. HonestCopies'
    BY <1>0, <1>1, <2>1, <2>2, DestroyedStable DEF IInv, HonestCopies, Honest, NewStack, NilLast
  <2>5. FinalSpecs'
    BY <1>0, <2>1, <2>2 DEF IInv, FinalSpecs, Idle
  <2>6. Finalizer'
    BY <2>1, <2>2 DEF Finalizer
  <2>7. Justified'
    BY <2>1 DEF Justified, Heading
  <2>8. CASE pc = "release"
    <3>1. sess.spec \in finalSpecs /\ sess.spec \notin DestroyOnFinalize \ Preview
      BY <2>8 DEF IInv, Justified, Heading, FinalSpecs
    <3>2. ~(finalSpecs' \subseteq DestroyOnFinalize \ Preview)
      BY <1>0, <3>1
    <3>3. DestroyBeforeFinalize'
      BY <3>2 DEF DestroyBeforeFinalize
    <3> QED
      BY <2>3, <2>4, <2>5, <2>6, <2>7, <3>3 DEF IInv
  <2>9. CASE pc = "finalize"
    <3>1. WasDestroyed \/ stack.last = NilLast
      BY <2>9 DEF IInv, Justified
    <3>2. DestroyBeforeFinalize'
      BY <1>0, <2>2, <3>1 DEF DestroyBeforeFinalize, WasDestroyed
    <3> QED
      BY <2>3, <2>4, <2>5, <2>6, <2>7, <3>2 DEF IInv
  <2> QED
    BY <1>0, <2>8, <2>9
<1> QED
  BY <1>2, <1>3 DEF RemoveFinalizer

LEMMA StepInv == IInv /\ [Next]_vars => IInv'
<1> SUFFICES ASSUME IInv, [Next]_vars PROVE IInv'
  OBVIOUS
<1>1. TypeOK'
  BY StepType DEF IInv
<1>2. CASE World \/ Delivery \/ DeleteWorkspace \/ (\E u \in Updates : DeleteUpdate(u))
  BY <1>1, <1>2, QuietSteps, QuietInv DEF IInv
<1>3. CASE (\E s \in Specs : EditSpec(s)) \/ RequestReconcile \/ DeleteStack
  BY <1>1, <1>3, UserInv
<1>4. CASE Crash
  BY <1>1, <1>4, CrashInv
<1>5. CASE Reconcile
  BY <1>1, <1>5, StartInv, AddFinalizerInv, DecisionInv, SaveStatusInv, ReclaimInv, ApplyInv,
     CreateInv, AddUpdateFinalizerInv, RemoveFinalizerInv DEF Reconcile
<1>6. CASE UNCHANGED vars
  <2>1. Quiet
    BY <1>6, HarmlessChanges DEF Quiet, IInv, vars, stackVars, cacheVars, sessVars, updVars
  <2> QED
    BY <1>1, <2>1, QuietInv
<1> QED
  BY <1>2, <1>3, <1>4, <1>5, <1>6 DEF Next, User

\* No Stack is finalized undestroyed: in every behaviour, with any number of edits,
\* faults, restarts, expiring or deleted Updates and stale caches, a Stack whose final
\* specs all ask for destroyOnFinalize loses its finalizer only after a destroy of
\* it succeeded, or if no update of it was ever recorded (DestroyBeforeFinalize).
THEOREM FinalizedAfterDestroy == Spec => []DestroyBeforeFinalize
<1>1. IInv => DestroyBeforeFinalize
  BY DEF IInv
<1> QED
  BY <1>1, InitInv, StepInv, PTL DEF Spec

-----------------------------------------------------------------------------
(***************************************************************************)
(* Proofs about the Updates of a Stack, for every value of the constants:  *)
(* that one at a time is in flight, that each result is recorded, that the *)
(* object is held until it is, that failing Updates are retried a bounded  *)
(* number of times, and that a Stack which is gone leaves nothing behind.  *)
(*                                                                         *)
(* All of them need reconciles that read their own writes.  The status     *)
(* forgets an Update when the calls that create and hold it fail, and an   *)
(* Update can vanish before it is held: what excludes this is the          *)
(* hypothesis of each theorem.                                             *)
(***************************************************************************)

-----------------------------------------------------------------------------
(* What the actions do, field by field.                                    *)

Waiting(u) == upd[u].phase = "pending" /\ upd[u].obj \in {"live", "deleting"}

\* An Update changes in its metadata at most.
Kept(u) ==
    /\ upd'[u].phase = upd[u].phase /\ upd'[u].ran = upd[u].ran
    /\ upd'[u].type = upd[u].type
    /\ upd'[u].gen = upd[u].gen /\ upd'[u].req = upd[u].req
    /\ upd'[u].obj = "none" <=> upd[u].obj = "none"

\* An Update is deleted: it expires, or a user or the garbage collector deletes it.
Deleted(u) ==
    /\ Kept(u) /\ upd'[u] = DeletedUpdate(upd[u])
    /\ upd[u].obj = "live"
    /\ \/ DeleteUpdate(u)
       \/ /\ UpdateExpires(u)
          /\ \/ Complete(u) /\ (Ttl = "early" \/ (Ttl = "late" /\ stack.cur.name # u))
             \/ ~stack.exists \/ nsGone

\* An Update starts, ends or is canceled.
Moves(u) ==
    /\ upd'[u].obj = upd[u].obj /\ upd'[u].fin = upd[u].fin
    /\ upd'[u].type = upd[u].type
    /\ upd'[u].gen = upd[u].gen /\ upd'[u].req = upd[u].req
    /\ \/ /\ Waiting(u) /\ upd'[u].phase = "running" /\ upd'[u].ran = ws.content
          /\ \A v \in Updates : upd[v].phase # "running"
       \/ Waiting(u) /\ upd'[u].phase = "failed" /\ upd'[u].ran = upd[u].ran
       \/ /\ upd[u].phase = "running" /\ upd'[u].phase \in {"succeeded", "failed"}
          /\ upd'[u].ran = upd[u].ran

\* What a step of the world leaves deployed: only a successful run of a destroy is sure
\* to remove everything, and only one of an up may add to it.
Deploys ==
    \/ infra' = {}
    \/ /\ infra' = infra
       /\ \A u \in Updates : upd'[u].phase = "succeeded" /\ upd[u].type = "destroy" =>
                                 upd[u].phase = "succeeded"
    \/ \E u \in Updates : /\ upd[u].type = "up" /\ upd[u].phase = "running"
                          /\ \A v \in Updates \ {u} : upd'[v] = upd[v]

\* The steps of the world and of the watches, which leave the Stack and the running
\* reconcile alone and change one Update at most.
Calm ==
    /\ UNCHANGED <<stackVars, sessVars, names, nsGone>>
    /\ ws'.content = ws.content
    /\ ws'.state = "stalled" => ws.state = "stalled" \/ left.ws > 0
    /\ Deploys
    /\ cache' = cache \/ cache' = stack
    /\ \A u \in Updates : ucache'[u] = ucache[u] \/ ucache'[u] = View(u)
    /\ \/ upd' = upd
       \/ \E u \in Updates : /\ Deleted(u) \/ Moves(u)
                             /\ \A v \in Updates \ {u} : upd'[v] = upd[v]

LEMMA CalmSteps ==
    ASSUME TypeOK,
           \/ World \/ Delivery \/ DeleteWorkspace \/ (\E u \in Updates : DeleteUpdate(u))
           \/ UNCHANGED vars
    PROVE  Calm
<1> USE DEF stackVars, cacheVars, queueVars, sessVars, wsVars, updVars, worldVars
<1>0. \A u \in Updates : upd[u] \in UpdateObjects
  BY DEF TypeOK
<1>1. CASE \/ SourceOutage \/ (\E c \in Commits : NewRevision(c)) \/ PrereqReady \/ TimePasses
           \/ WorkspaceReady \/ WorkspaceStalls \/ WorkspaceUnready \/ WorkspaceGone
           \/ DeleteWorkspace \/ SyncCache \/ TimerFires \/ WorkspaceEvent
  <2>1. UNCHANGED <<stackVars, sessVars, names, nsGone, upd, ucache>>
    BY <1>1 DEF SourceOutage, NewRevision, PrereqReady, TimePasses, WorkspaceReady, WorkspaceStalls,
       WorkspaceUnready, WorkspaceGone, DeleteWorkspace, SetWorkspace, SyncCache, TimerFires,
       WorkspaceEvent
  <2>2. cache' = cache \/ cache' = stack
    BY <1>1 DEF SourceOutage, NewRevision, PrereqReady, TimePasses, WorkspaceReady, WorkspaceStalls,
       WorkspaceUnready, WorkspaceGone, DeleteWorkspace, SetWorkspace, SyncCache, TimerFires,
       WorkspaceEvent
  <2>3. ws' = ws \/ (\E s : ws' = [ws EXCEPT !.state = s])
    BY <1>1 DEF SourceOutage, NewRevision, PrereqReady, TimePasses, WorkspaceReady, WorkspaceStalls,
       WorkspaceUnready, WorkspaceGone, DeleteWorkspace, SetWorkspace, SyncCache, TimerFires,
       WorkspaceEvent
  <2>4. ws'.content = ws.content
    BY <2>3 DEF TypeOK
  <2>5. ws'.state = "stalled" => ws.state = "stalled" \/ left.ws > 0
    BY <1>1 DEF SourceOutage, NewRevision, PrereqReady, TimePasses, WorkspaceReady, WorkspaceStalls,
       WorkspaceUnready, WorkspaceGone, DeleteWorkspace, SetWorkspace, SyncCache, TimerFires,
       WorkspaceEvent, TypeOK
  <2>6. infra' = infra
    BY <1>1 DEF SourceOutage, NewRevision, PrereqReady, TimePasses, WorkspaceReady, WorkspaceStalls,
       WorkspaceUnready, WorkspaceGone, DeleteWorkspace, SetWorkspace, SyncCache, TimerFires,
       WorkspaceEvent
  <2>7. Deploys
    BY <2>1, <2>6 DEF Deploys
  <2> QED
    BY <2>1, <2>2, <2>4, <2>5, <2>7 DEF Calm
<1>2. ASSUME NEW u \in Updates, SyncUpdate(u)  PROVE Calm
  BY <1>2 DEF SyncUpdate, TypeOK, Calm, Deploys
<1>3. ASSUME NEW u \in Updates, UpdateStarts(u) \/ UpdateCanceled(u)  PROVE Calm
  <2>1. UNCHANGED <<stackVars, sessVars, names, nsGone, cache, ucache, ws>>
    BY <1>3 DEF UpdateStarts, UpdateCanceled, UpdateStep
  <2>2. \A v \in Updates \ {u} : upd'[v] = upd[v]
    BY <1>3 DEF UpdateStarts, UpdateCanceled, TypeOK
  <2>3. Moves(u)
    BY <1>0, <1>3 DEF UpdateStarts, UpdateCanceled, TypeOK, UpdateObjects, Moves, Waiting
  <2>4. Deploys
    BY <1>0, <1>3, <2>2 DEF UpdateStarts, UpdateCanceled, TypeOK, UpdateObjects, Deploys
  <2> QED
    BY <2>1, <2>2, <2>3, <2>4 DEF Calm
<1>4. ASSUME NEW u \in Updates, NEW ok \in BOOLEAN, UpdateFinishes(u, ok)  PROVE Calm
  <2>1. UNCHANGED <<stackVars, sessVars, names, nsGone, cache, ucache, ws>>
    BY <1>4 DEF UpdateFinishes, UpdateStep
  <2>2. \A v \in Updates \ {u} : upd'[v] = upd[v]
    BY <1>4 DEF UpdateFinishes, TypeOK
  <2>3. Moves(u)
    BY <1>0, <1>4 DEF UpdateFinishes, TypeOK, UpdateObjects, Moves, Waiting
  <2>4. infra' \in Deployed(u, ok) /\ upd[u].phase = "running"
    BY <1>4 DEF UpdateFinishes
  <2>5. Deploys
    <3>1. CASE upd[u].type = "up"
      BY <2>2, <2>4, <3>1 DEF Deploys
    <3>2. CASE upd[u].type # "up"
      <4>1. infra' = {} \/ infra' = infra
        BY <2>4, <3>2 DEF Deployed
      <4>2. upd[u].type = "destroy" /\ upd'[u].phase = "succeeded" => infra' = {}
        BY <1>0, <1>4, <2>4, <3>2 DEF Deployed, UpdateFinishes, TypeOK, UpdateObjects
      <4> QED
        BY <2>2, <4>1, <4>2 DEF Deploys
    <3> QED
      BY <3>1, <3>2
  <2> QED
    BY <2>1, <2>2, <2>3, <2>5 DEF Calm
<1>5. ASSUME NEW u \in Updates, UpdateExpires(u) \/ DeleteUpdate(u)  PROVE Calm
  <2>1. UNCHANGED <<stackVars, sessVars, names, nsGone, cache, ucache, ws>>
    BY <1>5 DEF UpdateExpires, DeleteUpdate, UpdateStep
  <2>2. upd[u].obj = "live" /\ upd' = MarkDeleted(u)
    BY <1>5 DEF UpdateExpires, DeleteUpdate
  <2>3. (\A v \in Updates \ {u} : upd'[v] = upd[v]) /\ upd'[u] = DeletedUpdate(upd[u])
    BY <2>2 DEF MarkDeleted, TypeOK
  <2>4. Kept(u)
    BY <1>0, <2>2, <2>3 DEF DeletedUpdate, UpdateObjects, Kept
  <2>5. Deleted(u)
    BY <1>5, <2>2, <2>3, <2>4 DEF UpdateExpires, DeleteUpdate, Deleted
  <2>6. infra' = infra
    BY <1>5 DEF UpdateExpires, DeleteUpdate
  <2>7. Deploys
    BY <2>3, <2>4, <2>6 DEF Deploys, Kept
  <2> QED
    BY <2>1, <2>3, <2>5, <2>7 DEF Calm
<1>6. CASE UNCHANGED vars
  BY <1>6 DEF vars, Calm, Deploys
<1> QED
  BY <1>1, <1>2, <1>3, <1>4, <1>5, <1>6 DEF World, Delivery

\* What a step of the world does to each Update.
LEMMA CalmUpdate ==
    ASSUME TypeOK, Calm, NEW u \in Updates
    PROVE  /\ upd'[u].type = upd[u].type /\ upd'[u].gen = upd[u].gen /\ upd'[u].req = upd[u].req
           /\ upd'[u].obj = "none" <=> upd[u].obj = "none"
           /\ Waiting(u)' => Waiting(u)
           /\ Complete(u) => upd'[u].phase = upd[u].phase
           /\ \/ upd'[u].phase = upd[u].phase /\ upd'[u].ran = upd[u].ran
              \/ /\ Waiting(u) /\ upd'[u].phase = "running" /\ upd'[u].ran = ws.content
                 /\ \A v \in Updates : upd[v].phase # "running"
              \/ Waiting(u) /\ upd'[u].phase = "failed" /\ upd'[u].ran = upd[u].ran
              \/ /\ upd[u].phase = "running" /\ upd'[u].phase \in {"succeeded", "failed"}
                 /\ upd'[u].ran = upd[u].ran
<1>t. upd[u] \in UpdateObjects
  BY DEF TypeOK
<1>1. CASE upd'[u] = upd[u]
  BY <1>1 DEF Waiting
<1>2. CASE Deleted(u)
  BY <1>t, <1>2 DEF Deleted, Kept, DeletedUpdate, UpdateObjects, Waiting
<1>3. CASE Moves(u)
  BY <1>3 DEF Moves, Waiting, Complete
<1> QED
  BY <1>1, <1>2, <1>3 DEF Calm

\* The fields of the status, and the others.
SameStatus(p, o) == p.last = o.last /\ p.cur = o.cur
SameMeta(p, o) ==
    /\ p.exists = o.exists /\ p.spec = o.spec /\ p.gen = o.gen /\ p.req = o.req
    /\ p.deleting = o.deleting /\ p.finalizer = o.finalizer
SameSession(p, s) ==
    p.spec = s.spec /\ p.marked = s.marked /\ p.req = s.req

\* The reconcile ends.
Ends == pc' = "idle" /\ inst' = NewStack /\ sess' = Idle

\* The users change the Stack object only.
LEMMA UserEffect ==
    ASSUME TypeOK, (\E s \in Specs : EditSpec(s)) \/ RequestReconcile \/ DeleteStack
    PROVE  /\ UNCHANGED <<cache, pc, inst, ws, upd, ucache, names, infra, left>>
           /\ SameStatus(stack', stack) /\ stack.gen <= stack'.gen
           /\ stack'.finalizer = stack.finalizer /\ stack.exists
           /\ stack.deleting => stack'.deleting
           /\ \/ stack'.exists /\ nsGone' = nsGone
              \/ /\ ~stack.deleting /\ stack'.deleting /\ stack'.exists = stack.finalizer
                 /\ nsGone' => AllowNsTermination
           /\ SameSession(sess', sess) /\ sess'.after = sess.after /\ sess'.toFin = sess.toFin
           /\ sess'.type = sess.type /\ sess'.commit = sess.commit
<1> USE DEF cacheVars, queueVars, wsVars, updVars, worldVars
<1>t. stack \in Objects /\ sess \in Sessions
  BY DEF TypeOK
<1>1. UNCHANGED <<cache, pc, inst, ws, upd, ucache, names, infra, left>>
  BY DEF EditSpec, RequestReconcile, DeleteStack
<1>2. /\ SameStatus(stack', stack)
      /\ stack'.finalizer = stack.finalizer /\ stack.exists
      /\ stack.deleting => stack'.deleting
  BY <1>t DEF EditSpec, RequestReconcile, DeleteStack, Objects, SameStatus
<1>5. stack.gen <= stack'.gen
  <2>1. stack'.gen = stack.gen \/ stack'.gen = stack.gen + 1
    BY <1>t DEF EditSpec, RequestReconcile, DeleteStack, Objects
  <2> QED
    BY <1>t, <2>1 DEF Objects
<1>3. /\ SameSession(sess', sess) /\ sess'.after = sess.after /\ sess'.toFin = sess.toFin
      /\ sess'.type = sess.type /\ sess'.commit = sess.commit
  BY <1>t DEF EditSpec, RequestReconcile, DeleteStack, Outdate, Sessions, SameSession
<1>4. \/ stack'.exists /\ nsGone' = nsGone
      \/ /\ ~stack.deleting /\ stack'.deleting /\ stack'.exists = stack.finalizer
         /\ nsGone' => AllowNsTermination
  BY <1>t DEF EditSpec, RequestReconcile, DeleteStack, Objects
<1> QED
  BY <1>1, <1>2, <1>3, <1>4, <1>5

\* A restart lists everything afresh.
LEMMA CrashEffect ==
    ASSUME TypeOK, Crash
    PROVE  /\ UNCHANGED <<stackVars, ws, upd, names, worldVars>>
           /\ cache' = stack /\ Ends
           /\ \A u \in Updates : ucache'[u] = View(u)
           /\ left'.crash # left.crash
BY DEF Crash, Ends, TypeOK

\* A reconcile reads the record that the status has.
LEMMA StartEffect ==
    ASSUME TypeOK, ReadYourWrites, Start
    PROVE  /\ UNCHANGED <<stackVars, cache, ws, upd, ucache, names, worldVars, left>>
           /\ pc = "idle"
           /\ \/ UNCHANGED sessVars
              \/ /\ stack.exists
                 /\ pc' = IF stack.finalizer THEN "decide" ELSE "addFinalizer"
                 /\ SameStatus(inst', stack) /\ SameStatus(inst', cache)
                 /\ inst'.gen = cache.gen /\ inst'.req = cache.req
                 /\ sess'.marked = cache.deleting /\ sess'.req = cache.req /\ sess'.toFin = 0
<1>t. cache \in Objects /\ stack \in Objects /\ Idle \in Sessions
  BY IdleType DEF TypeOK
<1>1. /\ UNCHANGED <<stackVars, cache, ws, upd, ucache, names, worldVars, left>>
      /\ pc = "idle" /\ SeesOwnWrites
  BY DEF Start, cacheVars, wsVars, updVars
<1>2. CASE ~Reconcilable(cache)
  BY <1>1, <1>2 DEF Start
<1>3. CASE Reconcilable(cache)
  <2>1. cache.last = stack.last /\ cache.cur = stack.cur
    <3>1. WithStatus(cache, stack).last = stack.last /\ WithStatus(cache, stack).cur = stack.cur
      BY <1>t DEF WithStatus, Objects
    <3> QED
      BY <1>1, <3>1 DEF SeesOwnWrites
  <2>2. cache.exists = stack.exists /\ cache.finalizer = stack.finalizer /\ stack.exists
    BY <1>1, <1>3 DEF SeesOwnWrites, Reconcilable
  <2>3. /\ pc' = IF cache.finalizer THEN "decide" ELSE "addFinalizer"
        /\ inst' = [cache EXCEPT !.obsGen = cache.gen, !.obsReq = cache.req]
        /\ sess' = [Idle EXCEPT !.spec = cache.spec, !.marked = cache.deleting,
                                !.req = cache.req, !.rvOk = (cache = stack)]
    BY <1>3 DEF Start
  <2>4. inst'.last = cache.last /\ inst'.cur = cache.cur /\ inst'.gen = cache.gen /\ inst'.req = cache.req
    BY <1>t, <2>3 DEF Objects
  <2>5. sess'.marked = cache.deleting /\ sess'.req = cache.req /\ sess'.toFin = 0
    BY <1>t, <2>3 DEF Sessions, Idle
  <2> QED
    BY <1>1, <2>1, <2>2, <2>3, <2>4, <2>5 DEF SameStatus
<1> QED
  BY <1>2, <1>3

LEMMA AddFinalizerEffect ==
    ASSUME TypeOK, AddFinalizer
    PROVE  /\ UNCHANGED <<finalSpecs, cache, ws, upd, ucache, names, worldVars>>
           /\ pc = "addFinalizer"
           /\ \/ Ends /\ UNCHANGED stack
              \/ /\ pc' = "decide" /\ sess' = sess
                 /\ SameStatus(stack', stack) /\ stack'.gen = stack.gen
                 /\ stack'.deleting = stack.deleting /\ stack'.exists /\ stack'.finalizer
                 /\ SameStatus(inst', inst) /\ inst'.gen = inst.gen /\ inst'.req = inst.req
<1>t. stack \in Objects /\ inst \in Objects
  BY DEF TypeOK
<1>1. /\ UNCHANGED <<finalSpecs, cache, ws, upd, ucache, names, worldVars>>
      /\ pc = "addFinalizer"
  BY DEF AddFinalizer, cacheVars, wsVars, updVars
<1>2. CASE WriteFails
  BY <1>1, <1>2 DEF WriteFails, Retry, Finish, Ends
<1>3. CASE ~WriteFails
  <2>1. /\ stack.exists /\ stack' = [stack EXCEPT !.finalizer = TRUE]
        /\ pc' = "decide" /\ inst' = [inst EXCEPT !.finalizer = TRUE] /\ sess' = sess
    BY <1>3 DEF AddFinalizer, Goto
  <2> QED
    BY <1>t, <1>1, <2>1 DEF Objects, SameStatus
<1> QED
  BY <1>2, <1>3

\* The informer shows no result that did not happen.
CachedResult ==
    \A u \in Updates : ucache[u] \in {"succeeded", "failed"} => upd[u].phase = ucache[u]

\* What a decision makes of the local copy.
LEMMA AbsorbedRecord ==
    ASSUME TypeOK, CachedResult, pc = "decide", ~Outstanding(inst.cur.name)
    PROVE  LET d == Absorbed(inst)  u == inst.cur.name
           IN  /\ SameMeta(d, inst) /\ d.cur.name = 0
               /\ \/ u = 0 /\ d = inst
                  \/ /\ u \in Updates /\ Complete(u) /\ d.cur = NilCurrent
                     /\ d.last.name = u /\ d.last.gen = inst.cur.gen /\ d.last.req = inst.cur.req
                     /\ d.last.tried = inst.cur.commit /\ d.last.state = upd[u].phase
                     /\ d.last.failures = IF /\ upd[u].phase = "failed" /\ inst.last # NilLast
                                             /\ inst.last.gen = inst.cur.gen
                                             /\ inst.last.req = inst.cur.req
                                          THEN inst.last.failures + 1 ELSE 0
<1> DEFINE d == Absorbed(inst)  u == inst.cur.name
<1>t. inst \in Objects /\ u \in Names
  BY DEF TypeOK, Objects, CurrentUpdates
<1>1. CASE u = 0
  BY <1>1 DEF Absorbed, SameMeta
<1>2. CASE u # 0
  <2>1. u \in Updates
    BY <1>t, <1>2, BoundAssumption DEF Names, Updates
  <2>2. ucache[u] \in {"succeeded", "failed"} /\ upd[u].phase = ucache[u]
    BY <1>2, <2>1 DEF Outstanding, CachedResult, TypeOK
  <2>3. CASE ucache[u] = "failed"
    <3>1. d = MarkStackFailed(inst, u)
      BY <1>2, <2>3 DEF Absorbed
    <3>2. /\ d.cur = NilCurrent /\ SameMeta(d, inst) /\ d.last.name = u
          /\ d.last.gen = inst.cur.gen /\ d.last.req = inst.cur.req
          /\ d.last.tried = inst.cur.commit /\ d.last.state = "failed"
          /\ d.last.failures = IF /\ inst.last # NilLast
                                  /\ inst.last.gen = inst.cur.gen
                                  /\ inst.last.req = inst.cur.req
                               THEN inst.last.failures + 1 ELSE 0
      BY <1>t, <3>1 DEF MarkStackFailed, Objects, SameMeta
    <3> QED
      BY <2>1, <2>2, <2>3, <3>2 DEF NilCurrent, Complete
  <2>4. CASE ucache[u] = "succeeded"
    <3>1. d = MarkStackSucceeded(inst, u)
      BY <1>2, <2>4 DEF Absorbed
    <3>2. /\ d.cur = NilCurrent /\ SameMeta(d, inst) /\ d.last.name = u
          /\ d.last.gen = inst.cur.gen /\ d.last.req = inst.cur.req
          /\ d.last.tried = inst.cur.commit /\ d.last.state = "succeeded"
          /\ d.last.failures = 0
      BY <1>t, <3>1 DEF MarkStackSucceeded, Objects, SameMeta
    <3> QED
      BY <2>1, <2>2, <2>4, <3>2 DEF NilCurrent, Complete
  <2> QED
    BY <2>2, <2>3, <2>4
<1> QED
  BY <1>1, <1>2

\* A decision ends in a save of the absorbed copy, or in the reclaim before it.
Decides(d) ==
    /\ pc = "decide" /\ ~Outstanding(inst.cur.name)
    /\ SameStatus(inst', d) /\ inst'.gen = d.gen /\ inst'.req = d.req
    /\ SameSession(sess', sess) /\ sess'.toFin = inst.cur.name
    /\ \/ pc' = "save" /\ sess'.after \in {"stop", "later", "release"}
       \/ pc' = "save" /\ sess'.after = "finalize"
       \/ pc' = "reclaim" /\ sess'.after \in {"stop", "later"}
       \/ /\ pc' = "save" /\ sess'.after = "apply" /\ sess'.commit = Resolved(d)
          /\ ~IsSynced(d, Resolved(d), Old)

LEMMA DecideEffect ==
    ASSUME TypeOK, pc = "decide", ~Outstanding(inst.cur.name), NEW d \in Objects,
           NEW c \in Conditions, NEW r,
           NEW after \in {"stop", "later", "release", "finalize", "apply"},
           Decide(d, c, after, r),
           after = "apply" => r = Resolved(d) /\ ~IsSynced(d, Resolved(d), Old)
    PROVE  Decides(d)
<1>t. sess \in Sessions
  BY DEF TypeOK
<1>1. /\ pc' = "save" /\ inst' = [d EXCEPT !.cond = c]
      /\ sess' = [[sess EXCEPT !.toFin = inst.cur.name, !.commit = r] EXCEPT !.after = after]
  BY DEF Decide, Save, Goto
<1>2. SameStatus(inst', d) /\ inst'.gen = d.gen /\ inst'.req = d.req
  BY <1>1 DEF SameStatus, Objects
<1>3. /\ SameSession(sess', sess) /\ sess'.toFin = inst.cur.name
      /\ sess'.after = after /\ sess'.commit = r
  BY <1>t, <1>1 DEF SameSession, Sessions
<1> QED
  BY <1>1, <1>2, <1>3 DEF Decides

LEMMA DecisionEffect ==
    ASSUME TypeOK,
           \/ WaitForUpdate \/ ReadFails
           \/ ReleaseWithoutDestroy \/ StallOnSource \/ KeepSynced \/ AwaitPrereqs \/ BeginUpdate
    PROVE  /\ UNCHANGED <<stackVars, cache, ws, upd, ucache, names, worldVars>>
           /\ pc = "decide"
           /\ \/ Ends
              \/ /\ pc' = "save" /\ sess'.after = "stop" /\ sess'.toFin = sess.toFin
                 /\ SameStatus(inst', inst) /\ inst'.gen = inst.gen /\ SameSession(sess', sess)
              \/ Decides(Absorbed(inst))
<1> USE DEF stackVars, cacheVars, wsVars, updVars, worldVars
<1> DEFINE d == Absorbed(inst)
<1>t. inst \in Objects /\ sess \in Sessions /\ d \in Objects
  BY AbsorbedType DEF TypeOK
<1>c. /\ {"ready", "reconciling", "stalled"} \subseteq Conditions
      /\ StackResult(d.last) \in Conditions
  BY DEF Conditions, StackResult
<1>1. UNCHANGED <<stackVars, cache, ws, upd, ucache, names, worldVars>>
  BY DEF WaitForUpdate, ReadFails, ReleaseWithoutDestroy, StallOnSource, KeepSynced, AwaitPrereqs,
     BeginUpdate, Decide
<1>2. CASE WaitForUpdate
  <2>1. /\ pc = "decide" /\ pc' = "save" /\ inst' = [inst EXCEPT !.cond = "reconciling"]
        /\ sess' = [sess EXCEPT !.after = "stop"]
    BY <1>2 DEF WaitForUpdate, Save, Goto
  <2> QED
    BY <1>t, <1>1, <2>1 DEF SameStatus, SameSession, Objects, Sessions
<1>3. CASE ReadFails
  BY <1>1, <1>3 DEF ReadFails, Retry, Finish, Ends
<1>4. CASE ReleaseWithoutDestroy
  <2>1. Decidable /\ Decide(d, "ready", "release", NoCommit)
    BY <1>4 DEF ReleaseWithoutDestroy
  <2> QED
    BY <1>t, <1>c, <1>1, <2>1, DecideEffect DEF Decidable
<1>5. CASE StallOnSource
  <2>1. Decidable
    BY <1>5 DEF StallOnSource
  <2>2. Decide(d, "stalled", "later", NoCommit) \/ Decide(d, "stalled", "stop", NoCommit)
    BY <1>5 DEF StallOnSource
  <2> QED
    BY <1>t, <1>c, <1>1, <2>1, <2>2, DecideEffect DEF Decidable
<1>6. CASE KeepSynced
  <2> DEFINE again == IF Requeues(d) THEN "later" ELSE "stop"
  <2>1. Decidable
    BY <1>6 DEF KeepSynced, Resolvable
  <2>2. CASE Decide(d, StackResult(d.last), "finalize", NoCommit)
    BY <1>t, <1>c, <1>1, <2>1, <2>2, DecideEffect DEF Decidable
  <2>3. CASE Decide(d, StackResult(d.last), "later", NoCommit)
    BY <1>t, <1>c, <1>1, <2>1, <2>3, DecideEffect DEF Decidable
  <2>4. CASE Decide(d, StackResult(d.last), again, NoCommit)
    <3>1. again \in {"later", "stop"}
      OBVIOUS
    <3> QED
      BY <1>t, <1>c, <1>1, <2>1, <2>4, <3>1, DecideEffect DEF Decidable
  <2>5. CASE Goto("reclaim", [d EXCEPT !.cond = "ready"],
                  [sess EXCEPT !.toFin = inst.cur.name, !.after = again])
    <3>1. /\ pc' = "reclaim" /\ inst' = [d EXCEPT !.cond = "ready"]
          /\ sess' = [sess EXCEPT !.toFin = inst.cur.name, !.after = again]
      BY <2>5 DEF Goto
    <3>2. SameStatus(inst', d) /\ inst'.gen = d.gen /\ inst'.req = d.req
      BY <1>t, <3>1 DEF SameStatus, Objects
    <3>3. /\ SameSession(sess', sess) /\ sess'.toFin = inst.cur.name
          /\ sess'.after \in {"stop", "later"}
      BY <1>t, <3>1 DEF SameSession, Sessions
    <3> QED
      BY <1>1, <2>1, <3>1, <3>2, <3>3 DEF Decides, Decidable
  <2> QED
    BY <1>6, <2>2, <2>3, <2>4, <2>5 DEF KeepSynced
<1>7. CASE AwaitPrereqs
  <2>1. Decidable /\ Decide(d, "reconciling", "stop", NoCommit)
    BY <1>7 DEF AwaitPrereqs, Resolvable
  <2> QED
    BY <1>t, <1>c, <1>1, <2>1, DecideEffect DEF Decidable
<1>8. CASE BeginUpdate
  <2>1. /\ Decidable /\ Decide(d, "reconciling", "apply", Resolved(d))
        /\ ~IsSynced(d, Resolved(d), Old)
    BY <1>8 DEF BeginUpdate, Resolvable
  <2> QED
    BY <1>t, <1>c, <1>1, <2>1, DecideEffect DEF Decidable
<1> QED
  BY <1>2, <1>3, <1>4, <1>5, <1>6, <1>7, <1>8

\* Neither removing a finalizer nor deleting an Update changes what it did.
LEMMA KeptUpdates ==
    ASSUME TypeOK
    PROVE  /\ upd' = upd => \A u \in Updates : Kept(u)
           /\ \A v \in Names : upd' = Unfinalized(v) =>
                 \A u \in Updates : /\ Kept(u)
                                    /\ u # v => upd'[u] = upd[u]
                                    /\ u = v => upd'[u] = ReleasedUpdate(upd[u])
           /\ \A v \in Updates : upd[v].obj # "none" /\ upd' = MarkDeleted(v) =>
                 \A u \in Updates : /\ Kept(u)
                                    /\ u # v => upd'[u] = upd[u]
                                    /\ u = v => upd'[u] = DeletedUpdate(upd[u])
<1>0. \A u \in Updates : upd[u] \in UpdateObjects
  BY DEF TypeOK
<1>1. upd' = upd => \A u \in Updates : Kept(u)
  BY DEF Kept
<1>2. ASSUME NEW v \in Names, upd' = Unfinalized(v), NEW u \in Updates
      PROVE  /\ Kept(u)
             /\ u # v => upd'[u] = upd[u]
             /\ u = v => upd'[u] = ReleasedUpdate(upd[u])
  <2>1. (u # v => upd'[u] = upd[u]) /\ (u = v => upd'[u] = ReleasedUpdate(upd[u]))
    BY <1>2 DEF Unfinalized, TypeOK, Updates
  <2> QED
    BY <1>0, <2>1 DEF Kept, ReleasedUpdate, UpdateObjects
<1>3. ASSUME NEW v \in Updates, upd[v].obj # "none", upd' = MarkDeleted(v), NEW u \in Updates
      PROVE  /\ Kept(u)
             /\ u # v => upd'[u] = upd[u]
             /\ u = v => upd'[u] = DeletedUpdate(upd[u])
  <2>1. (u # v => upd'[u] = upd[u]) /\ (u = v => upd'[u] = DeletedUpdate(upd[u]))
    BY <1>3 DEF MarkDeleted, TypeOK
  <2> QED
    BY <1>0, <1>3, <2>1 DEF Kept, DeletedUpdate, UpdateObjects
<1> QED
  BY <1>1, <1>2, <1>3

\* A failing call is counted.
LEMMA FaultCounts ==
    ASSUME TypeOK, Fault
    PROVE  left'.api # left.api
BY DEF TypeOK, Fault

\* A status write replaces the record, and the reconcile goes on with what it wrote.
LEMMA SaveEffect ==
    ASSUME TypeOK, SaveStatus
    PROVE  /\ UNCHANGED <<finalSpecs, cache, ws, ucache, names, worldVars>>
           /\ pc = "save"
           /\ \/ /\ stack.exists /\ SameStatus(stack', inst) /\ SameMeta(stack', stack)
                 /\ upd' = upd \/ upd' = Unfinalized(sess.toFin)
                 /\ \/ Ends /\ sess.after \in {"stop", "later", "error"}
                    \/ /\ pc' = sess.after
                       /\ sess.after \in {"release", "finalize", "apply", "create"}
                       /\ inst' = stack' /\ SameSession(sess', sess)
                       /\ sess'.toFin = 0 /\ sess'.type = sess.type /\ sess'.commit = sess.commit
              \/ /\ UNCHANGED <<stack, upd>>
                 /\ ~stack.exists \/ left'.api # left.api
                 /\ Ends \/ (pc' = "finalize" /\ sess.after = "finalize" /\ UNCHANGED <<inst, sess>>)
<1>t. stack \in Objects /\ inst \in Objects /\ sess \in Sessions
  BY DEF TypeOK
<1>0. pc = "save" /\ UNCHANGED <<finalSpecs, cache, ws, ucache, names, worldVars>>
  BY DEF SaveStatus, cacheVars, wsVars
<1>1. ASSUME stack.exists, stack' = WithStatus(stack, inst),
             Proceed(stack', [sess EXCEPT !.rvOk = TRUE, !.toFin = 0])
      PROVE  /\ SameStatus(stack', inst) /\ SameMeta(stack', stack)
             /\ \/ Ends /\ sess.after \in {"stop", "later", "error"}
                \/ /\ pc' = sess.after
                   /\ sess.after \in {"release", "finalize", "apply", "create"}
                   /\ inst' = stack' /\ SameSession(sess', sess)
                   /\ sess'.toFin = 0 /\ sess'.type = sess.type /\ sess'.commit = sess.commit
  <2>1. SameStatus(stack', inst) /\ SameMeta(stack', stack)
    BY <1>t, <1>1 DEF WithStatus, Objects, SameStatus, SameMeta
  <2> DEFINE s == [sess EXCEPT !.rvOk = TRUE, !.toFin = 0]
  <2>2. /\ s.after = sess.after /\ SameSession(s, sess) /\ s.toFin = 0
        /\ s.type = sess.type /\ s.commit = sess.commit
    BY <1>t DEF Sessions, SameSession
  <2>3. sess.after \in {"stop", "later", "error", "release", "finalize", "apply", "create"}
    BY <1>t DEF Sessions
  <2>4. Proceed(stack', s)
    BY <1>1
  <2> HIDE DEF s
  <2> QED
    BY <2>1, <2>2, <2>3, <2>4 DEF Proceed, Stop, Later, Retry, Finish, Goto, Ends
<1>2. CASE /\ stack.exists /\ stack' = WithStatus(stack, inst)
           /\ Proceed(stack', [sess EXCEPT !.rvOk = TRUE, !.toFin = 0])
           /\ upd' = upd \/ upd' = Unfinalized(sess.toFin)
  BY <1>0, <1>1, <1>2
<1>3. CASE /\ \/ ~stack.exists /\ UNCHANGED left
              \/ Fault
           /\ IF sess.after = "finalize" THEN Goto("finalize", inst, sess) ELSE Retry
           /\ UNCHANGED <<stack, upd>>
  BY <1>0, <1>3, FaultCounts DEF Goto, Retry, Finish, Ends
<1> QED
  BY <1>2, <1>3 DEF SaveStatus

LEMMA ReclaimEffect ==
    ASSUME TypeOK, ReclaimWorkspace
    PROVE  /\ UNCHANGED <<stackVars, cache, ucache, names, worldVars>>
           /\ pc = "reclaim"
           /\ ws'.content = ws.content /\ (ws'.state = ws.state \/ ws'.state = "deleting")
           /\ upd' = upd \/ upd' = Unfinalized(sess.toFin)
           /\ \/ /\ pc' = "save" /\ inst' = inst /\ sess'.after = sess.after /\ sess'.toFin = 0
                 /\ SameSession(sess', sess)
              \/ Ends /\ left'.api # left.api
<1>t. sess \in Sessions
  BY DEF TypeOK
<1>1. pc = "reclaim" /\ UNCHANGED <<stackVars, cache, ucache, names, worldVars>>
  BY DEF ReclaimWorkspace, cacheVars
<1>2. ws'.content = ws.content /\ (ws'.state = ws.state \/ ws'.state = "deleting")
  BY DEF ReclaimWorkspace, TypeOK
<1>3. upd' = upd \/ upd' = Unfinalized(sess.toFin)
  BY DEF ReclaimWorkspace
<1>4. CASE Save(inst, [sess EXCEPT !.toFin = 0], sess.after)
  <2>1. /\ pc' = "save" /\ inst' = inst
        /\ sess' = [[sess EXCEPT !.toFin = 0] EXCEPT !.after = sess.after]
    BY <1>4 DEF Save, Goto
  <2>2. sess'.after = sess.after /\ sess'.toFin = 0 /\ SameSession(sess', sess)
    BY <1>t, <2>1 DEF Sessions, SameSession
  <2> QED
    BY <1>1, <1>2, <1>3, <2>1, <2>2
<1>5. CASE Fault /\ Retry
  BY <1>1, <1>2, <1>3, <1>5, FaultCounts DEF Retry, Finish, Ends
<1> QED
  BY <1>4, <1>5 DEF ReclaimWorkspace

\* The workspace is ready and the next Update gets its name.
NamesUpdate ==
    /\ pc' = "save" /\ sess'.after = "create"
    /\ names' = names + 1 /\ names' \in Updates
    /\ ws'.content = [spec |-> sess.spec, commit |-> sess.commit]
    /\ inst'.last = inst.last /\ inst'.gen = inst.gen
    /\ inst'.cur = [gen |-> inst.gen, req |-> sess.req, name |-> names + 1, commit |-> sess.commit]
    /\ SameSession(sess', sess) /\ sess'.toFin = sess.toFin /\ sess'.type = NextType

LEMMA ApplyEffect ==
    ASSUME TypeOK, ApplyWorkspace
    PROVE  /\ UNCHANGED <<stackVars, cache, upd, ucache, worldVars>>
           /\ pc = "apply"
           /\ ws'.state = "stalled" => ws.state = "stalled"
           /\ \/ NamesUpdate
              \/ /\ UNCHANGED names
                 /\ \/ Ends
                    \/ /\ pc' = "save" /\ sess'.after \in {"stop", "later"}
                       /\ sess'.toFin = sess.toFin
                       /\ SameStatus(inst', inst) /\ inst'.gen = inst.gen
                       /\ SameSession(sess', sess)
                    \/ /\ pc' = "finalize" /\ UNCHANGED <<inst, sess>>
                       /\ ws.state = "stalled" /\ sess.marked /\ inst.last = NilLast
<1>t. inst \in Objects /\ sess \in Sessions /\ names \in Nat /\ MaxUpdates \in Nat
  BY BoundAssumption DEF TypeOK
<1>1. pc = "apply" /\ UNCHANGED <<stackVars, cache, upd, ucache, worldVars>>
  BY DEF ApplyWorkspace, cacheVars
<1>2. /\ Applied.state = "stalled" => ws.state = "stalled"
      /\ Applied.content = [spec |-> sess.spec, commit |-> sess.commit]
  BY DEF Applied
<1>3. ws'.state = "stalled" => ws.state = "stalled"
  BY <1>2 DEF ApplyWorkspace
<1>4. ASSUME NEW a \in {"stop", "later"}, UNCHANGED names, Save([inst EXCEPT !.cond = "stalled"], sess, a)
      PROVE  /\ pc' = "save" /\ sess'.after \in {"stop", "later"} /\ sess'.toFin = sess.toFin
             /\ SameStatus(inst', inst) /\ inst'.gen = inst.gen
             /\ SameSession(sess', sess)
  <2>1. pc' = "save" /\ inst' = [inst EXCEPT !.cond = "stalled"] /\ sess' = [sess EXCEPT !.after = a]
    BY <1>4 DEF Save, Goto
  <2> QED
    BY <1>t, <2>1 DEF Objects, Sessions, SameStatus, SameSession
<1>5. CASE /\ ws' = Applied /\ names < MaxUpdates /\ names' = names + 1
           /\ Save([inst EXCEPT !.cond = "reconciling",
                                !.cur = [gen |-> inst.gen, req |-> sess.req,
                                         name |-> names + 1, commit |-> sess.commit]],
                   [sess EXCEPT !.type = NextType], "create")
  <2>1. /\ pc' = "save"
        /\ inst' = [inst EXCEPT !.cond = "reconciling",
                                !.cur = [gen |-> inst.gen, req |-> sess.req,
                                         name |-> names + 1, commit |-> sess.commit]]
        /\ sess' = [[sess EXCEPT !.type = NextType] EXCEPT !.after = "create"]
    BY <1>5 DEF Save, Goto
  <2>2. /\ inst'.last = inst.last /\ inst'.gen = inst.gen
        /\ inst'.cur = [gen |-> inst.gen, req |-> sess.req, name |-> names + 1, commit |-> sess.commit]
    BY <1>t, <2>1 DEF Objects
  <2>3. /\ sess'.after = "create" /\ SameSession(sess', sess) /\ sess'.toFin = sess.toFin
        /\ sess'.type = NextType
    BY <1>t, <2>1 DEF Sessions, SameSession
  <2>4. names' \in Updates
    BY <1>t, <1>5 DEF Updates
  <2>5. NamesUpdate
    BY <1>2, <1>5, <2>1, <2>2, <2>3, <2>4 DEF NamesUpdate
  <2> QED
    BY <1>1, <1>3, <2>5
<1>6. CASE /\ Applied.state = "stalled" /\ UNCHANGED names
           /\ IF sess.marked /\ inst.last = NilLast
              THEN Goto("finalize", inst, sess)
              ELSE Save([inst EXCEPT !.cond = "stalled"], sess, "stop")
  <2>1. CASE sess.marked /\ inst.last = NilLast
    BY <1>1, <1>2, <1>3, <1>6, <2>1 DEF Goto
  <2>2. CASE ~(sess.marked /\ inst.last = NilLast)
    BY <1>1, <1>3, <1>4, <1>6, <2>2
  <2> QED
    BY <2>1, <2>2
<1>7. CASE UNCHANGED names /\ (Stop \/ Retry)
  BY <1>1, <1>3, <1>7 DEF Stop, Retry, Finish, Ends
<1>8. CASE UNCHANGED names /\ StallInTerminatingNamespace
  BY <1>1, <1>3, <1>4, <1>8 DEF StallInTerminatingNamespace
<1> QED
  BY <1>5, <1>6, <1>7, <1>8 DEF ApplyWorkspace

LEMMA CreateEffect ==
    ASSUME TypeOK, CreateUpdate
    PROVE  /\ UNCHANGED <<stackVars, cache, ws, ucache, names, worldVars>>
           /\ pc = "create"
           /\ \/ /\ pc' = "addUpdateFinalizer" /\ UNCHANGED <<inst, sess>> /\ ~nsGone
                 /\ upd' = [upd EXCEPT ![inst.cur.name] =
                                [NoUpdate EXCEPT !.obj = "live", !.type = sess.type,
                                                 !.gen = inst.cur.gen, !.req = sess.req]]
              \/ /\ pc' = "save" /\ sess'.after = "error" /\ sess'.toFin = sess.toFin
                 /\ SameSession(sess', sess)
                 /\ inst'.last = inst.last /\ inst'.cur = NilCurrent /\ inst'.gen = inst.gen
                 /\ upd' = upd /\ (nsGone \/ left'.api # left.api)
<1>t. inst \in Objects /\ sess \in Sessions
  BY DEF TypeOK
<1>1. pc = "create" /\ UNCHANGED <<stackVars, cache, ws, ucache, names, worldVars>>
  BY DEF CreateUpdate, cacheVars, wsVars
<1>2. CASE Goto("addUpdateFinalizer", inst, sess)
  BY <1>1, <1>2 DEF CreateUpdate, Goto, Save
<1>3. CASE Save([inst EXCEPT !.cur = NilCurrent], sess, "error")
  <2>1. /\ pc' = "save" /\ inst' = [inst EXCEPT !.cur = NilCurrent]
        /\ sess' = [sess EXCEPT !.after = "error"]
    BY <1>3 DEF Save, Goto
  <2>2. upd' = upd /\ (nsGone \/ left'.api # left.api)
    BY <2>1, FaultCounts DEF CreateUpdate, Goto
  <2> QED
    BY <1>t, <1>1, <2>1, <2>2 DEF Objects, Sessions, SameSession
<1> QED
  BY <1>2, <1>3 DEF CreateUpdate

LEMMA AddUpdateFinalizerEffect ==
    ASSUME TypeOK, AddUpdateFinalizer
    PROVE  /\ UNCHANGED <<stackVars, cache, ws, ucache, names, worldVars>>
           /\ pc = "addUpdateFinalizer"
           /\ LET u == inst.cur.name
              IN  \/ Ends /\ upd[u].obj = "live" /\ upd' = Held(u)
                  \/ /\ pc' = "save" /\ sess'.after = "error" /\ sess'.toFin = sess.toFin
                     /\ SameSession(sess', sess)
                     /\ inst'.last = inst.last /\ inst'.cur = NilCurrent /\ inst'.gen = inst.gen
                     /\ upd' = upd \/ upd' = MarkDeleted(u)
                     /\ upd[u].obj # "live" \/ left'.api # left.api
<1>t. inst \in Objects /\ sess \in Sessions
  BY DEF TypeOK
<1>1. pc = "addUpdateFinalizer" /\ UNCHANGED <<stackVars, cache, ws, ucache, names, worldVars>>
  BY DEF AddUpdateFinalizer, cacheVars, wsVars
<1>2. CASE upd[inst.cur.name].obj = "live" /\ upd' = Held(inst.cur.name) /\ Stop
  BY <1>1, <1>2 DEF Stop, Finish, Ends
<1>3. CASE /\ (upd[inst.cur.name].obj # "live" /\ UNCHANGED left) \/ Fault
           /\ upd' \in {MarkDeleted(inst.cur.name), upd}
           /\ Save([inst EXCEPT !.cur = NilCurrent], sess, "error")
  <2>1. /\ pc' = "save" /\ inst' = [inst EXCEPT !.cur = NilCurrent]
        /\ sess' = [sess EXCEPT !.after = "error"]
    BY <1>3 DEF Save, Goto
  <2> QED
    BY <1>t, <1>1, <1>3, <2>1, FaultCounts DEF Objects, Sessions, SameSession
<1> QED
  BY <1>2, <1>3 DEF AddUpdateFinalizer

LEMMA RemoveFinalizerEffect ==
    ASSUME TypeOK, RemoveFinalizer
    PROVE  /\ UNCHANGED <<finalSpecs, cache, ws, upd, ucache, names, worldVars>>
           /\ pc \in {"release", "finalize"} /\ Ends
           /\ \/ UNCHANGED stack
              \/ /\ SameStatus(stack', stack) /\ stack'.gen = stack.gen
                 /\ stack'.deleting = stack.deleting /\ ~stack'.exists
<1>t. stack \in Objects
  BY DEF TypeOK
<1>1. /\ UNCHANGED <<finalSpecs, cache, ws, upd, ucache, names, worldVars>>
      /\ pc \in {"release", "finalize"}
  BY DEF RemoveFinalizer, cacheVars, wsVars, updVars
<1>2. CASE WriteFails
  BY <1>1, <1>2 DEF WriteFails, Retry, Finish, Ends
<1>3. CASE stack' = [stack EXCEPT !.finalizer = FALSE, !.exists = FALSE] /\ Stop
  BY <1>t, <1>1, <1>3 DEF Stop, Finish, Ends, Objects, SameStatus
<1> QED
  BY <1>2, <1>3 DEF RemoveFinalizer

\* Once workspaces no longer stall, they never do again.
LEMMA Spending ==
    ASSUME TypeOK, [Next]_vars, left.ws = 0
    PROVE  left'.ws = 0
<1>t. left \in [api : Nat, crash : Nat, ws : Nat, run : Nat, src : Nat, del : Nat]
  BY DEF TypeOK
<1>1. CASE left' = left
  BY <1>1
<1>2. CASE left.api > 0 /\ left' = [left EXCEPT !.api = @ - 1]
  BY <1>t, <1>2
<1>3. CASE left.crash > 0 /\ left' = [left EXCEPT !.crash = @ - 1]
  BY <1>t, <1>3
<1>4. CASE left.ws > 0 /\ left' = [left EXCEPT !.ws = @ - 1]
  BY <1>t, <1>4
<1>5. CASE left.del > 0 /\ left' = [left EXCEPT !.del = @ - 1]
  BY <1>t, <1>5
<1>6. CASE left' = [left EXCEPT !.run = @ - 1] \/ left' = [left EXCEPT !.src = @ - 1]
  BY <1>t, <1>6
<1>7. \/ left' = left
      \/ left.api > 0 /\ left' = [left EXCEPT !.api = @ - 1]
      \/ left.crash > 0 /\ left' = [left EXCEPT !.crash = @ - 1]
      \/ left.ws > 0 /\ left' = [left EXCEPT !.ws = @ - 1]
      \/ left.del > 0 /\ left' = [left EXCEPT !.del = @ - 1]
      \/ left' = [left EXCEPT !.run = @ - 1] \/ left' = [left EXCEPT !.src = @ - 1]
  <2>1. CASE User
    BY <2>1 DEF User, EditSpec, RequestReconcile, DeleteStack, DeleteWorkspace, DeleteUpdate
  <2>2. CASE World
    BY <2>2 DEF World, SourceOutage, NewRevision, PrereqReady, TimePasses, WorkspaceReady,
       WorkspaceStalls, WorkspaceUnready, WorkspaceGone, UpdateStarts, UpdateCanceled,
       UpdateExpires, UpdateFinishes
  <2>3. CASE Delivery \/ Crash
    BY <2>3 DEF Delivery, SyncCache, TimerFires, WorkspaceEvent, SyncUpdate, Crash
  <2>4. CASE Reconcile
    BY <2>4 DEF Reconcile, Start, AddFinalizer, WriteFails, WaitForUpdate, ReadFails,
       ReleaseWithoutDestroy, StallOnSource, KeepSynced, AwaitPrereqs, BeginUpdate, Decide,
       SaveStatus, ReclaimWorkspace, ApplyWorkspace, CreateUpdate, AddUpdateFinalizer,
       RemoveFinalizer, Fault
  <2>5. CASE UNCHANGED vars
    BY <2>5 DEF vars
  <2> QED
    BY <2>1, <2>2, <2>3, <2>4, <2>5 DEF Next
<1> QED
  BY <1>1, <1>2, <1>3, <1>4, <1>5, <1>6, <1>7

-----------------------------------------------------------------------------
(* The local copy and the status.                                          *)

\* The local copy holds the result of the Update that the status still names.
Absorbs ==
    /\ stack.cur.name \in Updates /\ Complete(stack.cur.name)
    /\ inst.last.name = stack.cur.name
    /\ inst.cur = NilCurrent

\* The Update could not be created or held, and is about to be forgotten.
Forgetting == pc = "save" /\ sess.after = "error"

\* The status is written by this reconcile only, so that the local copy differs from
\* it by a result it has absorbed, or by the Update it has named or given up.
Tracks ==
    /\ pc \in {"addFinalizer", "decide", "apply", "create", "addUpdateFinalizer"} =>
           SameStatus(inst, stack)
    /\ pc = "reclaim" \/ (pc = "save" /\ sess.after \notin {"create", "error"}) =>
           SameStatus(inst, stack) \/ Absorbs
    /\ pc = "reclaim" \/ Heading("apply") => inst.cur.name = 0
    /\ Heading("create") \/ pc = "addUpdateFinalizer" =>
           inst.cur.name = names /\ names \in Updates
    /\ pc = "save" /\ sess.after = "create" => inst.last = stack.last /\ stack.cur.name = 0
    /\ Forgetting => /\ inst.last = stack.last /\ inst.cur = NilCurrent
                     /\ stack.cur.name = names /\ names \in Updates

\* Only an Update that the local copy no longer names is to lose its finalizer.
Finalizes ==
    \/ pc \in {"idle", "addFinalizer", "decide", "apply", "create", "addUpdateFinalizer"}
    \/ inst.cur.name # 0
    => sess.toFin = 0

\* A reconcile that has seen the finalizer works on a Stack that is there.
Present ==
    /\ pc \notin {"idle", "addFinalizer"} => stack.exists /\ stack.finalizer
    /\ nsGone => stack.deleting

TrackInv == IInv /\ Tracks /\ Finalizes /\ Present /\ CachedResult

LEMMA TrackInit == Init => TrackInv
<1> SUFFICES ASSUME Init PROVE TrackInv
  OBVIOUS
<1>1. IInv
  BY InitInv
<1>2. Tracks /\ Finalizes /\ Present /\ CachedResult
  BY DEF Init, Tracks, Finalizes, Present, CachedResult, Heading, Forgetting, Idle
<1> QED
  BY <1>1, <1>2 DEF TrackInv

LEMMA CompleteView ==
    ASSUME NEW u \in Updates, View(u) \in {"succeeded", "failed"}
    PROVE  upd[u].phase = View(u)
BY DEF View

\* Nothing is claimed of a reconcile that has ended.
LEMMA TrackEnd ==
    ASSUME Ends, CachedResult', (nsGone => stack.deleting)', IInv'
    PROVE  TrackInv'
BY DEF Ends, TrackInv, Tracks, Finalizes, Present, Heading, Forgetting, Idle

LEMMA TrackCalm ==
    ASSUME TrackInv, Calm, IInv'
    PROVE  TrackInv'
<1> USE DEF stackVars, sessVars
<1>1. UNCHANGED <<stack, pc, inst, sess, names, nsGone>>
  BY DEF Calm
<1>2. \A u \in Updates : Complete(u) => upd'[u].phase = upd[u].phase
  BY DEF Calm, Complete, Deleted, Kept, Moves, Waiting
<1>3. CachedResult'
  BY <1>2, CompleteView DEF Calm, TrackInv, CachedResult, Complete
<1>4. Absorbs => Absorbs'
  BY <1>1, <1>2 DEF Absorbs, Complete
<1>5. Tracks' /\ Finalizes' /\ Present'
  BY <1>1, <1>4 DEF TrackInv, Tracks, Finalizes, Present, Heading, Forgetting
<1> QED
  BY <1>3, <1>5 DEF TrackInv

LEMMA TrackUser ==
    ASSUME TrackInv, (\E s \in Specs : EditSpec(s)) \/ RequestReconcile \/ DeleteStack, IInv'
    PROVE  TrackInv'
<1>1. /\ UNCHANGED <<pc, inst, upd, ucache, names>> /\ SameStatus(stack', stack)
      /\ sess'.after = sess.after /\ sess'.toFin = sess.toFin
      /\ stack'.finalizer = stack.finalizer /\ (stack'.exists \/ stack'.exists = stack.finalizer)
      /\ (nsGone' => nsGone \/ stack'.deleting) /\ (stack.deleting => stack'.deleting)
  BY UserEffect DEF TrackInv, IInv
<1>2. CachedResult'
  BY <1>1 DEF TrackInv, CachedResult
<1>3. Absorbs => Absorbs'
  BY <1>1 DEF Absorbs, Complete, SameStatus
<1>4. Tracks' /\ Finalizes'
  BY <1>1, <1>3 DEF TrackInv, Tracks, Finalizes, Heading, Forgetting, SameStatus
<1>5. Present'
  BY <1>1 DEF TrackInv, Present
<1> QED
  BY <1>2, <1>4, <1>5 DEF TrackInv

LEMMA TrackDecision ==
    ASSUME TrackInv, IInv',
           \/ WaitForUpdate \/ ReadFails
           \/ ReleaseWithoutDestroy \/ StallOnSource \/ KeepSynced \/ AwaitPrereqs \/ BeginUpdate
    PROVE  TrackInv'
<1> USE DEF stackVars, worldVars
<1>t. TypeOK /\ CachedResult
  BY DEF TrackInv, IInv
<1>1. UNCHANGED <<stack, upd, ucache, names, nsGone>> /\ pc = "decide"
  BY <1>t, DecisionEffect
<1>2. CachedResult'
  BY <1>1 DEF TrackInv, CachedResult
<1>3. CASE Ends
  BY <1>1, <1>2, <1>3, TrackEnd DEF TrackInv, Present
<1>4. SameStatus(inst, stack) /\ sess.toFin = 0 /\ Present
  BY <1>1 DEF TrackInv, Tracks, Finalizes
<1>5. CASE /\ pc' = "save" /\ sess'.after = "stop" /\ sess'.toFin = sess.toFin
           /\ SameStatus(inst', inst)
  <2>1. Tracks' /\ Finalizes' /\ Present'
    BY <1>1, <1>4, <1>5 DEF Tracks, Finalizes, Present, Heading, Forgetting, SameStatus
  <2> QED
    BY <1>2, <2>1 DEF TrackInv
<1>6. CASE Decides(Absorbed(inst))
  <2>1. /\ pc' = "reclaim" \/ (pc' = "save" /\ sess'.after \notin {"create", "error"})
        /\ SameStatus(inst', Absorbed(inst))
    BY <1>6 DEF Decides
  <2>2. inst'.cur.name = 0 /\ (SameStatus(inst', stack') \/ Absorbs')
    BY <1>t, <1>1, <1>4, <1>6, <2>1, AbsorbedRecord DEF Decides, SameStatus, Absorbs, Complete
  <2>3. Tracks' /\ Finalizes' /\ Present'
    BY <1>1, <1>4, <2>1, <2>2 DEF Tracks, Finalizes, Present, Heading, Forgetting
  <2> QED
    BY <1>2, <2>3 DEF TrackInv
<1> QED
  BY <1>t, <1>3, <1>5, <1>6, DecisionEffect

LEMMA TrackSave ==
    ASSUME TrackInv, SaveStatus, IInv'
    PROVE  TrackInv'
<1> USE DEF worldVars
<1>t. TypeOK /\ sess.toFin \in Names
  BY DEF TrackInv, IInv, TypeOK, Sessions
<1>1. pc = "save" /\ UNCHANGED <<ucache, names, nsGone>>
  BY <1>t, SaveEffect
<1>2. upd' = upd \/ upd' = Unfinalized(sess.toFin)
  BY <1>t, SaveEffect
<1>3. \A u \in Updates : Kept(u)
  BY <1>t, <1>2, KeptUpdates
<1>4. CachedResult'
  BY <1>1, <1>3 DEF TrackInv, CachedResult, Kept
<1>5. stack'.deleting = stack.deleting /\ Present /\ stack.exists /\ stack.finalizer
  BY <1>t, <1>1, SaveEffect DEF TrackInv, Present, SameMeta
<1>6. CASE Ends
  BY <1>1, <1>4, <1>5, <1>6, TrackEnd DEF TrackInv, Present
<1>7. CASE pc' = "finalize" /\ UNCHANGED <<inst, sess, stack>>
  BY <1>1, <1>4, <1>5, <1>7 DEF TrackInv, Tracks, Finalizes, Present, Heading, Forgetting
<1>8. CASE /\ SameStatus(stack', inst) /\ SameMeta(stack', stack)
           /\ pc' = sess.after /\ sess.after \in {"release", "finalize", "apply", "create"}
           /\ inst' = stack' /\ sess'.toFin = 0
  <2>1. sess.after = "create" => inst.cur.name = names /\ names \in Updates
    BY <1>1 DEF TrackInv, Tracks, Heading
  <2>2. sess.after = "apply" => inst.cur.name = 0
    BY <1>1 DEF TrackInv, Tracks, Heading
  <2>3. Tracks'
    BY <1>1, <1>8, <2>1, <2>2 DEF Tracks, Heading, Forgetting, SameStatus
  <2>4. Finalizes' /\ Present'
    BY <1>1, <1>5, <1>8 DEF Finalizes, Present, SameMeta
  <2> QED
    BY <1>4, <2>3, <2>4 DEF TrackInv
<1> QED
  BY <1>t, <1>6, <1>7, <1>8, SaveEffect

LEMMA TrackApply ==
    ASSUME TrackInv, ApplyWorkspace, IInv'
    PROVE  TrackInv'
<1> USE DEF stackVars, worldVars
<1>t. TypeOK
  BY DEF TrackInv, IInv
<1>1. UNCHANGED <<stack, upd, ucache, nsGone>> /\ pc = "apply"
  BY <1>t, ApplyEffect
<1>2. CachedResult'
  BY <1>1 DEF TrackInv, CachedResult
<1>3. SameStatus(inst, stack) /\ inst.cur.name = 0 /\ sess.toFin = 0 /\ Present
  BY <1>1 DEF TrackInv, Tracks, Finalizes, Heading
<1>4. CASE Ends
  BY <1>1, <1>2, <1>4, TrackEnd DEF TrackInv, Present
<1>5. CASE NamesUpdate
  <2>1. inst'.cur.name = names' /\ names' \in Updates /\ inst'.last = inst.last /\ sess'.toFin = 0
    BY <1>3, <1>5 DEF NamesUpdate
  <2>2. Tracks' /\ Finalizes' /\ Present'
    BY <1>1, <1>3, <1>5, <2>1 DEF NamesUpdate, Tracks, Finalizes, Present, Heading, Forgetting,
       SameStatus
  <2> QED
    BY <1>2, <2>2 DEF TrackInv
<1>6. CASE /\ UNCHANGED names /\ pc' = "save" /\ sess'.after \in {"stop", "later"}
           /\ sess'.toFin = sess.toFin /\ SameStatus(inst', inst)
  <2>1. Tracks' /\ Finalizes' /\ Present'
    BY <1>1, <1>3, <1>6 DEF Tracks, Finalizes, Present, Heading, Forgetting, SameStatus
  <2> QED
    BY <1>2, <2>1 DEF TrackInv
<1>7. CASE UNCHANGED names /\ pc' = "finalize" /\ UNCHANGED <<inst, sess>>
  <2>1. Tracks' /\ Finalizes' /\ Present'
    BY <1>1, <1>3, <1>7 DEF Tracks, Finalizes, Present, Heading, Forgetting
  <2> QED
    BY <1>2, <2>1 DEF TrackInv
<1> QED
  BY <1>t, <1>4, <1>5, <1>6, <1>7, ApplyEffect

\* The Update to be created has not been there before, so that no result of it
\* has been seen.
LEMMA TrackCreate ==
    ASSUME TrackInv, CreateUpdate, IInv'
    PROVE  TrackInv'
<1> USE DEF stackVars, worldVars
<1>t. TypeOK
  BY DEF TrackInv, IInv
<1>1. UNCHANGED <<stack, ucache, names, nsGone>> /\ pc = "create"
  BY <1>t, CreateEffect
<1>2. /\ SameStatus(inst, stack) /\ inst.cur.name = names /\ names \in Updates
      /\ sess.toFin = 0 /\ Present /\ upd[names].phase = "pending"
  BY <1>1 DEF TrackInv, Tracks, Finalizes, Heading, IInv, FreshNames
<1>3. ASSUME pc' = "addUpdateFinalizer", UNCHANGED <<inst, sess>>,
             upd' = [upd EXCEPT ![inst.cur.name] =
                         [NoUpdate EXCEPT !.obj = "live", !.type = sess.type,
                                          !.gen = inst.cur.gen, !.req = sess.req]]
      PROVE  TrackInv'
  <2>1. \A u \in Updates \ {names} : upd'[u] = upd[u]
    BY <1>2, <1>3 DEF TypeOK
  <2>2. CachedResult'
    BY <1>1, <1>2, <2>1 DEF TrackInv, CachedResult
  <2>3. Tracks' /\ Finalizes' /\ Present'
    BY <1>1, <1>2, <1>3 DEF Tracks, Finalizes, Present, Heading, Forgetting
  <2> QED
    BY <2>2, <2>3 DEF TrackInv
<1>4. ASSUME pc' = "save", sess'.after = "error", sess'.toFin = sess.toFin,
             inst'.last = inst.last, inst'.cur = NilCurrent, upd' = upd
      PROVE  TrackInv'
  <2>1. CachedResult'
    BY <1>1, <1>4 DEF TrackInv, CachedResult
  <2>2. Tracks' /\ Finalizes' /\ Present'
    BY <1>1, <1>2, <1>4 DEF Tracks, Finalizes, Present, Heading, Forgetting, SameStatus
  <2> QED
    BY <2>1, <2>2 DEF TrackInv
<1> QED
  BY <1>t, <1>3, <1>4, CreateEffect

LEMMA TrackAddUpdateFinalizer ==
    ASSUME TrackInv, AddUpdateFinalizer, IInv'
    PROVE  TrackInv'
<1> USE DEF stackVars, worldVars
<1>t. TypeOK
  BY DEF TrackInv, IInv
<1>1. UNCHANGED <<stack, ucache, names, nsGone>> /\ pc = "addUpdateFinalizer"
  BY <1>t, AddUpdateFinalizerEffect
<1>2. /\ SameStatus(inst, stack) /\ inst.cur.name = names /\ names \in Updates
      /\ sess.toFin = 0 /\ Present /\ upd[names].obj # "none"
  BY <1>1 DEF TrackInv, Tracks, Finalizes, Heading, IInv, FreshNames
<1>3. \A u \in Updates : upd'[u].phase = upd[u].phase
  <2>1. CASE upd' = Held(names)
    BY <1>2, <2>1 DEF Held, TypeOK, TrackInv, IInv, UpdateObjects
  <2>2. CASE upd' = upd \/ upd' = MarkDeleted(names)
    BY <1>t, <1>2, <2>2, KeptUpdates DEF Kept
  <2> QED
    BY <1>t, <1>2, <2>1, <2>2, AddUpdateFinalizerEffect
<1>4. CachedResult'
  BY <1>1, <1>3 DEF TrackInv, CachedResult
<1>5. CASE Ends
  BY <1>1, <1>4, <1>5, TrackEnd DEF TrackInv, Present
<1>6. CASE /\ pc' = "save" /\ sess'.after = "error" /\ sess'.toFin = sess.toFin
           /\ inst'.last = inst.last /\ inst'.cur = NilCurrent
  <2>1. Tracks' /\ Finalizes' /\ Present'
    BY <1>1, <1>2, <1>6 DEF Tracks, Finalizes, Present, Heading, Forgetting, SameStatus
  <2> QED
    BY <1>4, <2>1 DEF TrackInv
<1> QED
  BY <1>t, <1>5, <1>6, AddUpdateFinalizerEffect

LEMMA TrackStep ==
    ASSUME ReadYourWrites, TrackInv, [Next]_vars
    PROVE  TrackInv'
<1> USE DEF stackVars, worldVars
<1>t. TypeOK
  BY DEF TrackInv, IInv
<1>i. IInv'
  BY StepInv DEF TrackInv
<1>1. CASE \/ World \/ Delivery \/ DeleteWorkspace \/ (\E u \in Updates : DeleteUpdate(u))
           \/ UNCHANGED vars
  BY <1>t, <1>i, <1>1, CalmSteps, TrackCalm
<1>2. CASE (\E s \in Specs : EditSpec(s)) \/ RequestReconcile \/ DeleteStack
  BY <1>i, <1>2, TrackUser
<1>3. CASE Crash
  <2>1. CachedResult'
    BY <1>t, <1>3, CrashEffect, CompleteView DEF CachedResult
  <2> QED
    BY <1>t, <1>i, <1>3, <2>1, CrashEffect, TrackEnd DEF TrackInv, Present
<1>4. CASE Start
  <2>1. UNCHANGED <<stack, upd, ucache, names, nsGone>> /\ pc = "idle"
    BY <1>t, <1>4, StartEffect
  <2>2. CachedResult'
    BY <2>1 DEF TrackInv, CachedResult
  <2>3. CASE UNCHANGED sessVars
    BY <1>i, <2>1, <2>2, <2>3 DEF sessVars, TrackInv, Tracks, Finalizes, Present, Heading, Forgetting
  <2>4. CASE /\ stack.exists
             /\ pc' = IF stack.finalizer THEN "decide" ELSE "addFinalizer"
             /\ SameStatus(inst', stack) /\ sess'.toFin = 0
    <3>1. pc' \in {"addFinalizer", "decide"} /\ (pc' = "decide" => stack.exists /\ stack.finalizer)
      BY <2>4
    <3>2. Tracks' /\ Finalizes' /\ Present'
      BY <2>1, <2>4, <3>1 DEF TrackInv, Tracks, Finalizes, Present, Heading, Forgetting
    <3> QED
      BY <1>i, <2>2, <3>2 DEF TrackInv
  <2> QED
    BY <1>t, <1>4, <2>3, <2>4, StartEffect
<1>5. CASE AddFinalizer
  <2>1. UNCHANGED <<upd, ucache, names, nsGone>> /\ pc = "addFinalizer"
    BY <1>t, <1>5, AddFinalizerEffect
  <2>2. CachedResult'
    BY <2>1 DEF TrackInv, CachedResult
  <2>3. CASE Ends /\ UNCHANGED stack
    BY <1>i, <2>1, <2>2, <2>3, TrackEnd DEF TrackInv, Present
  <2>4. CASE /\ pc' = "decide" /\ sess' = sess
             /\ SameStatus(stack', stack)
             /\ stack'.deleting = stack.deleting /\ stack'.exists /\ stack'.finalizer
             /\ SameStatus(inst', inst)
    <3>1. Tracks' /\ Finalizes' /\ Present'
      BY <2>1, <2>4 DEF TrackInv, Tracks, Finalizes, Present, Heading, Forgetting, SameStatus
    <3> QED
      BY <1>i, <2>2, <3>1 DEF TrackInv
  <2> QED
    BY <1>t, <1>5, <2>3, <2>4, AddFinalizerEffect
<1>6. CASE ReclaimWorkspace
  <2>1. /\ UNCHANGED <<stack, ucache, names, nsGone>> /\ pc = "reclaim"
        /\ upd' = upd \/ upd' = Unfinalized(sess.toFin)
    BY <1>t, <1>6, ReclaimEffect
  <2>2. \A u \in Updates : Kept(u)
    BY <1>t, <2>1, KeptUpdates DEF TypeOK, Sessions
  <2>3. CachedResult' /\ (Absorbs /\ inst' = inst => Absorbs')
    BY <2>1, <2>2 DEF TrackInv, CachedResult, Absorbs, Complete, Kept
  <2>4. CASE Ends
    BY <1>i, <2>1, <2>3, <2>4, TrackEnd DEF TrackInv, Present
  <2>5. CASE pc' = "save" /\ inst' = inst /\ sess'.after = sess.after /\ sess'.toFin = 0
    <3>1. sess.after \in {"stop", "later"}
      BY <2>1 DEF TrackInv, IInv, Justified
    <3>2. Tracks' /\ Finalizes' /\ Present'
      BY <2>1, <2>3, <2>5, <3>1 DEF TrackInv, Tracks, Finalizes, Present, Heading, Forgetting
    <3> QED
      BY <1>i, <2>3, <3>2 DEF TrackInv
  <2> QED
    BY <1>t, <1>6, <2>4, <2>5, ReclaimEffect
<1>7. CASE RemoveFinalizer
  <2>1. UNCHANGED <<upd, ucache, nsGone>> /\ Ends /\ stack'.deleting = stack.deleting
    BY <1>t, <1>7, RemoveFinalizerEffect
  <2>2. CachedResult'
    BY <2>1 DEF TrackInv, CachedResult
  <2> QED
    BY <1>i, <2>1, <2>2, TrackEnd DEF TrackInv, Present
<1> QED
  BY <1>i, <1>1, <1>2, <1>3, <1>4, <1>5, <1>6, <1>7, TrackDecision, TrackSave, TrackApply,
     TrackCreate, TrackAddUpdateFinalizer DEF Next, User, Reconcile

LEMMA TrackAlways ==
    ASSUME ReadYourWrites
    PROVE  Spec => []TrackInv
BY TrackInit, TrackStep, PTL DEF Spec

-----------------------------------------------------------------------------
(* What the theorems below assume of the calls that name an Update and hold it. *)

\* The call that adds the finalizer of an Update does not fail of itself.
HoldSucceeds == AddUpdateFinalizer => left'.api = left.api

\* No user deletes an Update before that call.
NotDeletedYet == ~(pc = "addUpdateFinalizer" /\ DeleteUpdate(inst.cur.name))

\* The Update that the status names is there, without the finalizer.
CurrentUnheld == /\ stack.cur.name # 0
                 /\ upd[stack.cur.name].obj # "none" /\ ~upd[stack.cur.name].fin

\* No call fails and the operator does not restart while the current Update is not
\* held, and while an Update is released before the status is saved.
Undisturbed ==
    pc = "reclaim" \/ CurrentUnheld => left'.api = left.api /\ left'.crash = left.crash

\* Unless the reconcile is about to forget the Update, the call that holds it succeeded.
LEMMA RemembersHolds ==
    ASSUME TypeOK, ~Forgetting'
    PROVE  HoldSucceeds
<1> SUFFICES ASSUME AddUpdateFinalizer  PROVE left'.api = left.api
  BY DEF HoldSucceeds
<1>1. ~Save([inst EXCEPT !.cur = NilCurrent], sess, "error")
  BY DEF Save, Goto, Forgetting, TypeOK, Sessions
<1> QED
  BY <1>1 DEF AddUpdateFinalizer

-----------------------------------------------------------------------------
(* Only the current Update waits to run.                                   *)

\* A finalizer is on an object, and keeps a deleted one.
FinShape ==
    /\ \A u \in Updates : /\ upd[u].obj = "deleting" => upd[u].fin
                          /\ upd[u].obj \in {"none", "gone"} => ~upd[u].fin
    /\ pc = "addUpdateFinalizer" => ~upd[names].fin

OnlyCurrentWaits == \A u \in Updates : Waiting(u) => u = stack.cur.name

\* An Update is forgotten when it was not created, or is gone again.
Dropped == Forgetting => upd[names].obj \in {"none", "gone"}

WaitInv == TrackInv /\ FinShape /\ OnlyCurrentWaits /\ Dropped

\* A status write reaches the object or is lost; only the Update that the local copy has
\* absorbed may lose its finalizer.
Lost ==
    /\ UNCHANGED <<stack, upd>> /\ left'.api # left.api
    /\ Ends \/ (pc' = "finalize" /\ sess.after = "finalize" /\ UNCHANGED <<inst, sess>>)
Written ==
    /\ SameStatus(stack', inst)
    /\ \/ Ends /\ sess.after \in {"stop", "later", "error"}
       \/ /\ pc' = sess.after
          /\ sess.after \in {"release", "finalize", "apply", "create"}
          /\ inst' = stack' /\ SameSession(sess', sess)
          /\ sess'.toFin = 0 /\ sess'.type = sess.type /\ sess'.commit = sess.commit

LEMMA SaveCases ==
    ASSUME TrackInv, SaveStatus
    PROVE  /\ pc = "save" /\ pc' \notin {"save", "addUpdateFinalizer", "addFinalizer", "decide", "reclaim"}
           /\ UNCHANGED <<cache, names, nsGone>> /\ SameMeta(stack', stack)
           /\ \E v \in Names : upd' = Unfinalized(v) /\ v \in {0, sess.toFin}
           /\ Lost \/ Written
           /\ Lost => SameStatus(stack', stack)
<1> USE DEF worldVars
<1>t. TypeOK /\ sess.toFin \in Names /\ 0 \in Names
  BY BoundAssumption DEF TrackInv, IInv, TypeOK, Sessions, Names
<1>1. /\ pc = "save" /\ UNCHANGED <<cache, names, nsGone>> /\ SameMeta(stack', stack)
      /\ Lost \/ Written
  BY <1>t, SaveEffect DEF TrackInv, Present, Lost, Written, SameMeta
<1>2. pc' \notin {"save", "addUpdateFinalizer", "addFinalizer", "decide", "reclaim"}
  BY <1>1 DEF Lost, Written, Ends
<1>3. \E v \in Names : upd' = Unfinalized(v) /\ v \in {0, sess.toFin}
  <2>1. upd' = Unfinalized(0) \/ upd' = Unfinalized(sess.toFin)
    BY <1>t, SaveEffect DEF Unfinalized
  <2> QED
    BY <1>t, <2>1
<1> QED
  BY <1>1, <1>2, <1>3 DEF Lost, SameStatus

\* The Updates stay as they are, and the status names the same one.
LEMMA WaitSame ==
    ASSUME WaitInv, TrackInv', upd' = upd, stack'.cur.name = stack.cur.name,
           pc' # "addUpdateFinalizer", Forgetting' => Dropped'
    PROVE  WaitInv'
<1>1. FinShape' /\ OnlyCurrentWaits'
  BY DEF WaitInv, FinShape, OnlyCurrentWaits, Waiting
<1> QED
  BY <1>1 DEF WaitInv, Dropped

LEMMA WaitCalm ==
    ASSUME WaitInv, TrackInv', Calm
    PROVE  WaitInv'
<1> USE DEF stackVars, sessVars
<1>t. \A u \in Updates : upd[u] \in UpdateObjects
  BY DEF WaitInv, TrackInv, IInv, TypeOK
<1>1. UNCHANGED <<stack, pc, sess, names>>
  BY DEF Calm
<1>2. ASSUME NEW u \in Updates
      PROVE  /\ upd'[u].fin = upd[u].fin
             /\ upd'[u].obj = upd[u].obj
                \/ (upd[u].obj = "live" /\ upd'[u].obj = IF upd[u].fin THEN "deleting" ELSE "gone")
             /\ upd'[u].phase = "pending" => upd[u].phase = "pending"
  <2>1. CASE upd'[u] = upd[u]
    BY <2>1
  <2>2. CASE Deleted(u)
    BY <1>t, <2>2 DEF Deleted, DeletedUpdate, UpdateObjects, Kept
  <2>3. CASE Moves(u)
    BY <2>3 DEF Moves
  <2> QED
    BY <2>1, <2>2, <2>3 DEF Calm
<1>3. FinShape'
  <2>1. ASSUME NEW u \in Updates
        PROVE  /\ upd'[u].obj = "deleting" => upd'[u].fin
               /\ upd'[u].obj \in {"none", "gone"} => ~upd'[u].fin
    BY <1>2 DEF WaitInv, FinShape
  <2>2. pc' = "addUpdateFinalizer" => ~upd'[names'].fin
    BY <1>1, <1>2 DEF WaitInv, FinShape, TrackInv, Tracks
  <2> QED
    BY <2>1, <2>2 DEF FinShape
<1>4. OnlyCurrentWaits'
  BY <1>1, <1>2 DEF WaitInv, OnlyCurrentWaits, Waiting
<1>5. Dropped'
  BY <1>1, <1>2 DEF WaitInv, Dropped, Forgetting, TrackInv, Tracks
<1> QED
  BY <1>3, <1>4, <1>5 DEF WaitInv

\* The absorbed Update, if any, is released.
LEMMA WaitRelease ==
    ASSUME WaitInv, NEW v \in Names, upd' = Unfinalized(v)
    PROVE  \A u \in Updates :
               /\ upd'[u].obj = "deleting" => upd'[u].fin
               /\ upd'[u].obj \in {"none", "gone"} => ~upd'[u].fin
               /\ Waiting(u)' => Waiting(u)
<1> SUFFICES ASSUME NEW u \in Updates
             PROVE  /\ upd'[u].obj = "deleting" => upd'[u].fin
                    /\ upd'[u].obj \in {"none", "gone"} => ~upd'[u].fin
                    /\ Waiting(u)' => Waiting(u)
  OBVIOUS
<1>t. TypeOK /\ upd[u] \in UpdateObjects
  BY DEF WaitInv, TrackInv, IInv, TypeOK
<1>1. upd'[u] = upd[u] \/ upd'[u] = ReleasedUpdate(upd[u])
  BY <1>t, KeptUpdates
<1> QED
  BY <1>t, <1>1 DEF WaitInv, FinShape, Waiting, ReleasedUpdate, UpdateObjects

LEMMA WaitSave ==
    ASSUME WaitInv, TrackInv', SaveStatus
    PROVE  WaitInv'
<1>1. /\ pc = "save" /\ pc' # "save" /\ pc' # "addUpdateFinalizer" /\ UNCHANGED names
      /\ SameStatus(stack', stack) \/ SameStatus(stack', inst)
  BY SaveCases DEF WaitInv, Written
<1>2. PICK v \in Names : upd' = Unfinalized(v)
  BY SaveCases DEF WaitInv
<1>3. FinShape'
  BY <1>1, <1>2, WaitRelease DEF FinShape
<1>4. ASSUME NEW u \in Updates, Waiting(u)  PROVE u = stack'.cur.name
  <2>1. u = stack.cur.name /\ ~Complete(u)
    BY <1>4 DEF WaitInv, OnlyCurrentWaits, Waiting, Complete
  <2>2. ~Absorbs
    BY <2>1 DEF Absorbs
  <2>3. CASE SameStatus(stack', stack)
    BY <2>1, <2>3 DEF SameStatus
  <2>4. CASE SameStatus(stack', inst) /\ sess.after \notin {"create", "error"}
    BY <1>1, <2>1, <2>2, <2>4 DEF WaitInv, TrackInv, Tracks, SameStatus
  <2>5. CASE sess.after = "create"
    BY <1>1, <2>1, <2>5 DEF WaitInv, TrackInv, Tracks, Updates
  <2>6. CASE sess.after = "error"
    BY <1>1, <1>4, <2>1, <2>6 DEF WaitInv, TrackInv, Tracks, Forgetting, Dropped, Waiting
  <2> QED
    BY <1>1, <2>3, <2>4, <2>5, <2>6
<1>5. OnlyCurrentWaits'
  BY <1>2, <1>4, WaitRelease DEF OnlyCurrentWaits
<1>6. Dropped'
  BY <1>1 DEF Dropped, Forgetting
<1> QED
  BY <1>3, <1>5, <1>6 DEF WaitInv

\* The Updates once one is created.
LEMMA CreatedUpdates ==
    ASSUME TrackInv, pc = "create",
           upd' = [upd EXCEPT ![inst.cur.name] =
                       [NoUpdate EXCEPT !.obj = "live", !.type = sess.type,
                                        !.gen = inst.cur.gen, !.req = sess.req]]
    PROVE  /\ names \in Updates /\ inst.cur.name = names
           /\ upd[names].obj = "none" /\ upd[names].phase = "pending"
           /\ \A u \in Updates \ {names} : upd'[u] = upd[u]
           /\ upd'[names].obj = "live" /\ ~upd'[names].fin /\ upd'[names].phase = "pending"
           /\ upd'[names].type = sess.type /\ upd'[names].ran = NoContent
           /\ upd'[names].gen = inst.cur.gen /\ upd'[names].req = sess.req
<1>1. /\ names \in Updates /\ inst.cur.name = names
      /\ upd[names].obj = "none" /\ upd[names].phase = "pending"
  BY DEF TrackInv, IInv, FreshNames, Heading
<1>2. \A u \in Updates \ {names} : upd'[u] = upd[u]
  BY <1>1 DEF TrackInv, IInv, TypeOK
<1>3. upd'[names] = [NoUpdate EXCEPT !.obj = "live", !.type = sess.type,
                                     !.gen = inst.cur.gen, !.req = sess.req]
  BY <1>1 DEF TrackInv, IInv, TypeOK
<1>4. /\ upd'[names].obj = "live" /\ ~upd'[names].fin /\ upd'[names].phase = "pending"
      /\ upd'[names].type = sess.type /\ upd'[names].ran = NoContent
      /\ upd'[names].gen = inst.cur.gen /\ upd'[names].req = sess.req
  <2> DEFINE r == [NoUpdate EXCEPT !.obj = "live", !.type = sess.type,
                                   !.gen = inst.cur.gen, !.req = sess.req]
  <2>1. /\ r.obj = "live" /\ ~r.fin /\ r.phase = "pending"
        /\ r.type = sess.type /\ r.ran = NoContent
        /\ r.gen = inst.cur.gen /\ r.req = sess.req
    BY DEF NoUpdate
  <2>2. upd'[names] = r
    BY <1>3
  <2> HIDE DEF r
  <2> QED
    BY <2>1, <2>2
<1> QED
  BY <1>1, <1>2, <1>4

LEMMA WaitCreate ==
    ASSUME WaitInv, TrackInv', CreateUpdate
    PROVE  WaitInv'
<1> USE DEF stackVars
<1>t. TypeOK
  BY DEF WaitInv, TrackInv, IInv
<1>1. pc = "create" /\ UNCHANGED <<stack, names>>
  BY <1>t, CreateEffect
<1>2. CASE /\ pc' = "addUpdateFinalizer"
           /\ upd' = [upd EXCEPT ![inst.cur.name] =
                          [NoUpdate EXCEPT !.obj = "live", !.type = sess.type,
                                           !.gen = inst.cur.gen, !.req = sess.req]]
  <2>1. /\ names \in Updates
        /\ \A u \in Updates \ {names} : upd'[u] = upd[u]
        /\ upd'[names].obj = "live" /\ ~upd'[names].fin
    BY <1>1, <1>2, CreatedUpdates DEF WaitInv
  <2>2. stack.cur.name = names
    BY <1>1 DEF WaitInv, TrackInv, Tracks, SameStatus, Heading
  <2>3. FinShape'
    BY <1>1, <2>1 DEF WaitInv, FinShape
  <2>4. OnlyCurrentWaits'
    BY <1>1, <2>1, <2>2 DEF WaitInv, OnlyCurrentWaits, Waiting
  <2>5. Dropped'
    BY <1>2 DEF Dropped, Forgetting
  <2> QED
    BY <2>3, <2>4, <2>5 DEF WaitInv
<1>3. CASE pc' = "save" /\ upd' = upd
  <2>1. Dropped'
    BY <1>1, <1>3 DEF WaitInv, TrackInv, IInv, FreshNames, Heading, Dropped
  <2> QED
    BY <1>1, <1>3, <2>1, WaitSame
<1> QED
  BY <1>t, <1>2, <1>3, CreateEffect

LEMMA WaitAddUpdateFinalizer ==
    ASSUME WaitInv, TrackInv', HoldSucceeds, AddUpdateFinalizer
    PROVE  WaitInv'
<1> USE DEF stackVars
<1>t. TypeOK /\ \A u \in Updates : upd[u] \in UpdateObjects
  BY DEF WaitInv, TrackInv, IInv, TypeOK
<1>1. /\ pc = "addUpdateFinalizer" /\ UNCHANGED <<stack, names>>
      /\ names \in Updates /\ inst.cur.name = names
      /\ upd[names].obj # "none" /\ ~upd[names].fin
  BY <1>t, AddUpdateFinalizerEffect DEF WaitInv, TrackInv, Tracks, FinShape, IInv, FreshNames
<1>2. CASE Ends /\ upd[names].obj = "live" /\ upd' = Held(names)
  <2>1. \A u \in Updates \ {names} : upd'[u] = upd[u]
    BY <1>t, <1>1, <1>2 DEF Held, TypeOK
  <2>2. upd'[names].fin /\ upd'[names].obj = "live" /\ upd'[names].phase = upd[names].phase
    BY <1>t, <1>1, <1>2 DEF Held, TypeOK, UpdateObjects
  <2>3. FinShape'
    BY <1>1, <1>2, <2>1, <2>2 DEF WaitInv, FinShape, Ends
  <2>4. OnlyCurrentWaits'
    BY <1>1, <1>2, <2>1, <2>2 DEF WaitInv, OnlyCurrentWaits, Waiting
  <2>5. Dropped'
    BY <1>2 DEF Dropped, Forgetting, Ends
  <2> QED
    BY <2>3, <2>4, <2>5 DEF WaitInv
<1>3. CASE /\ upd[names].obj # "live" /\ pc' = "save"
           /\ upd' = upd \/ upd' = MarkDeleted(names)
  <2>1. upd[names].obj = "gone"
    BY <1>t, <1>1, <1>3 DEF WaitInv, FinShape, UpdateObjects
  <2>2. CASE upd' = upd
    BY <1>1, <1>3, <2>1, <2>2, WaitSame DEF Dropped
  <2>3. CASE upd' = MarkDeleted(names)
    <3>1. /\ \A u \in Updates \ {names} : upd'[u] = upd[u]
          /\ upd'[names] = DeletedUpdate(upd[names])
      BY <1>t, <1>1, <2>3, KeptUpdates
    <3>2. upd'[names].obj = "gone" /\ ~upd'[names].fin
      BY <1>t, <1>1, <3>1 DEF DeletedUpdate, UpdateObjects
    <3>3. FinShape' /\ OnlyCurrentWaits'
      BY <1>1, <1>3, <3>1, <3>2 DEF WaitInv, FinShape, OnlyCurrentWaits, Waiting
    <3> QED
      BY <1>1, <3>2, <3>3 DEF WaitInv, Dropped
  <2> QED
    BY <1>3, <2>2, <2>3
<1> QED
  BY <1>t, <1>1, <1>2, <1>3, AddUpdateFinalizerEffect DEF HoldSucceeds

\* Every step that is none of the above leaves the Updates and the record alone.
Other ==
    \/ (\E s \in Specs : EditSpec(s)) \/ RequestReconcile \/ DeleteStack \/ Crash
    \/ Start \/ AddFinalizer \/ WaitForUpdate \/ ReadFails
    \/ ReleaseWithoutDestroy \/ StallOnSource \/ KeepSynced \/ AwaitPrereqs \/ BeginUpdate
    \/ ApplyWorkspace \/ RemoveFinalizer

LEMMA OtherEffect ==
    ASSUME TypeOK, ReadYourWrites, Other
    PROVE  /\ UNCHANGED <<upd, infra>> /\ SameStatus(stack', stack)
           /\ nsGone' = nsGone \/ (~stack.deleting /\ (nsGone' => AllowNsTermination))
           /\ names' = names \/ (names' = names + 1 /\ names' \in Updates /\ pc = "apply")
           /\ \/ UNCHANGED <<pc, names>> /\ sess'.after = sess.after
              \/ pc' # "addUpdateFinalizer" /\ ~Forgetting'
<1> USE DEF stackVars, worldVars, sessVars
<1>1. CASE (\E s \in Specs : EditSpec(s)) \/ RequestReconcile \/ DeleteStack
  BY <1>1, UserEffect
<1>2. CASE Crash
  BY <1>2, CrashEffect DEF Ends, Forgetting, SameStatus
<1>3. CASE Start
  <2>1. CASE UNCHANGED sessVars
    BY <1>3, <2>1, StartEffect DEF SameStatus
  <2>2. CASE pc' = IF stack.finalizer THEN "decide" ELSE "addFinalizer"
    BY <1>3, <2>2, StartEffect DEF SameStatus, Forgetting
  <2> QED
    BY <1>3, <2>1, <2>2, StartEffect
<1>4. CASE AddFinalizer
  BY <1>4, AddFinalizerEffect DEF Ends, Forgetting, SameStatus
<1>5. CASE \/ WaitForUpdate \/ ReadFails
           \/ ReleaseWithoutDestroy \/ StallOnSource \/ KeepSynced \/ AwaitPrereqs \/ BeginUpdate
  <2>1. UNCHANGED <<stack, upd, names, infra, nsGone>>
    BY <1>5, DecisionEffect
  <2>2. pc' # "addUpdateFinalizer" /\ ~Forgetting'
    BY <1>5, DecisionEffect DEF Ends, Decides, Forgetting
  <2> QED
    BY <2>1, <2>2 DEF SameStatus
<1>6. CASE ApplyWorkspace
  <2>1. UNCHANGED <<stack, upd, infra, nsGone>> /\ pc = "apply"
    BY <1>6, ApplyEffect
  <2>2. pc' # "addUpdateFinalizer" /\ ~Forgetting'
    BY <1>6, ApplyEffect DEF Ends, NamesUpdate, Forgetting
  <2>3. names' = names \/ (names' = names + 1 /\ names' \in Updates)
    BY <1>6, ApplyEffect DEF NamesUpdate
  <2> QED
    BY <2>1, <2>2, <2>3 DEF SameStatus
<1>7. CASE RemoveFinalizer
  BY <1>7, RemoveFinalizerEffect DEF Ends, Forgetting, SameStatus
<1> QED
  BY <1>1, <1>2, <1>3, <1>4, <1>5, <1>6, <1>7 DEF Other

LEMMA StepCases ==
    ASSUME TypeOK, [Next]_vars
    PROVE  \/ Calm \/ Other
           \/ SaveStatus \/ ReclaimWorkspace \/ CreateUpdate \/ AddUpdateFinalizer
BY CalmSteps DEF Next, User, Reconcile, Other

LEMMA WaitStep ==
    ASSUME ReadYourWrites, WaitInv, HoldSucceeds, [Next]_vars
    PROVE  WaitInv'
<1>t. TypeOK /\ sess.toFin \in Names
  BY DEF WaitInv, TrackInv, IInv, TypeOK, Sessions
<1>i. TrackInv'
  BY TrackStep DEF WaitInv
<1>1. CASE Other
  <2>1. upd' = upd /\ stack'.cur.name = stack.cur.name
    BY <1>t, <1>1, OtherEffect DEF SameStatus
  <2>2. CASE pc' # "addUpdateFinalizer" /\ ~Forgetting'
    BY <1>i, <2>1, <2>2, WaitSame
  <2>3. CASE UNCHANGED <<pc, names>> /\ sess'.after = sess.after
    <3>1. FinShape' /\ OnlyCurrentWaits' /\ Dropped'
      BY <2>1, <2>3 DEF WaitInv, FinShape, OnlyCurrentWaits, Waiting, Dropped, Forgetting
    <3> QED
      BY <1>i, <3>1 DEF WaitInv
  <2> QED
    BY <1>t, <1>1, <2>2, <2>3, OtherEffect
<1>2. CASE ReclaimWorkspace
  <2>1. /\ pc = "reclaim" /\ stack' = stack
        /\ upd' = Unfinalized(sess.toFin) \/ upd' = upd
        /\ pc' # "addUpdateFinalizer" /\ ~Forgetting'
    BY <1>t, <1>2, ReclaimEffect
       DEF WaitInv, TrackInv, IInv, Justified, Forgetting, Ends, stackVars
  <2>2. FinShape' /\ OnlyCurrentWaits'
    <3>1. CASE upd' = upd
      BY <2>1, <3>1 DEF WaitInv, FinShape, OnlyCurrentWaits, Waiting
    <3>2. CASE upd' = Unfinalized(sess.toFin)
      BY <1>t, <2>1, <3>2, WaitRelease DEF WaitInv, FinShape, OnlyCurrentWaits
    <3> QED
      BY <2>1, <3>1, <3>2
  <2> QED
    BY <1>i, <2>1, <2>2 DEF WaitInv, Dropped
<1> QED
  BY <1>t, <1>i, <1>1, <1>2, StepCases, WaitCalm, WaitSave, WaitCreate, WaitAddUpdateFinalizer

LEMMA WaitInit == Init => WaitInv
<1> SUFFICES ASSUME Init PROVE WaitInv
  OBVIOUS
<1>1. TrackInv
  BY TrackInit
<1>2. FinShape /\ OnlyCurrentWaits /\ Dropped
  BY DEF Init, FinShape, OnlyCurrentWaits, Waiting, Dropped, Forgetting, NoUpdate
<1> QED
  BY <1>1, <1>2 DEF WaitInv

-----------------------------------------------------------------------------
(* The current Update is held.                                             *)

\* The finalizer is off only while the reconcile that named the Update puts it on, or
\* the one that absorbed or forgets it saves the status.
CurrentIsHeld ==
    stack.cur.name # 0 =>
        \/ upd[stack.cur.name].fin \/ upd[stack.cur.name].obj = "none"
        \/ pc \in {"create", "addUpdateFinalizer"} \/ Forgetting
        \/ pc = "save" /\ inst.cur.name = 0

HeldInv == WaitInv /\ CurrentIsHeld

\* Most steps keep the finalizers, and the current Update.
LEMMA HeldSame ==
    ASSUME TypeOK, CurrentIsHeld, stack'.cur.name = stack.cur.name,
           \A u \in Updates : upd'[u].fin = upd[u].fin,
           \A u \in Updates : upd[u].obj = "none" => upd'[u].obj = "none",
           \/ pc \notin {"create", "addUpdateFinalizer", "save"}
           \/ pc' = pc /\ sess'.after = sess.after /\ inst' = inst
    PROVE  CurrentIsHeld'
<1>1. stack.cur.name # 0 => stack.cur.name \in Updates
  <2>1. stack.cur.name \in Names
    BY DEF TypeOK, Objects, CurrentUpdates
  <2> QED
    BY <2>1, BoundAssumption DEF Names, Updates
<1>2. CASE pc \notin {"create", "addUpdateFinalizer", "save"}
  BY <1>1, <1>2 DEF CurrentIsHeld, Forgetting
<1>3. CASE pc' = pc /\ sess'.after = sess.after /\ inst' = inst
  BY <1>1, <1>3 DEF CurrentIsHeld, Forgetting
<1> QED
  BY <1>2, <1>3

LEMMA HeldSave ==
    ASSUME HeldInv, Undisturbed, SaveStatus
    PROVE  CurrentIsHeld'
<1>1. pc = "save" /\ (Lost \/ Written)
  BY SaveCases DEF HeldInv, WaitInv
<1>2. CASE Lost
  BY <1>2 DEF Lost, Undisturbed, CurrentUnheld, CurrentIsHeld
<1>3. CASE Written /\ inst.cur.name = 0
  BY <1>3 DEF Written, SameStatus, CurrentIsHeld
<1>4. CASE Written /\ inst.cur.name # 0
  <2>1. upd' = upd
    BY <1>4, SaveCases DEF HeldInv, WaitInv, TrackInv, Finalizes, Unfinalized
  <2>2. sess.after # "error"
    BY <1>1, <1>4 DEF HeldInv, WaitInv, TrackInv, Tracks, Forgetting, NilCurrent
  <2>3. CASE sess.after = "create"
    BY <1>4, <2>3 DEF Written, CurrentIsHeld
  <2>4. CASE sess.after # "create"
    <3>1. stack'.cur.name = stack.cur.name
      BY <1>1, <1>4, <2>2, <2>4 DEF Written, HeldInv, WaitInv, TrackInv, Tracks, Absorbs,
         SameStatus, NilCurrent
    <3> QED
      BY <1>1, <1>4, <2>1, <2>2, <3>1 DEF HeldInv, CurrentIsHeld, Forgetting
  <2> QED
    BY <2>3, <2>4
<1> QED
  BY <1>1, <1>2, <1>3, <1>4

LEMMA HeldStep ==
    ASSUME ReadYourWrites, HeldInv, Undisturbed, [Next]_vars
    PROVE  HeldInv'
<1> USE DEF stackVars, sessVars
<1>t. TypeOK /\ TrackInv /\ \A u \in Updates : upd[u] \in UpdateObjects
  BY DEF HeldInv, WaitInv, TrackInv, IInv, TypeOK
<1>c. pc = "addUpdateFinalizer" => /\ CurrentUnheld /\ stack.cur.name = inst.cur.name
                                   /\ inst.cur.name \in Updates
  BY BoundAssumption DEF HeldInv, WaitInv, TrackInv, Tracks, SameStatus, FinShape, IInv, FreshNames,
     CurrentUnheld, Updates
<1>i. WaitInv'
  <2>1. HoldSucceeds
    BY <1>t, <1>c, AddUpdateFinalizerEffect DEF HoldSucceeds, Undisturbed
  <2> QED
    BY <2>1, WaitStep DEF HeldInv
<1>1. CASE Calm
  <2>1. UNCHANGED <<stack, pc, inst, sess>>
    BY <1>1 DEF Calm
  <2>2. \A u \in Updates : upd'[u].fin = upd[u].fin /\ (upd[u].obj = "none" => upd'[u].obj = "none")
    <3>1. \A u \in Updates : Deleted(u) => upd'[u].fin = upd[u].fin
      BY <1>t DEF Deleted, DeletedUpdate, UpdateObjects
    <3> QED
      BY <1>1, <3>1 DEF Calm, Deleted, Kept, Moves
  <2> QED
    BY <1>t, <1>i, <2>1, <2>2, HeldSame DEF HeldInv
<1>2. CASE Other /\ pc \in {"create", "addUpdateFinalizer", "save"}
  <2>1. (\E s \in Specs : EditSpec(s)) \/ RequestReconcile \/ DeleteStack \/ Crash
    BY <1>2 DEF Other, Start, AddFinalizer, WaitForUpdate, ReadFails, ReleaseWithoutDestroy,
       StallOnSource, KeepSynced, AwaitPrereqs, BeginUpdate, Resolvable, Decidable,
       ApplyWorkspace, RemoveFinalizer
  <2>2. CASE Crash
    <3>1. UNCHANGED <<stack, upd>> /\ ~CurrentUnheld
      BY <1>t, <2>2, CrashEffect DEF Undisturbed
    <3> QED
      BY <1>i, <3>1 DEF HeldInv, CurrentIsHeld, CurrentUnheld
  <2>3. CASE ~Crash
    <3>1. UNCHANGED <<upd, pc, inst>> /\ sess'.after = sess.after /\ SameStatus(stack', stack)
      BY <1>t, <2>1, <2>3, UserEffect
    <3> QED
      BY <1>t, <1>i, <3>1, HeldSame DEF HeldInv, SameStatus
  <2> QED
    BY <2>2, <2>3
<1>3. CASE Other /\ pc \notin {"create", "addUpdateFinalizer", "save"}
  <2>1. upd' = upd /\ SameStatus(stack', stack)
    BY <1>t, <1>3, OtherEffect
  <2> QED
    BY <1>t, <1>i, <1>3, <2>1, HeldSame DEF HeldInv, SameStatus
<1>4. CASE SaveStatus
  BY <1>i, <1>4, HeldSave DEF HeldInv
<1>5. CASE ReclaimWorkspace
  <2>1. pc = "reclaim" /\ pc' = "save" /\ inst' = inst
    BY <1>t, <1>5, ReclaimEffect DEF Undisturbed
  <2>2. inst.cur.name = 0
    BY <1>t, <2>1 DEF TrackInv, Tracks
  <2> QED
    BY <1>i, <2>1, <2>2 DEF HeldInv, CurrentIsHeld
<1>6. CASE CreateUpdate
  <2>1. pc' = "addUpdateFinalizer" \/ Forgetting'
    BY <1>t, <1>6, CreateEffect DEF Forgetting
  <2> QED
    BY <1>i, <2>1 DEF HeldInv, CurrentIsHeld
<1>7. CASE AddUpdateFinalizer
  <2>1. /\ pc = "addUpdateFinalizer" /\ stack' = stack
        /\ Forgetting' \/ upd' = Held(inst.cur.name)
    BY <1>t, <1>7, AddUpdateFinalizerEffect DEF Forgetting
  <2>2. upd' = Held(inst.cur.name) => upd'[inst.cur.name].fin
    BY <1>t, <1>c, <2>1 DEF Held, TypeOK, UpdateObjects
  <2> QED
    BY <1>c, <1>i, <2>1, <2>2 DEF HeldInv, CurrentIsHeld
<1> QED
  BY <1>t, <1>1, <1>2, <1>3, <1>4, <1>5, <1>6, <1>7, StepCases

\* The finalizer works: whenever no reconcile runs, the Update that the status of a Stack
\* names is not gone, whoever deletes it and whenever it expires, so that its result can
\* be absorbed.  Between its creation and addUpdateFinalizer an Update has no finalizer,
\* and ReclaimWorkspace takes the finalizer before the result is saved: the hypothesis is
\* that no call fails, and the operator does not restart, in these two gaps.
THEOREM HeldUntilAbsorbed ==
    ASSUME ReadYourWrites
    PROVE  Spec /\ [][Undisturbed]_vars => []UpdateHeldUntilAbsorbed
<1>1. Init => HeldInv
  <2> SUFFICES ASSUME Init PROVE HeldInv
    OBVIOUS
  <2>1. CurrentIsHeld
    BY DEF Init, CurrentIsHeld, NewStack, NilCurrent
  <2> QED
    BY <2>1, WaitInit DEF HeldInv
<1>2. HeldInv /\ [Next]_vars /\ [Undisturbed]_vars => HeldInv'
  <2>1. UNCHANGED vars => Undisturbed
    BY DEF vars, Undisturbed
  <2> QED
    BY <2>1, HeldStep
<1>3. HeldInv => UpdateHeldUntilAbsorbed
  BY DEF HeldInv, WaitInv, FinShape, CurrentIsHeld, UpdateHeldUntilAbsorbed, Forgetting, Updates
<1> QED
  BY <1>1, <1>2, <1>3, PTL DEF Spec

-----------------------------------------------------------------------------
(* One Update in flight.                                                   *)

\* Nothing runs but the current Update, which no user takes away before it is held; in a
\* terminating namespace more may run, but nothing is created any more.
OnlyCurrentRuns ==
    /\ \A u \in Updates : upd[u].phase = "running" => u = stack.cur.name \/ nsGone
    /\ pc = "addUpdateFinalizer" => upd[names].obj = "live" \/ Complete(names) \/ nsGone
    /\ Forgetting => upd[names].phase # "running" \/ nsGone

OverlapInv == WaitInv /\ OnlyCurrentRuns /\ NoOverlappingUpdates

LEMMA NamespaceStaysGone ==
    ASSUME ReadYourWrites, TrackInv, [Next]_vars, nsGone
    PROVE  nsGone'
<1> USE DEF worldVars
<1>t. TypeOK /\ stack.deleting
  BY DEF TrackInv, IInv, Present
<1> QED
  BY <1>t, StepCases, OtherEffect, SaveEffect, ReclaimEffect, CreateEffect, AddUpdateFinalizerEffect
     DEF Calm

\* Nothing new is in flight.
LEMMA OverlapSame ==
    ASSUME NoOverlappingUpdates, \A u \in Updates : InFlight(u)' => InFlight(u)
    PROVE  NoOverlappingUpdates'
BY DEF NoOverlappingUpdates

LEMMA OverlapCalm ==
    ASSUME OverlapInv, Calm, NotDeletedYet
    PROVE  OnlyCurrentRuns' /\ NoOverlappingUpdates'
<1> USE DEF stackVars, sessVars
<1>t. \A u \in Updates : upd[u] \in UpdateObjects
  BY DEF OverlapInv, WaitInv, TrackInv, IInv, TypeOK
<1>1. UNCHANGED <<stack, pc, inst, sess, names, nsGone>>
  BY DEF Calm
<1>2. ASSUME NEW u \in Updates
      PROVE  /\ upd'[u].phase = "running" => upd[u].phase = "running" \/ Waiting(u)
             /\ Complete(u) => upd'[u].phase = upd[u].phase
             /\ upd'[u].phase = "pending" => upd[u].phase = "pending"
             /\ upd'[u].obj \in {"live", "deleting"} => upd[u].obj \in {"live", "deleting"}
             /\ upd[u].obj = "live" /\ upd'[u].obj # "live" =>
                    Complete(u) \/ ~stack.exists \/ nsGone \/ DeleteUpdate(u)
  <2>1. CASE upd'[u] = upd[u]
    BY <2>1
  <2>2. CASE Deleted(u)
    BY <1>t, <2>2 DEF Deleted, DeletedUpdate, UpdateObjects, Kept, OverlapInv, OnlyCurrentRuns
  <2>3. CASE Moves(u)
    BY <2>3 DEF Moves, Waiting, Complete
  <2> QED
    BY <2>1, <2>2, <2>3 DEF Calm
<1>3. \A u \in Updates : InFlight(u)' => InFlight(u)
  BY <1>2 DEF InFlight, Waiting
<1>4. \A u \in Updates : upd'[u].phase = "running" => u = stack'.cur.name \/ nsGone'
  BY <1>1, <1>2 DEF OverlapInv, OnlyCurrentRuns, WaitInv, OnlyCurrentWaits
<1>5. pc' = "addUpdateFinalizer" => upd'[names'].obj = "live" \/ Complete(names)' \/ nsGone'
  <2> SUFFICES ASSUME pc = "addUpdateFinalizer", ~nsGone
               PROVE  upd'[names].obj = "live" \/ Complete(names)'
    BY <1>1 DEF Complete
  <2>1. names \in Updates /\ stack.exists /\ ~DeleteUpdate(names)
    BY DEF OverlapInv, WaitInv, TrackInv, Tracks, Present, NotDeletedYet
  <2>2. upd[names].obj = "live" \/ Complete(names)
    BY DEF OverlapInv, OnlyCurrentRuns
  <2> QED
    BY <1>1, <1>2, <2>1, <2>2 DEF Complete
<1>6. Forgetting' => upd'[names'].phase # "running" \/ nsGone'
  <2> SUFFICES ASSUME Forgetting, ~nsGone  PROVE upd'[names].phase # "running"
    BY <1>1 DEF Forgetting
  <2>1. names \in Updates /\ ~Waiting(names) /\ upd[names].phase # "running"
    BY DEF OverlapInv, WaitInv, TrackInv, Tracks, Dropped, Waiting, OnlyCurrentRuns
  <2> QED
    BY <1>2, <2>1
<1> QED
  BY <1>3, <1>4, <1>5, <1>6, OverlapSame DEF OverlapInv, OnlyCurrentRuns

LEMMA OverlapSave ==
    ASSUME OverlapInv, SaveStatus
    PROVE  OnlyCurrentRuns' /\ NoOverlappingUpdates'
<1>t. TypeOK /\ WaitInv
  BY DEF OverlapInv, WaitInv, TrackInv, IInv
<1>1. /\ pc = "save" /\ pc' # "save" /\ pc' # "addUpdateFinalizer" /\ UNCHANGED nsGone
      /\ SameStatus(stack', stack) \/ SameStatus(stack', inst)
  BY <1>t, SaveCases DEF WaitInv, Written
<1>2. \A u \in Updates : upd'[u].phase = upd[u].phase /\ (Waiting(u)' => Waiting(u))
  <2>1. PICK v \in Names : upd' = Unfinalized(v)
    BY <1>t, SaveCases DEF WaitInv
  <2> QED
    BY <1>t, <2>1, KeptUpdates, WaitRelease DEF Kept
<1>3. \A u \in Updates : InFlight(u)' => InFlight(u)
  BY <1>2 DEF InFlight, Waiting
<1>4. ASSUME NEW u \in Updates, upd[u].phase = "running", ~nsGone  PROVE u = stack'.cur.name
  <2>1. u = stack.cur.name /\ ~Complete(u)
    BY <1>4 DEF OverlapInv, OnlyCurrentRuns, Complete
  <2>2. ~Absorbs
    BY <2>1 DEF Absorbs
  <2>3. CASE SameStatus(stack', stack)
    BY <2>1, <2>3 DEF SameStatus
  <2>4. CASE SameStatus(stack', inst) /\ sess.after \notin {"create", "error"}
    BY <1>1, <2>1, <2>2, <2>4 DEF OverlapInv, WaitInv, TrackInv, Tracks, SameStatus
  <2>5. CASE sess.after = "create"
    BY <1>1, <2>1, <2>5 DEF OverlapInv, WaitInv, TrackInv, Tracks, Updates
  <2>6. CASE sess.after = "error"
    BY <1>1, <1>4, <2>1, <2>6 DEF OverlapInv, WaitInv, TrackInv, Tracks, Forgetting, OnlyCurrentRuns
  <2> QED
    BY <1>1, <2>3, <2>4, <2>5, <2>6
<1>5. OnlyCurrentRuns'
  BY <1>1, <1>2, <1>4 DEF OnlyCurrentRuns, Forgetting
<1> QED
  BY <1>3, <1>5, OverlapSame DEF OverlapInv

LEMMA OverlapCreate ==
    ASSUME OverlapInv, CreateUpdate
    PROVE  OnlyCurrentRuns' /\ NoOverlappingUpdates'
<1> USE DEF stackVars, worldVars
<1>t. TypeOK
  BY DEF OverlapInv, WaitInv, TrackInv, IInv
<1>1. pc = "create" /\ UNCHANGED <<stack, names, nsGone>>
  BY <1>t, CreateEffect
<1>2. CASE /\ pc' = "addUpdateFinalizer" /\ ~nsGone
           /\ upd' = [upd EXCEPT ![inst.cur.name] =
                          [NoUpdate EXCEPT !.obj = "live", !.type = sess.type,
                                           !.gen = inst.cur.gen, !.req = sess.req]]
  <2>1. /\ names \in Updates /\ upd[names].phase = "pending" /\ upd[names].obj = "none"
        /\ \A u \in Updates \ {names} : upd'[u] = upd[u]
        /\ upd'[names].obj = "live" /\ upd'[names].phase = "pending"
    BY <1>1, <1>2, CreatedUpdates DEF OverlapInv, WaitInv
  <2>2. stack.cur.name = names
    BY <1>1 DEF OverlapInv, WaitInv, TrackInv, Tracks, SameStatus, Heading
  <2>3. \A u \in Updates : InFlight(u) => u = names
    BY <1>2, <2>2 DEF InFlight, OverlapInv, OnlyCurrentRuns, WaitInv, OnlyCurrentWaits, Waiting
  <2>4. \A u \in Updates : InFlight(u)' => u = names
    BY <2>1, <2>3 DEF InFlight
  <2>5. OnlyCurrentRuns'
    BY <1>1, <1>2, <2>1, <2>2, <2>4 DEF OnlyCurrentRuns, InFlight, Forgetting
  <2> QED
    BY <2>4, <2>5 DEF NoOverlappingUpdates
<1>3. CASE pc' = "save" /\ upd' = upd
  <2>1. names \in Updates /\ upd[names].phase = "pending"
    BY <1>1 DEF OverlapInv, WaitInv, TrackInv, IInv, FreshNames, Heading
  <2>2. OnlyCurrentRuns'
    BY <1>1, <1>3, <2>1 DEF OverlapInv, OnlyCurrentRuns
  <2>3. \A u \in Updates : InFlight(u)' => InFlight(u)
    BY <1>3 DEF InFlight
  <2> QED
    BY <2>2, <2>3, OverlapSame DEF OverlapInv
<1> QED
  BY <1>t, <1>2, <1>3, CreateEffect

LEMMA OverlapAddUpdateFinalizer ==
    ASSUME OverlapInv, HoldSucceeds, AddUpdateFinalizer
    PROVE  OnlyCurrentRuns' /\ NoOverlappingUpdates'
<1> USE DEF stackVars, worldVars
<1>t. TypeOK /\ \A u \in Updates : upd[u] \in UpdateObjects
  BY DEF OverlapInv, WaitInv, TrackInv, IInv, TypeOK
<1>1. /\ pc = "addUpdateFinalizer" /\ UNCHANGED <<stack, names, nsGone>>
      /\ names \in Updates /\ inst.cur.name = names /\ upd[names].obj # "none"
  BY <1>t, AddUpdateFinalizerEffect DEF OverlapInv, WaitInv, TrackInv, Tracks, IInv, FreshNames
<1>2. \/ /\ pc' = "idle" /\ upd' = Held(names)
      \/ /\ pc' = "save" /\ upd[names].obj # "live"
         /\ upd' = upd \/ upd' = MarkDeleted(names)
  BY <1>t, <1>1, AddUpdateFinalizerEffect DEF HoldSucceeds, Ends
<1>3. \A u \in Updates : /\ upd'[u].phase = upd[u].phase
                         /\ upd'[u].obj = upd[u].obj \/ (u = names /\ upd[u].obj # "live")
  <2>1. CASE upd' = Held(names)
    BY <1>t, <1>1, <2>1 DEF Held, TypeOK, UpdateObjects
  <2>2. CASE upd[names].obj # "live" /\ upd' = MarkDeleted(names)
    BY <1>t, <1>1, <2>2, KeptUpdates DEF Kept
  <2>3. CASE upd' = upd
    BY <2>3
  <2> QED
    BY <1>2, <2>1, <2>2, <2>3
<1>4. \A u \in Updates : InFlight(u)' => InFlight(u)
  <2>1. upd[names].obj # "live" => Complete(names) \/ nsGone
    BY <1>1 DEF OverlapInv, OnlyCurrentRuns
  <2>2. ASSUME NEW u \in Updates, upd'[u].phase = "pending", upd'[u].obj \in {"live", "deleting"}
        PROVE  upd[u].obj \in {"live", "deleting"}
    <3>1. CASE upd'[u].obj = upd[u].obj
      BY <2>2, <3>1
    <3>2. CASE u = names /\ upd[u].obj # "live"
      <4>1. upd[names].obj = "gone" \/ upd[names].obj = "deleting"
        BY <1>t, <1>1, <3>2 DEF UpdateObjects
      <4>2. ~upd[names].fin /\ upd[names].obj = "gone"
        BY <1>1, <4>1 DEF OverlapInv, WaitInv, FinShape
      <4>3. upd'[names].obj = "gone"
        <5>1. CASE upd' = upd
          BY <4>2, <5>1
        <5>2. CASE upd' = MarkDeleted(names)
          <6>1. upd'[names] = DeletedUpdate(upd[names])
            BY <1>t, <1>1, <5>2, KeptUpdates
          <6> QED
            BY <1>t, <1>1, <4>2, <6>1 DEF DeletedUpdate, UpdateObjects
        <5>3. CASE upd' = Held(names)
          BY <1>t, <1>1, <4>2, <5>3 DEF Held, TypeOK, UpdateObjects
        <5> QED
          BY <1>2, <5>1, <5>2, <5>3
      <4> QED
        BY <2>2, <3>2, <4>3
    <3> QED
      BY <1>3, <3>1, <3>2
  <2> QED
    BY <1>3, <2>2 DEF InFlight
<1>5. OnlyCurrentRuns'
  <2>1. \A u \in Updates : upd'[u].phase = "running" => u = stack'.cur.name \/ nsGone'
    BY <1>1, <1>3 DEF OverlapInv, OnlyCurrentRuns
  <2>2. Forgetting' => upd'[names'].phase # "running" \/ nsGone'
    BY <1>1, <1>2, <1>3 DEF OverlapInv, OnlyCurrentRuns, Forgetting, Complete
  <2> QED
    BY <1>2, <2>1, <2>2 DEF OnlyCurrentRuns
<1> QED
  BY <1>4, <1>5, OverlapSame DEF OverlapInv

LEMMA OverlapStep ==
    ASSUME ReadYourWrites, OverlapInv, HoldSucceeds, NotDeletedYet, [Next]_vars
    PROVE  OverlapInv'
<1>t. TypeOK /\ sess.toFin \in Names
  BY DEF OverlapInv, WaitInv, TrackInv, IInv, TypeOK, Sessions
<1>i. WaitInv' /\ (nsGone => nsGone')
  BY <1>t, WaitStep, NamespaceStaysGone DEF OverlapInv, WaitInv
<1>1. CASE Calm
  BY <1>i, <1>1, OverlapCalm DEF OverlapInv
<1>2. CASE Other
  <2>1. upd' = upd /\ stack'.cur.name = stack.cur.name
    BY <1>t, <1>2, OtherEffect DEF SameStatus
  <2>2. \A u \in Updates : InFlight(u)' => InFlight(u)
    BY <2>1 DEF InFlight
  <2>3. \/ UNCHANGED <<pc, names>> /\ sess'.after = sess.after
        \/ pc' # "addUpdateFinalizer" /\ ~Forgetting'
    BY <1>t, <1>2, OtherEffect
  <2>4. OnlyCurrentRuns'
    BY <1>i, <2>1, <2>3 DEF OverlapInv, OnlyCurrentRuns, Complete, Forgetting
  <2> QED
    BY <1>i, <2>2, <2>4, OverlapSame DEF OverlapInv
<1>3. CASE SaveStatus
  BY <1>i, <1>3, OverlapSave DEF OverlapInv
<1>4. CASE ReclaimWorkspace
  <2>1. /\ stack' = stack
        /\ upd' = Unfinalized(sess.toFin) \/ upd' = upd
        /\ pc' # "addUpdateFinalizer" /\ ~Forgetting'
    BY <1>t, <1>4, ReclaimEffect
       DEF OverlapInv, WaitInv, TrackInv, IInv, Justified, Forgetting, Ends, stackVars
  <2>2. \A u \in Updates : upd'[u].phase = upd[u].phase /\ (Waiting(u)' => Waiting(u))
    <3>1. CASE upd' = upd
      BY <3>1 DEF Waiting
    <3>2. CASE upd' = Unfinalized(sess.toFin)
      BY <1>t, <3>2, KeptUpdates, WaitRelease DEF Kept, OverlapInv
    <3> QED
      BY <2>1, <3>1, <3>2
  <2>3. \A u \in Updates : InFlight(u)' => InFlight(u)
    BY <2>2 DEF InFlight, Waiting
  <2>4. OnlyCurrentRuns'
    BY <1>i, <2>1, <2>2 DEF OverlapInv, OnlyCurrentRuns
  <2> QED
    BY <1>i, <2>3, <2>4, OverlapSame DEF OverlapInv
<1>5. CASE CreateUpdate
  BY <1>i, <1>5, OverlapCreate DEF OverlapInv
<1>6. CASE AddUpdateFinalizer
  BY <1>i, <1>6, OverlapAddUpdateFinalizer DEF OverlapInv
<1> QED
  BY <1>t, <1>1, <1>2, <1>3, <1>4, <1>5, <1>6, StepCases

LEMMA OverlapInit == Init => OverlapInv
<1> SUFFICES ASSUME Init PROVE OverlapInv
  OBVIOUS
<1>1. /\ pc = "idle"
      /\ \A u \in Updates : upd[u].phase = "pending" /\ upd[u].obj = "none"
  BY DEF Init, NoUpdate
<1>2. OnlyCurrentRuns /\ NoOverlappingUpdates
  BY <1>1 DEF OnlyCurrentRuns, NoOverlappingUpdates, InFlight, Forgetting
<1> QED
  BY <1>2, WaitInit DEF OverlapInv

\* The outstanding-update check of Reconcile keeps a Stack to one Update in flight, also
\* across restarts, failing calls, expiry, deletions and the termination of the namespace.
\* It does not when addUpdateFinalizer fails and the Update cannot be deleted, or when a
\* user deletes a running Update before it has its finalizer: the status forgets an
\* Update that runs.
THEOREM OneUpdateInFlight ==
    ASSUME ReadYourWrites
    PROVE  Spec /\ [][HoldSucceeds /\ NotDeletedYet]_vars => []NoOverlappingUpdates
<1>1. Init => OverlapInv
  BY OverlapInit
<1>2. OverlapInv /\ [Next]_vars /\ [HoldSucceeds /\ NotDeletedYet]_vars => OverlapInv'
  <2>1. ASSUME TypeOK, UNCHANGED vars  PROVE HoldSucceeds /\ NotDeletedYet
    BY <2>1 DEF TypeOK, vars, HoldSucceeds, NotDeletedYet, DeleteUpdate
  <2>2. OverlapInv => TypeOK
    BY DEF OverlapInv, WaitInv, TrackInv, IInv
  <2> QED
    BY <2>1, <2>2, OverlapStep
<1>3. OverlapInv => NoOverlappingUpdates
  BY DEF OverlapInv
<1> QED
  BY <1>1, <1>2, <1>3, PTL DEF Spec

-----------------------------------------------------------------------------
(* Every Update is recorded.                                               *)

\* The names in a record: the current Update is the newest, and comes after the last one.
NameOrder(o) ==
    /\ o.last.name <= names /\ o.cur.name <= names
    /\ o.cur.name # 0 => o.last.name < o.cur.name
    /\ o.last.name = 0 => o.last = NilLast
Ordered == NameOrder(stack) /\ NameOrder(inst)

\* No Update is forgotten: each one is the current one or precedes the last one whose
\* result was recorded, and nothing but the current one runs.
Recorded ==
    /\ ~Forgetting
    /\ \A u \in Updates : upd[u].obj # "none" => u <= stack.last.name \/ u = stack.cur.name
    /\ \A u \in Updates : upd[u].phase = "running" => u = stack.cur.name

RecordInv == WaitInv /\ Ordered /\ Recorded

\* The names are numbers.
LEMMA RecordTypes ==
    ASSUME TypeOK
    PROVE  /\ names \in Nat /\ stack.last.name \in Names /\ stack.cur.name \in Names
           /\ inst.last.name \in Names /\ inst.cur.name \in Names
           /\ Names \subseteq Nat /\ Updates \subseteq Nat /\ Updates = Names \ {0}
<1>1. Names \subseteq Nat /\ Updates \subseteq Nat /\ Updates = Names \ {0}
  BY BoundAssumption DEF Names, Updates
<1>2. names \in Nat
  BY BoundAssumption DEF TypeOK
<1>3. /\ stack.last.name \in Names /\ stack.cur.name \in Names
      /\ inst.last.name \in Names /\ inst.cur.name \in Names
  BY DEF TypeOK, Objects, LastUpdates, CurrentUpdates
<1> QED
  BY <1>1, <1>2, <1>3

\* What a record says of names outlives a new name.
LEMMA NameOrderSame ==
    ASSUME NEW o, NEW p, NameOrder(o), SameStatus(p, o), names' = names \/ names' = names + 1,
           names \in Nat, o.last.name \in Nat, o.cur.name \in Nat
    PROVE  /\ p.last.name <= names' /\ p.cur.name <= names'
           /\ p.cur.name # 0 => p.last.name < p.cur.name
           /\ p.last.name = 0 => p.last = NilLast
BY DEF NameOrder, SameStatus

LEMMA NewStackOrder ==
    ASSUME TypeOK', inst' = NewStack
    PROVE  NameOrder(inst)'
<1>1. names' \in Nat
  BY BoundAssumption DEF TypeOK
<1> QED
  BY <1>1 DEF NameOrder, NewStack, NilLast, NilCurrent

\* The status after a write: the local copy's.
LEMMA OrderedSave ==
    ASSUME TrackInv, TypeOK', Ordered, SaveStatus
    PROVE  Ordered'
<1>t. TypeOK /\ names \in Nat /\ inst.last.name \in Nat /\ inst.cur.name \in Nat
  BY RecordTypes DEF TrackInv, IInv
<1>1. names' = names /\ (UNCHANGED stack \/ SameStatus(stack', inst))
  BY SaveCases DEF Lost, Written
<1>2. NameOrder(stack)'
  BY <1>t, <1>1, NameOrderSame DEF Ordered, NameOrder
<1>3. inst' = NewStack \/ inst' = stack' \/ inst' = inst
  BY SaveCases DEF Lost, Written, Ends
<1> QED
  BY <1>1, <1>2, <1>3, NewStackOrder DEF Ordered, NameOrder

LEMMA OrderedDecision ==
    ASSUME TrackInv, TypeOK', Ordered, pc = "decide", UNCHANGED <<stack, names>>,
           \/ Ends
           \/ SameStatus(inst', inst)
           \/ Decides(Absorbed(inst))
    PROVE  Ordered'
<1>t. /\ TypeOK /\ names \in Nat /\ inst.last.name \in Nat /\ inst.cur.name \in Nat
      /\ Updates \subseteq Nat /\ 0 \notin Updates
  BY RecordTypes DEF TrackInv, IInv
<1>1. NameOrder(stack)'
  BY DEF Ordered, NameOrder
<1>2. CASE Ends
  BY <1>1, <1>2, NewStackOrder DEF Ordered, Ends
<1>3. CASE SameStatus(inst', inst)
  BY <1>t, <1>1, <1>3, NameOrderSame DEF Ordered, NameOrder
<1>4. CASE Decides(Absorbed(inst))
  <2> DEFINE d == Absorbed(inst)
  <2>1. SameStatus(inst', d) /\ ~Outstanding(inst.cur.name)
    BY <1>4 DEF Decides
  <2>2. /\ d.cur.name = 0
        /\ d = inst \/ (inst.cur.name \in Updates /\ d.last.name = inst.cur.name)
    BY <1>t, <2>1, AbsorbedRecord DEF TrackInv
  <2> HIDE DEF d
  <2>3. NameOrder(inst)'
    BY <1>t, <2>1, <2>2 DEF Ordered, NameOrder, SameStatus
  <2> QED
    BY <1>1, <2>3 DEF Ordered
<1> QED
  BY <1>2, <1>3, <1>4

LEMMA OrderedStep ==
    ASSUME ReadYourWrites, WaitInv, Ordered, TypeOK', [Next]_vars
    PROVE  Ordered'
<1> USE DEF stackVars, sessVars
<1>t. /\ TypeOK /\ names \in Nat /\ Names \subseteq Nat
      /\ stack.last.name \in Names /\ stack.cur.name \in Names
      /\ inst.last.name \in Names /\ inst.cur.name \in Names
  BY RecordTypes DEF WaitInv, TrackInv, IInv
<1>s. ASSUME SameStatus(stack', stack), names' = names \/ names' = names + 1
      PROVE  NameOrder(stack)'
  BY <1>t, <1>s, NameOrderSame DEF Ordered, NameOrder
<1>l. ASSUME SameStatus(inst', inst) \/ SameStatus(inst', stack) \/ inst' = NewStack,
             names' = names \/ names' = names + 1
      PROVE  NameOrder(inst)'
  BY <1>t, <1>l, NameOrderSame, NewStackOrder DEF Ordered, NameOrder
<1>1. CASE Calm
  BY <1>1, <1>s, <1>l DEF Calm, Ordered, SameStatus
<1>2. CASE (\E s \in Specs : EditSpec(s)) \/ RequestReconcile \/ DeleteStack
  BY <1>t, <1>2, <1>s, <1>l, UserEffect DEF Ordered, SameStatus
<1>3. CASE Crash
  BY <1>t, <1>3, <1>s, <1>l, CrashEffect DEF Ordered, SameStatus, Ends
<1>4. CASE Start
  BY <1>t, <1>4, <1>s, <1>l, StartEffect DEF Ordered, SameStatus
<1>5. CASE AddFinalizer
  BY <1>t, <1>5, <1>s, <1>l, AddFinalizerEffect DEF Ordered, SameStatus, Ends
<1>6. CASE \/ WaitForUpdate \/ ReadFails
           \/ ReleaseWithoutDestroy \/ StallOnSource \/ KeepSynced \/ AwaitPrereqs \/ BeginUpdate
  BY <1>t, <1>6, DecisionEffect, OrderedDecision DEF WaitInv
<1>7. CASE SaveStatus
  BY <1>t, <1>7, OrderedSave DEF WaitInv, TrackInv
<1>8. CASE ReclaimWorkspace
  BY <1>t, <1>8, <1>s, <1>l, ReclaimEffect DEF Ordered, SameStatus, Ends
<1>9. CASE ApplyWorkspace
  <2>1. stack' = stack /\ (names' = names \/ names' = names + 1)
    BY <1>t, <1>9, ApplyEffect DEF NamesUpdate
  <2>2. NameOrder(stack)'
    BY <1>s, <2>1 DEF SameStatus
  <2>3. CASE NamesUpdate
    <3>1. /\ names' = names + 1 /\ inst'.last = inst.last /\ inst'.cur.name = names + 1
      BY <2>3 DEF NamesUpdate
    <3>2. inst.last.name \in Nat /\ inst.last.name <= names /\ (inst.last.name = 0 => inst.last = NilLast)
      BY <1>t DEF Ordered, NameOrder
    <3>3. /\ inst'.last.name <= names' /\ inst'.cur.name <= names'
          /\ inst'.last.name < inst'.cur.name
      BY <1>t, <3>1, <3>2
    <3>4. NameOrder(inst)'
      BY <3>1, <3>2, <3>3 DEF NameOrder
    <3> QED
      BY <2>2, <3>4 DEF Ordered
  <2>4. CASE ~NamesUpdate
    <3>1. SameStatus(inst', inst) \/ inst' = NewStack
      BY <1>t, <1>9, <2>4, ApplyEffect DEF Ends, SameStatus
    <3> QED
      BY <1>l, <2>1, <2>2, <3>1 DEF Ordered
  <2> QED
    BY <2>3, <2>4
<1>10. CASE CreateUpdate \/ AddUpdateFinalizer
  <2>1. stack' = stack /\ names' = names
    BY <1>t, <1>10, CreateEffect, AddUpdateFinalizerEffect
  <2>2. \/ inst' = inst \/ inst' = NewStack
        \/ inst'.last = inst.last /\ inst'.cur = NilCurrent
    BY <1>t, <1>10, CreateEffect, AddUpdateFinalizerEffect DEF Ends
  <2>3. CASE inst' = inst \/ inst' = NewStack
    BY <1>s, <1>l, <2>1, <2>3 DEF Ordered, SameStatus
  <2>4. CASE inst'.last = inst.last /\ inst'.cur = NilCurrent
    <3>1. NameOrder(inst)'
      BY <1>t, <2>1, <2>4 DEF Ordered, NameOrder, NilCurrent
    <3> QED
      BY <1>s, <2>1, <3>1 DEF Ordered, SameStatus
  <2> QED
    BY <2>2, <2>3, <2>4
<1>11. CASE RemoveFinalizer
  BY <1>t, <1>11, <1>s, <1>l, RemoveFinalizerEffect DEF Ordered, SameStatus, Ends
<1> QED
  BY <1>t, <1>1, <1>2, <1>3, <1>4, <1>5, <1>6, <1>7, <1>8, <1>9, <1>10, <1>11, StepCases DEF Other

\* What a status write does to the record.
LEMMA RecordSave ==
    ASSUME RecordInv, SaveStatus
    PROVE  \/ SameStatus(stack', stack)
           \/ /\ SameStatus(stack', inst)
              /\ \/ Absorbs
                 \/ sess.after = "create" /\ inst.last = stack.last /\ stack.cur.name = 0
<1>1. pc = "save" /\ (SameStatus(stack', stack) \/ SameStatus(stack', inst))
  BY SaveCases DEF RecordInv, WaitInv, Written
<1>2. sess.after # "error"
  BY <1>1 DEF RecordInv, Recorded, Forgetting
<1> QED
  BY <1>1, <1>2 DEF RecordInv, WaitInv, TrackInv, Tracks, SameStatus

LEMMA RecordStep ==
    ASSUME ReadYourWrites, RecordInv, ~Forgetting', [Next]_vars
    PROVE  RecordInv'
<1> USE DEF stackVars, sessVars
<1>t. /\ TypeOK /\ sess.toFin \in Names /\ TrackInv /\ WaitInv
      /\ \A u \in Updates : upd[u] \in UpdateObjects
  BY DEF RecordInv, WaitInv, TrackInv, IInv, TypeOK, Sessions
<1>n. /\ Updates \subseteq Nat /\ Names \subseteq Nat /\ 0 \notin Updates
      /\ stack.last.name \in Names /\ stack.cur.name \in Names
  BY <1>t, RecordTypes
<1>w. WaitInv'
  BY <1>t, RemembersHolds, WaitStep
<1>o. Ordered'
  BY <1>t, <1>w, OrderedStep DEF RecordInv, WaitInv, TrackInv, IInv
<1>g. ASSUME SameStatus(stack', stack),
             \A u \in Updates : /\ upd'[u].obj = "none" <=> upd[u].obj = "none"
                                /\ upd'[u].phase = "running" => upd[u].phase = "running" \/ Waiting(u)
      PROVE  RecordInv'
  <2>1. stack'.last = stack.last /\ stack'.cur = stack.cur
    BY <1>g DEF SameStatus
  <2>2. Recorded
    BY DEF RecordInv
  <2>3. \A u \in Updates : Waiting(u) => u = stack.cur.name
    BY <1>t DEF WaitInv, OnlyCurrentWaits
  <2>4. \A u \in Updates : upd'[u].obj # "none" => u <= stack.last.name \/ u = stack.cur.name
    BY <1>g, <2>2 DEF Recorded
  <2>5. \A u \in Updates : upd'[u].phase = "running" => u = stack.cur.name
    BY <1>g, <2>2, <2>3 DEF Recorded
  <2> QED
    BY <1>w, <1>o, <2>1, <2>4, <2>5 DEF RecordInv, Recorded
<1>1. CASE Calm
  <2>1. UNCHANGED stack
    BY <1>1 DEF Calm
  <2> QED
    BY <1>t, <1>g, <1>1, <2>1, CalmUpdate DEF SameStatus
<1>2. CASE Other
  BY <1>t, <1>g, <1>2, OtherEffect
<1>3. CASE SaveStatus
  <2>1. \A u \in Updates : Kept(u)
    <3>1. PICK v \in Names : upd' = Unfinalized(v)
      BY <1>t, <1>3, SaveCases
    <3> QED
      BY <1>t, <3>1, KeptUpdates
  <2>2. CASE SameStatus(stack', stack)
    BY <1>g, <2>1, <2>2 DEF Kept
  <2>3. CASE SameStatus(stack', inst) /\ Absorbs
    <3>1. /\ stack'.last.name = stack.cur.name /\ stack.last.name < stack.cur.name
          /\ Complete(stack.cur.name)
      BY <1>n, <2>3 DEF Absorbs, SameStatus, RecordInv, Ordered, NameOrder
    <3>2. ASSUME NEW u \in Updates, upd[u].obj # "none"  PROVE u <= stack'.last.name
      <4>1. u <= stack.last.name \/ u = stack.cur.name
        BY <3>2 DEF RecordInv, Recorded
      <4>2. u \in Nat /\ stack.last.name \in Nat /\ stack.cur.name \in Nat
        BY <1>n
      <4> QED
        BY <3>1, <4>1, <4>2
    <3>3. \A u \in Updates : upd[u].phase # "running"
      BY <3>1 DEF RecordInv, Recorded, Complete
    <3> QED
      BY <1>w, <1>o, <2>1, <3>2, <3>3 DEF RecordInv, Recorded, Kept
  <2>4. CASE SameStatus(stack', inst) /\ inst.last = stack.last /\ stack.cur.name = 0
    <3>1. \A u \in Updates : upd[u].phase # "running" /\ (upd[u].obj # "none" => u <= stack'.last.name)
      BY <1>n, <2>4 DEF RecordInv, Recorded, SameStatus
    <3> QED
      BY <1>w, <1>o, <2>1, <3>1 DEF RecordInv, Recorded, Kept
  <2> QED
    BY <1>3, <2>2, <2>3, <2>4, RecordSave
<1>4. CASE ReclaimWorkspace
  <2>1. UNCHANGED stack /\ (upd' = Unfinalized(sess.toFin) \/ upd' = upd)
    BY <1>t, <1>4, ReclaimEffect
  <2>2. \A u \in Updates : Kept(u)
    BY <1>t, <2>1, KeptUpdates
  <2> QED
    BY <1>g, <2>1, <2>2 DEF Kept, SameStatus
<1>5. CASE CreateUpdate
  <2>1. /\ pc = "create" /\ UNCHANGED stack
        /\ upd' = [upd EXCEPT ![inst.cur.name] =
                       [NoUpdate EXCEPT !.obj = "live", !.type = sess.type,
                                        !.gen = inst.cur.gen, !.req = sess.req]]
    BY <1>t, <1>5, CreateEffect DEF Forgetting
  <2>2. /\ \A u \in Updates \ {names} : upd'[u] = upd[u]
        /\ upd'[names].obj = "live" /\ upd'[names].phase = "pending"
    BY <1>t, <2>1, CreatedUpdates
  <2>3. stack.cur.name = names
    BY <1>t, <2>1 DEF TrackInv, Tracks, SameStatus, Heading
  <2> QED
    BY <1>w, <1>o, <2>1, <2>2, <2>3 DEF RecordInv, Recorded
<1>6. CASE AddUpdateFinalizer
  <2>1. /\ UNCHANGED stack /\ inst.cur.name \in Updates /\ upd' = Held(inst.cur.name)
    BY <1>t, <1>6, AddUpdateFinalizerEffect DEF TrackInv, Tracks, Forgetting
  <2>2. \A u \in Updates : upd'[u].obj = upd[u].obj /\ upd'[u].phase = upd[u].phase
    BY <1>t, <2>1 DEF Held, TypeOK, UpdateObjects
  <2> QED
    BY <1>g, <2>1, <2>2 DEF SameStatus
<1> QED
  BY <1>t, <1>1, <1>2, <1>3, <1>4, <1>5, <1>6, StepCases

LEMMA RecordInit == Init => RecordInv
<1> SUFFICES ASSUME Init PROVE RecordInv
  OBVIOUS
<1>1. Ordered
  BY DEF Init, Ordered, NameOrder, NewStack, NilLast, NilCurrent
<1>2. Recorded
  BY DEF Init, Recorded, NoUpdate, Forgetting
<1> QED
  BY <1>1, <1>2, WaitInit DEF RecordInv

\* The step that changes CurrentUpdate is a status write, and it writes the result.
LEMMA RecordExchanged ==
    ASSUME ReadYourWrites, RecordInv, [Next]_vars, stack.cur.name # 0,
           stack'.cur.name # stack.cur.name
    PROVE  stack'.last.name = stack.cur.name
<1> USE DEF stackVars
<1>t. TypeOK
  BY DEF RecordInv, WaitInv, TrackInv, IInv
<1>1. SaveStatus
  BY <1>t, StepCases, OtherEffect, ReclaimEffect, CreateEffect, AddUpdateFinalizerEffect
     DEF Calm, SameStatus
<1> QED
  BY <1>1, RecordSave DEF Absorbs, SameStatus

\* CurrentUpdate is given up only in exchange for the result: the status write of
\* saveStatus that clears it records that Update as LastUpdate, whatever fails, restarts,
\* expires or is deleted.  The hypothesis excludes the one path on which Reconcile drops
\* an Update on purpose, after creating it or adding its finalizer has failed.
THEOREM ResultRecorded ==
    ASSUME ReadYourWrites
    PROVE  Spec /\ []~Forgetting => ResultAbsorbed
<1>1. Init => RecordInv
  BY RecordInit
<1>2. RecordInv /\ [Next]_vars /\ ~Forgetting' => RecordInv'
  BY RecordStep
<1>3. RecordInv /\ [Next]_vars =>
          [stack.cur.name # 0 /\ stack'.cur.name # stack.cur.name
              => stack'.last.name = stack.cur.name]_vars
  BY RecordExchanged
<1> QED
  BY <1>1, <1>2, <1>3, PTL DEF Spec, ResultAbsorbed

-----------------------------------------------------------------------------
(* Nothing is left behind.                                                 *)

NeverRun == \A u \in Updates : upd[u].obj = "none"

\* A destroy is created only by a reconcile that saw the deletion, and every later one
\* sees it too.
Marks ==
    /\ sess.marked => cache.deleting
    /\ Heading("create") => (sess.type = "destroy" <=> sess.marked)
    /\ \A v \in Updates : upd[v].type = "destroy" =>
                              cache.deleting /\ (pc # "idle" => sess.marked)

\* Once a destroy exists no up will start, and the destroy waits for one that runs.
Behind ==
    \A u, v \in Updates : upd[u].type = "up" /\ upd[v].type = "destroy" =>
        ~Waiting(u) /\ (upd[u].phase = "running" => upd[v].phase \notin {"running", "succeeded"})

CleanAfter == WasDestroyed \/ NeverRun => infra = {}

\* A Stack without the finalizer has run nothing.
Bare == stack.exists /\ ~stack.finalizer => NeverRun

Released ==
    /\ pc = "finalize" => WasDestroyed \/ NeverRun
    /\ ~stack.exists /\ finalSpecs \subseteq DestroyOnFinalize \ Preview => WasDestroyed \/ NeverRun

\* Why a Stack whose status has no LastUpdate may be finalized when its workspace has
\* stalled: either no workspace stalls, or LastUpdate tells what was run.
Witnessed == IF WorkspaceFaults = 0 THEN left.ws = 0 /\ ws.state # "stalled" ELSE RecordInv

OrphanInv == WaitInv /\ Marks /\ Behind /\ CleanAfter /\ Bare /\ Released /\ Witnessed

\* The steps of the reconciler change no Update but the one they create, but for its
\* finalizer and its deletion, and deploy nothing.
Inert == infra' = infra /\ \A u \in Updates : Kept(u) /\ (Waiting(u)' => Waiting(u))

LEMMA AddUpdateFinalizerInert ==
    ASSUME WaitInv, AddUpdateFinalizer
    PROVE  Inert
<1> USE DEF worldVars
<1>t. TypeOK /\ \A u \in Updates : upd[u] \in UpdateObjects
  BY DEF WaitInv, TrackInv, IInv, TypeOK
<1>1. /\ pc = "addUpdateFinalizer" /\ infra' = infra
      /\ names \in Updates /\ inst.cur.name = names /\ upd[names].obj # "none" /\ ~upd[names].fin
  BY <1>t, AddUpdateFinalizerEffect DEF WaitInv, TrackInv, Tracks, IInv, FreshNames, FinShape
<1>2. upd' = Held(names) \/ upd' = upd \/ upd' = MarkDeleted(names)
  BY <1>t, <1>1, AddUpdateFinalizerEffect
<1>3. CASE upd' = Held(names)
  <2>1. \A u \in Updates : Kept(u) /\ upd'[u].obj = upd[u].obj
    BY <1>t, <1>1, <1>3 DEF Held, TypeOK, UpdateObjects, Kept
  <2> QED
    BY <1>1, <2>1 DEF Inert, Kept, Waiting
<1>4. CASE upd' = upd
  BY <1>1, <1>4 DEF Inert, Kept, Waiting
<1>5. CASE upd' = MarkDeleted(names)
  <2>1. /\ \A u \in Updates : Kept(u)
        /\ \A u \in Updates \ {names} : upd'[u] = upd[u]
        /\ upd'[names] = DeletedUpdate(upd[names])
    BY <1>t, <1>1, <1>5, KeptUpdates
  <2>2. upd'[names].obj = "gone"
    BY <1>t, <1>1, <2>1 DEF DeletedUpdate, UpdateObjects
  <2> QED
    BY <1>1, <2>1, <2>2 DEF Inert, Kept, Waiting
<1> QED
  BY <1>2, <1>3, <1>4, <1>5

LEMMA InertSteps ==
    ASSUME ReadYourWrites, WaitInv,
           Other \/ SaveStatus \/ ReclaimWorkspace \/ AddUpdateFinalizer
    PROVE  Inert
<1> USE DEF worldVars
<1>t. TypeOK /\ sess.toFin \in Names
  BY DEF WaitInv, TrackInv, IInv, TypeOK, Sessions
<1>1. ASSUME infra' = infra, upd' = upd  PROVE Inert
  BY <1>1 DEF Inert, Kept, Waiting
<1>2. ASSUME infra' = infra, upd' = Unfinalized(sess.toFin)  PROVE Inert
  BY <1>t, <1>2, KeptUpdates, WaitRelease DEF Inert
<1>3. CASE Other
  BY <1>t, <1>1, <1>3, OtherEffect
<1>4. CASE SaveStatus
  BY <1>t, <1>1, <1>2, <1>4, SaveEffect
<1>5. CASE ReclaimWorkspace
  BY <1>t, <1>1, <1>2, <1>5, ReclaimEffect
<1> QED
  BY <1>3, <1>4, <1>5, AddUpdateFinalizerInert

\* What has been destroyed stays so, and what never ran is not run by such a step.
LEMMA DestroyedInert ==
    ASSUME Inert \/ (TypeOK /\ Calm)
    PROVE  /\ WasDestroyed => WasDestroyed'
           /\ NeverRun <=> NeverRun'
<1>1. \A u \in Updates : /\ upd'[u].type = upd[u].type
                         /\ upd'[u].obj = "none" <=> upd[u].obj = "none"
                         /\ upd[u].phase = "succeeded" => upd'[u].phase = "succeeded"
  BY CalmUpdate DEF Inert, Kept, Complete
<1> QED
  BY <1>1 DEF WasDestroyed, NeverRun

LEMMA CleanInert ==
    ASSUME Inert, Behind, CleanAfter
    PROVE  Behind' /\ CleanAfter'
<1>1. Behind'
  BY DEF Inert, Behind, Kept
<1>2. (WasDestroyed' => WasDestroyed) /\ (NeverRun' => NeverRun) /\ infra' = infra
  BY DEF Inert, Kept, WasDestroyed, NeverRun
<1> QED
  BY <1>1, <1>2 DEF CleanAfter

LEMMA CleanCalm ==
    ASSUME TypeOK, FreshNames, Calm, Behind, CleanAfter
    PROVE  Behind' /\ CleanAfter'
<1>1. Behind'
  <2> SUFFICES ASSUME NEW u \in Updates, NEW v \in Updates,
                      upd'[u].type = "up", upd'[v].type = "destroy"
               PROVE  /\ ~Waiting(u)'
                      /\ upd'[u].phase = "running" => upd'[v].phase \notin {"running", "succeeded"}
    BY DEF Behind
  <2>1. /\ upd[u].type = "up" /\ upd[v].type = "destroy" /\ ~Waiting(u) /\ ~Waiting(u)'
        /\ upd[u].phase = "running" => upd[v].phase \notin {"running", "succeeded"}
    BY CalmUpdate DEF Behind
  <2>2. upd'[u].phase = "running" => upd[u].phase = "running"
    BY <2>1, CalmUpdate
  <2>3. upd[u].phase = "running" /\ upd'[v].phase \in {"running", "succeeded"} =>
            upd[v].phase \in {"running", "succeeded"}
    BY CalmUpdate
  <2> QED
    BY <2>1, <2>2, <2>3
<1>2. CleanAfter'
  <2>0. NeverRun <=> NeverRun'
    BY DestroyedInert
  <2>1. CASE infra' = {}
    BY <2>1 DEF CleanAfter
  <2>2. CASE /\ infra' = infra
             /\ \A u \in Updates : upd'[u].phase = "succeeded" /\ upd[u].type = "destroy" =>
                                       upd[u].phase = "succeeded"
    <3>1. WasDestroyed' => WasDestroyed
      BY <2>2, CalmUpdate DEF WasDestroyed
    <3> QED
      BY <2>0, <2>2, <3>1 DEF CleanAfter
  <2>3. ASSUME NEW u \in Updates, upd[u].type = "up", upd[u].phase = "running",
               \A v \in Updates \ {u} : upd'[v] = upd[v]
        PROVE  ~WasDestroyed' /\ ~NeverRun'
    <3>1. ~NeverRun
      BY <2>3 DEF NeverRun, FreshNames
    <3>2. \A v \in Updates : upd[v].type = "destroy" => upd[v].phase # "succeeded"
      BY <2>3 DEF Behind
    <3>3. upd'[u].type = "up"
      BY <2>3, CalmUpdate
    <3> QED
      BY <2>0, <2>3, <3>1, <3>2, <3>3 DEF WasDestroyed
  <2> QED
    BY <2>1, <2>2, <2>3 DEF Calm, Deploys, CleanAfter
<1> QED
  BY <1>1, <1>2

LEMMA CleanCreate ==
    ASSUME OrphanInv, CreateUpdate
    PROVE  Behind' /\ CleanAfter'
<1> USE DEF worldVars
<1>t. TypeOK /\ TrackInv
  BY DEF OrphanInv, WaitInv, TrackInv, IInv
<1>1. pc = "create" /\ infra' = infra
  BY <1>t, CreateEffect
<1>2. CASE upd' = upd
  <2>1. Inert
    BY <1>1, <1>2 DEF Inert, Kept, Waiting
  <2> QED
    BY <2>1, CleanInert DEF OrphanInv
<1>3. CASE upd' = [upd EXCEPT ![inst.cur.name] =
                       [NoUpdate EXCEPT !.obj = "live", !.type = sess.type,
                                        !.gen = inst.cur.gen, !.req = sess.req]]
  <2>1. /\ names \in Updates /\ upd[names].obj = "none"
        /\ \A u \in Updates \ {names} : upd'[u] = upd[u]
        /\ upd'[names].obj = "live" /\ upd'[names].phase = "pending"
        /\ upd'[names].type = sess.type
    BY <1>t, <1>1, <1>3, CreatedUpdates
  <2>2. \A u \in Updates : ~Waiting(u)
    <3>1. stack.cur.name = names
      BY <1>1 DEF OrphanInv, WaitInv, TrackInv, Tracks, SameStatus, Heading
    <3> QED
      BY <2>1, <3>1 DEF OrphanInv, WaitInv, OnlyCurrentWaits, Waiting
  <2>3. sess.type = "up" => \A v \in Updates : upd[v].type # "destroy"
    BY <1>1 DEF OrphanInv, Marks, Heading
  <2>4. Behind'
    <3> SUFFICES ASSUME NEW u \in Updates, NEW v \in Updates,
                        upd'[u].type = "up", upd'[v].type = "destroy"
                 PROVE  /\ ~Waiting(u)'
                        /\ upd'[u].phase = "running" => upd'[v].phase \notin {"running", "succeeded"}
      BY DEF Behind
    <3>1. CASE u = names
      BY <2>1, <2>3, <3>1
    <3>2. CASE u # names /\ v = names
      BY <2>1, <2>2, <3>2 DEF Waiting
    <3>3. CASE u # names /\ v # names
      BY <2>1, <2>2, <3>3 DEF OrphanInv, Behind, Waiting
    <3> QED
      BY <3>1, <3>2, <3>3
  <2>5. ~NeverRun'
    BY <2>1 DEF NeverRun
  <2>6. WasDestroyed' => WasDestroyed
    BY <2>1 DEF WasDestroyed
  <2> QED
    BY <1>1, <2>4, <2>5, <2>6 DEF OrphanInv, CleanAfter
<1> QED
  BY <1>t, <1>2, <1>3, CreateEffect

LEMMA MarksStep ==
    ASSUME ReadYourWrites, WaitInv, Marks, [Next]_vars
    PROVE  Marks'
<1> USE DEF stackVars, sessVars, worldVars
<1>t. TypeOK /\ TrackInv /\ (sess.marked => stack.deleting) /\ (cache.deleting => stack.deleting)
  BY DEF WaitInv, TrackInv, IInv, FinalSpecs
<1>e. ASSUME Ends, cache' = cache \/ cache' = stack, \A v \in Updates : upd'[v].type = upd[v].type
      PROVE  Marks'
  BY <1>t, <1>e DEF Ends, Idle, Marks, Heading
<1>g. ASSUME cache' = cache, sess'.marked = sess.marked, pc # "idle" \/ pc' = "idle",
             \A v \in Updates : upd'[v].type = upd[v].type,
             \/ pc' # "create" /\ (pc' = "save" => sess'.after # "create")
             \/ Heading("create") /\ sess'.type = sess.type
      PROVE  Marks'
  BY <1>t, <1>g DEF Marks, Heading
<1>1. CASE Calm
  <2>1. /\ UNCHANGED <<pc, sess>> /\ (cache' = cache \/ cache' = stack)
        /\ \A v \in Updates : upd'[v].type = upd[v].type
    BY <1>t, <1>1, CalmUpdate DEF Calm
  <2> QED
    BY <1>t, <2>1 DEF Marks, Heading
<1>2. CASE (\E s \in Specs : EditSpec(s)) \/ RequestReconcile \/ DeleteStack
  <2>1. /\ UNCHANGED <<cache, pc, upd>> /\ sess'.marked = sess.marked
        /\ sess'.type = sess.type /\ sess'.after = sess.after
    BY <1>t, <1>2, UserEffect DEF SameSession
  <2> QED
    BY <2>1 DEF Marks, Heading
<1>3. CASE Crash
  BY <1>t, <1>3, <1>e, CrashEffect
<1>4. CASE Start
  <2>1. UNCHANGED <<cache, upd>>
    BY <1>t, <1>4, StartEffect
  <2>2. CASE UNCHANGED sessVars
    BY <2>1, <2>2 DEF Marks, Heading
  <2>3. CASE sess'.marked = cache.deleting /\ pc' \in {"decide", "addFinalizer"}
    BY <2>1, <2>3 DEF Marks, Heading
  <2> QED
    BY <1>t, <1>4, <2>2, <2>3, StartEffect
<1>5. CASE AddFinalizer
  <2>1. UNCHANGED <<cache, upd>> /\ pc = "addFinalizer"
    BY <1>t, <1>5, AddFinalizerEffect
  <2>2. Ends \/ (pc' = "decide" /\ sess' = sess)
    BY <1>t, <1>5, AddFinalizerEffect
  <2> QED
    BY <1>e, <1>g, <2>1, <2>2
<1>6. CASE \/ WaitForUpdate \/ ReadFails
           \/ ReleaseWithoutDestroy \/ StallOnSource \/ KeepSynced \/ AwaitPrereqs \/ BeginUpdate
  <2>1. UNCHANGED <<cache, upd>> /\ pc = "decide"
    BY <1>t, <1>6, DecisionEffect
  <2>2. \/ Ends
        \/ /\ sess'.marked = sess.marked /\ pc' \in {"save", "reclaim"}
           /\ sess'.after # "create"
    BY <1>t, <1>6, DecisionEffect DEF Decides, SameSession
  <2> QED
    BY <1>e, <1>g, <2>1, <2>2
<1>7. CASE SaveStatus
  <2>1. cache' = cache /\ pc = "save" /\ \A v \in Updates : upd'[v].type = upd[v].type
    BY <1>t, <1>7, SaveEffect, InertSteps DEF Inert, Kept
  <2>2. \/ Ends
        \/ /\ sess'.marked = sess.marked /\ sess'.type = sess.type
           /\ pc' = sess.after /\ pc' \in {"release", "finalize", "apply", "create"}
        \/ pc' = "finalize" /\ sess' = sess
    BY <1>t, <1>7, SaveCases DEF Lost, Written, SameSession
  <2> QED
    BY <1>e, <1>g, <2>1, <2>2 DEF Heading
<1>8. CASE ReclaimWorkspace
  <2>1. cache' = cache /\ pc = "reclaim" /\ \A v \in Updates : upd'[v].type = upd[v].type
    BY <1>t, <1>8, ReclaimEffect, InertSteps DEF Inert, Kept
  <2>2. Ends \/ (pc' = "save" /\ sess'.after # "create" /\ sess'.marked = sess.marked)
    BY <1>t, <1>8, <2>1, ReclaimEffect DEF SameSession, TrackInv, IInv, Justified
  <2> QED
    BY <1>e, <1>g, <2>1, <2>2
<1>9. CASE ApplyWorkspace
  <2>1. UNCHANGED <<cache, upd>> /\ pc = "apply"
    BY <1>t, <1>9, ApplyEffect
  <2>2. CASE NamesUpdate
    <3>1. sess'.type = NextType /\ sess'.marked = sess.marked /\ pc' = "save" /\ sess'.after = "create"
      BY <2>2 DEF NamesUpdate, SameSession
    <3>2. NextType = "destroy" <=> sess.marked
      BY DEF NextType
    <3> QED
      BY <2>1, <3>1, <3>2 DEF Marks, Heading
  <2>3. CASE ~NamesUpdate
    <3>1. \/ Ends
          \/ pc' = "save" /\ sess'.after # "create" /\ sess'.marked = sess.marked
          \/ pc' = "finalize" /\ sess' = sess
      BY <1>t, <1>9, <2>3, ApplyEffect DEF SameSession
    <3> QED
      BY <1>e, <1>g, <2>1, <3>1
  <2> QED
    BY <2>2, <2>3
<1>10. CASE CreateUpdate
  <2>1. cache' = cache /\ pc = "create"
    BY <1>t, <1>10, CreateEffect
  <2>2. CASE /\ pc' = "addUpdateFinalizer" /\ sess' = sess
             /\ upd' = [upd EXCEPT ![inst.cur.name] =
                            [NoUpdate EXCEPT !.obj = "live", !.type = sess.type,
                                             !.gen = inst.cur.gen, !.req = sess.req]]
    <3>1. /\ \A u \in Updates \ {names} : upd'[u] = upd[u]
          /\ upd'[names].type = sess.type
      BY <1>t, <2>1, <2>2, CreatedUpdates
    <3> QED
      BY <2>1, <2>2, <3>1 DEF Marks, Heading
  <2>3. CASE /\ pc' = "save" /\ sess'.after = "error" /\ upd' = upd /\ sess'.marked = sess.marked
    BY <1>g, <2>1, <2>3
  <2> QED
    BY <1>t, <1>10, <2>2, <2>3, CreateEffect DEF SameSession
<1>11. CASE AddUpdateFinalizer
  <2>1. /\ cache' = cache /\ pc = "addUpdateFinalizer"
        /\ \A v \in Updates : upd'[v].type = upd[v].type
    BY <1>t, <1>11, AddUpdateFinalizerEffect, InertSteps DEF Inert, Kept
  <2>2. Ends \/ (pc' = "save" /\ sess'.after = "error" /\ sess'.marked = sess.marked)
    BY <1>t, <1>11, AddUpdateFinalizerEffect DEF SameSession
  <2> QED
    BY <1>e, <1>g, <2>1, <2>2
<1>12. CASE RemoveFinalizer
  BY <1>t, <1>12, <1>e, RemoveFinalizerEffect
<1> QED
  BY <1>t, <1>1, <1>2, <1>3, <1>4, <1>5, <1>6, <1>7, <1>8, <1>9, <1>10, <1>11, <1>12, StepCases
     DEF Other

LEMMA WitnessedStep ==
    ASSUME ReadYourWrites, WaitInv, Witnessed, [Next]_vars,
           WorkspaceFaults # 0 => ~Forgetting'
    PROVE  Witnessed'
<1> USE DEF stackVars, sessVars, worldVars
<1>t. TypeOK
  BY DEF WaitInv, TrackInv, IInv
<1>1. CASE WorkspaceFaults # 0
  BY <1>1, RecordStep DEF Witnessed
<1>2. CASE WorkspaceFaults = 0
  <2>1. ws.state # "stalled" /\ left.ws = 0
    BY <1>2 DEF Witnessed
  <2>2. ws'.state # "stalled"
    <3>1. CASE Calm
      BY <1>t, <2>1, <3>1 DEF Calm, TypeOK
    <3>2. CASE ReclaimWorkspace
      BY <1>t, <2>1, <3>2, ReclaimEffect
    <3>3. CASE ApplyWorkspace
      BY <1>t, <2>1, <3>3, ApplyEffect
    <3>4. CASE \/ Other /\ ~ApplyWorkspace
               \/ SaveStatus \/ CreateUpdate \/ AddUpdateFinalizer
      <4>1. ws' = ws
        BY <1>t, <3>4, UserEffect, CrashEffect, StartEffect, AddFinalizerEffect, DecisionEffect,
           RemoveFinalizerEffect, SaveEffect, CreateEffect, AddUpdateFinalizerEffect DEF Other
      <4> QED
        BY <2>1, <4>1
    <3> QED
      BY <1>t, <3>1, <3>2, <3>3, <3>4, StepCases
  <2>3. left'.ws = 0
    BY <1>t, <2>1, Spending
  <2> QED
    BY <1>2, <2>2, <2>3 DEF Witnessed
<1> QED
  BY <1>1, <1>2

\* A Stack with no LastUpdate and no CurrentUpdate has run nothing.
LEMMA UnrecordedNeverRun ==
    ASSUME RecordInv, stack.last = NilLast, stack.cur.name = 0
    PROVE  NeverRun
<1>t. TypeOK
  BY DEF RecordInv, WaitInv, TrackInv, IInv
<1>1. \A u \in Updates : u \in Nat /\ u # 0
  BY <1>t, RecordTypes
<1>2. stack.last.name = 0
  BY DEF NilLast
<1> QED
  BY <1>1, <1>2 DEF RecordInv, Recorded, NeverRun

\* The reconcile gives up the finalizer only of a destroyed Stack, or of one that has
\* run nothing.
LEMMA FinalizeStep ==
    ASSUME ReadYourWrites, OrphanInv, [Next]_vars, pc' = "finalize"
    PROVE  WasDestroyed' \/ NeverRun'
<1> USE DEF stackVars, sessVars, worldVars
<1>t. TypeOK /\ WaitInv
  BY DEF OrphanInv, WaitInv, TrackInv, IInv
<1>1. CASE Calm
  BY <1>t, <1>1, DestroyedInert DEF Calm, OrphanInv, Released
<1>2. CASE Other
  <2>1. Inert
    BY <1>t, <1>2, InertSteps
  <2>2. CASE pc = "finalize"
    BY <2>1, <2>2, DestroyedInert DEF OrphanInv, Released
  <2>3. CASE pc # "finalize"
    <3>1. ~Crash /\ ~RemoveFinalizer /\ ~Start /\ ~AddFinalizer
      BY <1>t, <2>3, CrashEffect, RemoveFinalizerEffect, StartEffect, AddFinalizerEffect DEF Ends
    <3>2. ~((\E s \in Specs : EditSpec(s)) \/ RequestReconcile \/ DeleteStack)
      BY <1>t, <2>3, UserEffect
    <3>3. ~ \/ WaitForUpdate \/ ReadFails
            \/ ReleaseWithoutDestroy \/ StallOnSource \/ KeepSynced \/ AwaitPrereqs \/ BeginUpdate
      BY <1>t, DecisionEffect DEF Ends, Decides
    <3>4. ApplyWorkspace
      BY <1>2, <3>1, <3>2, <3>3 DEF Other
    <3>5. pc = "apply" /\ ws.state = "stalled" /\ inst.last = NilLast
      BY <1>t, <3>4, ApplyEffect DEF Ends, NamesUpdate
    <3>6. stack.last = NilLast /\ stack.cur.name = 0
      BY <1>t, <3>5 DEF WaitInv, TrackInv, Tracks, SameStatus, Heading
    <3>7. NeverRun
      BY <3>5, <3>6, UnrecordedNeverRun DEF OrphanInv, Witnessed
    <3> QED
      BY <2>1, <3>7, DestroyedInert
  <2> QED
    BY <2>2, <2>3
<1>3. CASE SaveStatus
  <2>1. pc = "save" /\ sess.after = "finalize"
    BY <1>t, <1>3, SaveCases DEF WaitInv, Lost, Written, Ends
  <2>2. WasDestroyed
    BY <1>t, <2>1 DEF WaitInv, TrackInv, IInv, Justified
  <2> QED
    BY <1>t, <1>3, <2>2, InertSteps, DestroyedInert
<1>4. ~ReclaimWorkspace /\ ~CreateUpdate /\ ~AddUpdateFinalizer
  BY <1>t, ReclaimEffect, CreateEffect, AddUpdateFinalizerEffect DEF Ends
<1> QED
  BY <1>t, <1>1, <1>2, <1>3, <1>4, StepCases

LEMMA ReleaseStep ==
    ASSUME ReadYourWrites, OrphanInv, [Next]_vars
    PROVE  Bare' /\ Released'
<1> USE DEF stackVars, sessVars, worldVars
<1>t. TypeOK /\ WaitInv
  BY DEF OrphanInv, WaitInv, TrackInv, IInv
<1>k. pc' = "finalize" => WasDestroyed' \/ NeverRun'
  BY FinalizeStep
<1>g. ASSUME WasDestroyed => WasDestroyed', NeverRun <=> NeverRun', stack'.exists = stack.exists,
             stack'.finalizer = stack.finalizer \/ stack'.finalizer, finalSpecs' = finalSpecs \/ stack.exists
      PROVE  Bare' /\ Released'
  BY <1>k, <1>g DEF OrphanInv, Bare, Released
<1>1. CASE Calm
  BY <1>t, <1>g, <1>1, DestroyedInert DEF Calm
<1>2. CASE (\E s \in Specs : EditSpec(s)) \/ RequestReconcile \/ DeleteStack
  <2>1. /\ stack.exists /\ stack'.finalizer = stack.finalizer
        /\ stack'.exists \/ stack'.exists = stack.finalizer
    BY <1>t, <1>2, UserEffect
  <2>2. Inert
    BY <1>t, <1>2, InertSteps DEF Other
  <2>3. CASE stack'.exists
    BY <1>k, <2>1, <2>2, <2>3, DestroyedInert DEF OrphanInv, Bare, Released
  <2>4. CASE ~stack'.exists
    <3>1. NeverRun
      BY <2>1, <2>4 DEF OrphanInv, Bare
    <3> QED
      BY <1>k, <2>2, <2>4, <3>1, DestroyedInert DEF Bare, Released
  <2> QED
    BY <2>3, <2>4
<1>3. CASE RemoveFinalizer
  <2>1. UNCHANGED <<finalSpecs, upd>> /\ pc \in {"release", "finalize"} /\ pc' = "idle"
    BY <1>t, <1>3, RemoveFinalizerEffect DEF Ends
  <2>2. Inert
    BY <1>t, <1>3, InertSteps DEF Other
  <2>3. CASE UNCHANGED stack
    BY <1>g, <2>1, <2>2, <2>3, DestroyedInert
  <2>4. CASE ~stack'.exists
    <3>1. finalSpecs \subseteq DestroyOnFinalize \ Preview => pc = "finalize"
      BY <1>t, <2>1 DEF WaitInv, TrackInv, IInv, Justified, Heading, FinalSpecs
    <3>2. finalSpecs \subseteq DestroyOnFinalize \ Preview => WasDestroyed \/ NeverRun
      BY <3>1 DEF OrphanInv, Released
    <3> QED
      BY <1>k, <2>1, <2>2, <2>4, <3>2, DestroyedInert DEF Bare, Released
  <2> QED
    BY <1>t, <1>3, <2>3, <2>4, RemoveFinalizerEffect
<1>4. CASE AddFinalizer
  <2>1. UNCHANGED finalSpecs /\ (UNCHANGED stack \/ (stack'.exists /\ stack'.finalizer))
    BY <1>t, <1>4, AddFinalizerEffect
  <2>2. Inert
    BY <1>t, <1>4, InertSteps DEF Other
  <2> QED
    BY <1>k, <2>1, <2>2, DestroyedInert DEF OrphanInv, Bare, Released
<1>5. CASE Other /\ ~(\/ (\E s \in Specs : EditSpec(s)) \/ RequestReconcile \/ DeleteStack
                      \/ RemoveFinalizer \/ AddFinalizer)
  <2>1. UNCHANGED stackVars
    BY <1>t, <1>5, CrashEffect, StartEffect, DecisionEffect, ApplyEffect DEF Other
  <2> QED
    BY <1>t, <1>g, <1>5, <2>1, InertSteps, DestroyedInert
<1>6. CASE SaveStatus \/ ReclaimWorkspace \/ AddUpdateFinalizer
  <2>1. /\ stack'.exists = stack.exists /\ stack'.finalizer = stack.finalizer
        /\ finalSpecs' = finalSpecs
    BY <1>t, <1>6, SaveEffect, ReclaimEffect, AddUpdateFinalizerEffect DEF SameMeta
  <2> QED
    BY <1>t, <1>g, <1>6, <2>1, InertSteps, DestroyedInert
<1>7. CASE CreateUpdate
  <2>1. UNCHANGED stack /\ pc = "create"
    BY <1>t, <1>7, CreateEffect
  <2>2. stack.exists /\ stack.finalizer
    BY <1>t, <2>1 DEF WaitInv, TrackInv, Present
  <2> QED
    BY <1>k, <2>1, <2>2 DEF Bare, Released
<1> QED
  BY <1>t, <1>1, <1>2, <1>3, <1>4, <1>5, <1>6, <1>7, StepCases

LEMMA OrphanStep ==
    ASSUME ReadYourWrites, OrphanInv, HoldSucceeds, [Next]_vars,
           WorkspaceFaults # 0 => ~Forgetting'
    PROVE  OrphanInv'
<1>t. TypeOK /\ FreshNames
  BY DEF OrphanInv, WaitInv, TrackInv, IInv
<1>1. WaitInv' /\ Marks' /\ Witnessed'
  BY WaitStep, MarksStep, WitnessedStep DEF OrphanInv
<1>2. Bare' /\ Released'
  BY ReleaseStep
<1>3. Behind' /\ CleanAfter'
  <2>1. CASE Calm
    BY <1>t, <2>1, CleanCalm DEF OrphanInv
  <2>2. CASE CreateUpdate
    BY <2>2, CleanCreate
  <2>3. CASE Other \/ SaveStatus \/ ReclaimWorkspace \/ AddUpdateFinalizer
    BY <2>3, InertSteps, CleanInert DEF OrphanInv
  <2> QED
    BY <1>t, <2>1, <2>2, <2>3, StepCases
<1> QED
  BY <1>1, <1>2, <1>3 DEF OrphanInv

\* Once a Stack with destroyOnFinalize is gone, nothing that its Updates deployed is left
\* behind: the destroy that Reconcile waited for came after everything else the Stack ran,
\* whatever is edited, requested, retried, lost or restarted on the way.  Both parts exclude
\* that the Stack forgets an Update that goes on to run.  The second part excludes also
\* that it forgets one that never ran, since a workspace that stalls makes Reconcile
\* finalize a Stack without a LastUpdate.
THEOREM NothingLeftBehind ==
    ASSUME ReadYourWrites
    PROVE  /\ WorkspaceFaults = 0 => (Spec /\ [][HoldSucceeds]_vars => []NoOrphanedResources)
           /\ Spec /\ []~Forgetting => []NoOrphanedResources
<1>1. Init => OrphanInv
  <2> SUFFICES ASSUME Init PROVE OrphanInv
    OBVIOUS
  <2>1. /\ pc = "idle" /\ stack.exists /\ infra = {} /\ ~sess.marked /\ ws.state = "absent"
        /\ left.ws = WorkspaceFaults
        /\ \A u \in Updates : upd[u].obj = "none" /\ upd[u].type = "none"
    BY DEF Init, NoUpdate, NewStack, Idle
  <2>2. Marks /\ Behind
    BY <2>1 DEF Marks, Behind, Heading
  <2>3. CleanAfter /\ Bare /\ Released
    BY <2>1 DEF CleanAfter, Bare, Released, NeverRun
  <2>4. Witnessed
    BY <2>1, RecordInit DEF Witnessed
  <2> QED
    BY <2>2, <2>3, <2>4, WaitInit DEF OrphanInv
<1>2. OrphanInv => TypeOK /\ NoOrphanedResources
  BY DEF OrphanInv, WaitInv, TrackInv, IInv, Released, CleanAfter, NoOrphanedResources
<1>3. ASSUME WorkspaceFaults = 0
      PROVE  Spec /\ [][HoldSucceeds]_vars => []NoOrphanedResources
  <2>1. OrphanInv /\ [Next]_vars /\ [HoldSucceeds]_vars => OrphanInv'
    <3> SUFFICES ASSUME OrphanInv, [Next]_vars, [HoldSucceeds]_vars  PROVE OrphanInv'
      OBVIOUS
    <3>1. HoldSucceeds
      BY DEF HoldSucceeds, vars
    <3> QED
      BY <1>3, <3>1, OrphanStep
  <2> QED
    BY <1>1, <1>2, <2>1, PTL DEF Spec
<1>4. Spec /\ []~Forgetting => []NoOrphanedResources
  <2>1. OrphanInv /\ [Next]_vars /\ ~Forgetting' => OrphanInv'
    BY <1>2, RemembersHolds, OrphanStep
  <2> QED
    BY <1>1, <1>2, <2>1, PTL DEF Spec
<1> QED
  BY <1>3, <1>4

-----------------------------------------------------------------------------
(* Failing Updates are counted.                                            *)

\* A record is of generations that the object has had, and copies are not newer than
\* the object.
GenOrder(o) == o.last.gen <= o.gen /\ o.cur.gen <= o.gen
GenOrders ==
    /\ GenOrder(stack) /\ GenOrder(cache) /\ GenOrder(inst)
    /\ cache.gen <= stack.gen /\ inst.gen <= stack.gen /\ 1 <= stack.gen

\* The request that a reconcile works on.
Requested ==
    /\ pc \in {"addFinalizer", "decide"} => inst.req = sess.req
    /\ Heading("create") => inst.cur.req = sess.req

\* A record as good as another, of an object that is not older.
LEMMA GenOrderSame ==
    ASSUME NEW o \in Objects, NEW p \in Objects, GenOrder(o), SameStatus(p, o), o.gen <= p.gen
    PROVE  GenOrder(p)
<1>1. /\ o.gen \in Nat /\ p.gen \in Nat /\ o.last.gen \in Nat /\ o.cur.gen \in Nat
  BY DEF Objects, LastUpdates, CurrentUpdates
<1> QED
  BY <1>1 DEF GenOrder, SameStatus

LEMMA GenOrdersStep ==
    ASSUME ReadYourWrites, WaitInv, GenOrders, TypeOK', [Next]_vars
    PROVE  GenOrders'
<1> USE DEF stackVars, sessVars, worldVars
<1>t. /\ TypeOK /\ stack \in Objects /\ cache \in Objects /\ inst \in Objects
      /\ stack' \in Objects /\ cache' \in Objects /\ inst' \in Objects
  BY DEF WaitInv, TrackInv, IInv, TypeOK
<1>n. /\ stack.gen \in Nat /\ cache.gen \in Nat /\ inst.gen \in Nat
      /\ stack'.gen \in Nat /\ cache'.gen \in Nat /\ inst'.gen \in Nat
  BY <1>t DEF Objects
<1>k. NewStack.gen = 1 /\ GenOrder(NewStack)
  BY DEF NewStack, GenOrder, NilLast, NilCurrent
<1>s. ASSUME SameStatus(stack', stack), stack.gen <= stack'.gen,
             cache' = cache \/ cache' = stack,
             inst' = NewStack \/ (GenOrder(inst)' /\ inst'.gen <= stack'.gen)
      PROVE  GenOrders'
  <2>1. GenOrder(stack)'
    BY <1>t, <1>s, GenOrderSame DEF GenOrders, GenOrder
  <2>2. GenOrder(cache)'
    BY <1>s DEF GenOrders, GenOrder
  <2>3. cache'.gen <= stack'.gen /\ 1 <= stack'.gen
    BY <1>n, <1>s DEF GenOrders
  <2>4. GenOrder(inst)' /\ inst'.gen <= stack'.gen
    BY <1>k, <1>s, <2>3 DEF GenOrder
  <2> QED
    BY <2>1, <2>2, <2>3, <2>4 DEF GenOrders
<1>l. ASSUME inst'.gen = inst.gen, SameStatus(inst', inst), stack.gen <= stack'.gen
      PROVE  GenOrder(inst)' /\ inst'.gen <= stack'.gen
  BY <1>n, <1>l DEF GenOrders, GenOrder, SameStatus
<1>1. CASE Calm
  BY <1>n, <1>s, <1>l, <1>1 DEF Calm, SameStatus
<1>2. CASE (\E s \in Specs : EditSpec(s)) \/ RequestReconcile \/ DeleteStack
  BY <1>t, <1>s, <1>l, <1>2, UserEffect DEF SameStatus
<1>3. CASE Crash
  BY <1>t, <1>n, <1>s, <1>3, CrashEffect DEF SameStatus, Ends
<1>4. CASE Start
  <2>1. UNCHANGED <<stack, cache>>
    BY <1>t, <1>4, StartEffect
  <2>2. CASE UNCHANGED sessVars
    BY <1>n, <1>s, <1>l, <2>1, <2>2 DEF SameStatus
  <2>3. CASE SameStatus(inst', cache) /\ inst'.gen = cache.gen
    <3>1. GenOrder(inst)' /\ inst'.gen <= stack'.gen
      BY <2>1, <2>3 DEF GenOrders, GenOrder, SameStatus
    <3> QED
      BY <1>n, <1>s, <2>1, <3>1 DEF SameStatus
  <2> QED
    BY <1>t, <1>4, <2>2, <2>3, StartEffect
<1>5. CASE AddFinalizer
  <2>1. cache' = cache /\ SameStatus(stack', stack) /\ stack'.gen = stack.gen
    BY <1>t, <1>5, AddFinalizerEffect DEF SameStatus
  <2>2. inst' = NewStack \/ (SameStatus(inst', inst) /\ inst'.gen = inst.gen)
    BY <1>t, <1>5, AddFinalizerEffect DEF Ends
  <2> QED
    BY <1>n, <1>s, <1>l, <2>1, <2>2
<1>6. CASE \/ WaitForUpdate \/ ReadFails
           \/ ReleaseWithoutDestroy \/ StallOnSource \/ KeepSynced \/ AwaitPrereqs \/ BeginUpdate
  <2>1. UNCHANGED <<stack, cache>> /\ pc = "decide"
    BY <1>t, <1>6, DecisionEffect
  <2>2. CASE inst' = NewStack \/ (SameStatus(inst', inst) /\ inst'.gen = inst.gen)
    BY <1>n, <1>s, <1>l, <2>1, <2>2 DEF SameStatus
  <2>3. CASE Decides(Absorbed(inst))
    <3> DEFINE d == Absorbed(inst)
    <3>1. SameStatus(inst', d) /\ inst'.gen = d.gen /\ ~Outstanding(inst.cur.name)
      BY <2>3 DEF Decides
    <3>2. /\ d.gen = inst.gen
          /\ d = inst \/ (d.last.gen = inst.cur.gen /\ d.cur = NilCurrent)
      BY <1>t, <2>1, <3>1, AbsorbedRecord DEF WaitInv, TrackInv, SameMeta
    <3> HIDE DEF d
    <3>3. GenOrder(inst)' /\ inst'.gen <= stack'.gen
      BY <1>n, <2>1, <3>1, <3>2 DEF GenOrders, GenOrder, SameStatus, NilCurrent
    <3> QED
      BY <1>n, <1>s, <2>1, <3>3 DEF SameStatus
  <2> QED
    BY <1>t, <1>6, <2>2, <2>3, DecisionEffect DEF Ends
<1>7. CASE SaveStatus
  <2>1. /\ cache' = cache /\ stack'.gen = stack.gen
        /\ SameStatus(stack', stack) \/ SameStatus(stack', inst)
    BY <1>7, SaveCases DEF WaitInv, Written, SameMeta
  <2>2. inst' \in {NewStack, stack', inst}
    BY <1>7, SaveCases DEF WaitInv, Lost, Written, Ends
  <2>3. GenOrder(stack)'
    BY <1>t, <2>1, GenOrderSame DEF GenOrders, GenOrder, SameStatus
  <2>4. GenOrder(inst)' /\ inst'.gen <= stack'.gen
    BY <1>n, <1>k, <2>1, <2>2, <2>3 DEF GenOrders, GenOrder
  <2>5. GenOrder(cache)'
    BY <2>1 DEF GenOrders, GenOrder
  <2> QED
    BY <2>1, <2>3, <2>4, <2>5 DEF GenOrders
<1>8. CASE ReclaimWorkspace
  BY <1>t, <1>n, <1>s, <1>l, <1>8, ReclaimEffect DEF SameStatus, Ends
<1>9. CASE ApplyWorkspace
  <2>1. UNCHANGED <<stack, cache>>
    BY <1>t, <1>9, ApplyEffect
  <2>2. CASE NamesUpdate
    <3>1. inst'.last = inst.last /\ inst'.gen = inst.gen /\ inst'.cur.gen = inst.gen
      BY <2>2 DEF NamesUpdate
    <3>2. GenOrder(inst)' /\ inst'.gen <= stack'.gen
      BY <1>n, <2>1, <3>1 DEF GenOrders, GenOrder
    <3> QED
      BY <1>n, <1>s, <2>1, <3>2 DEF SameStatus
  <2>3. CASE inst' = NewStack \/ (SameStatus(inst', inst) /\ inst'.gen = inst.gen)
    BY <1>n, <1>s, <1>l, <2>1, <2>3 DEF SameStatus
  <2> QED
    BY <1>t, <1>9, <2>2, <2>3, ApplyEffect DEF Ends, SameStatus
<1>10. CASE CreateUpdate \/ AddUpdateFinalizer
  <2>1. UNCHANGED <<stack, cache>>
    BY <1>t, <1>10, CreateEffect, AddUpdateFinalizerEffect
  <2>2. CASE inst' = inst \/ inst' = NewStack
    BY <1>n, <1>s, <1>l, <2>1, <2>2 DEF SameStatus
  <2>3. CASE inst'.last = inst.last /\ inst'.cur = NilCurrent /\ inst'.gen = inst.gen
    <3>1. GenOrder(inst)' /\ inst'.gen <= stack'.gen
      BY <1>n, <2>1, <2>3 DEF GenOrders, GenOrder, NilCurrent
    <3> QED
      BY <1>n, <1>s, <2>1, <3>1 DEF SameStatus
  <2> QED
    BY <1>t, <1>10, <2>2, <2>3, CreateEffect, AddUpdateFinalizerEffect DEF Ends
<1>11. CASE RemoveFinalizer
  <2>1. cache' = cache /\ SameStatus(stack', stack) /\ stack'.gen = stack.gen /\ inst' = NewStack
    BY <1>t, <1>11, RemoveFinalizerEffect DEF Ends, SameStatus
  <2> QED
    BY <1>n, <1>s, <2>1
<1> QED
  BY <1>t, <1>1, <1>2, <1>3, <1>4, <1>5, <1>6, <1>7, <1>8, <1>9, <1>10, <1>11, StepCases DEF Other

LEMMA RequestedStep ==
    ASSUME ReadYourWrites, WaitInv, Requested, [Next]_vars
    PROVE  Requested'
<1> USE DEF stackVars, sessVars, worldVars
<1>t. TypeOK
  BY DEF WaitInv, TrackInv, IInv
<1>g. ASSUME pc' \notin {"addFinalizer", "decide", "create"}, pc' = "save" => sess'.after # "create"
      PROVE  Requested'
  BY <1>g DEF Requested, Heading
<1>1. CASE Calm
  BY <1>1 DEF Calm, Requested, Heading
<1>2. CASE (\E s \in Specs : EditSpec(s)) \/ RequestReconcile \/ DeleteStack
  BY <1>t, <1>2, UserEffect DEF Requested, Heading, SameSession
<1>3. CASE Crash
  BY <1>t, <1>g, <1>3, CrashEffect DEF Ends
<1>4. CASE Start
  <2>1. CASE UNCHANGED sessVars
    BY <2>1 DEF Requested, Heading
  <2>2. CASE pc' \in {"addFinalizer", "decide"} /\ inst'.req = sess'.req
    BY <2>2 DEF Requested, Heading
  <2> QED
    BY <1>t, <1>4, <2>1, <2>2, StartEffect
<1>5. CASE AddFinalizer
  <2>1. CASE Ends
    BY <1>g, <2>1 DEF Ends
  <2>2. CASE pc = "addFinalizer" /\ pc' = "decide" /\ sess' = sess /\ inst'.req = inst.req
    BY <2>2 DEF Requested, Heading
  <2> QED
    BY <1>t, <1>5, <2>1, <2>2, AddFinalizerEffect
<1>6. CASE \/ WaitForUpdate \/ ReadFails
           \/ ReleaseWithoutDestroy \/ StallOnSource \/ KeepSynced \/ AwaitPrereqs \/ BeginUpdate
  <2>1. Ends \/ (pc' \in {"save", "reclaim"} /\ sess'.after # "create")
    BY <1>t, <1>6, DecisionEffect DEF Decides
  <2> QED
    BY <1>g, <2>1 DEF Ends
<1>7. CASE SaveStatus
  <2>1. CASE Lost
    BY <1>g, <2>1 DEF Lost, Ends
  <2>2. CASE Written
    <3>1. CASE Ends
      BY <1>g, <3>1 DEF Ends
    <3>2. CASE ~Ends
      BY <1>7, <2>2, <3>2, SaveCases DEF WaitInv, Written, Requested, Heading, SameSession, SameStatus
    <3> QED
      BY <3>1, <3>2
  <2> QED
    BY <1>7, <2>1, <2>2, SaveCases DEF WaitInv
<1>8. CASE ReclaimWorkspace
  <2>1. pc = "reclaim" /\ (Ends \/ (pc' = "save" /\ sess'.after = sess.after))
    BY <1>t, <1>8, ReclaimEffect
  <2>2. sess.after # "create"
    BY <2>1 DEF WaitInv, TrackInv, IInv, Justified
  <2> QED
    BY <1>g, <2>1, <2>2 DEF Ends
<1>9. CASE ApplyWorkspace
  <2>1. CASE NamesUpdate
    BY <2>1 DEF NamesUpdate, Requested, Heading, SameSession
  <2>2. CASE Ends \/ (pc' = "save" /\ sess'.after \in {"stop", "later"}) \/ pc' = "finalize"
    BY <1>g, <2>2 DEF Ends
  <2> QED
    BY <1>t, <1>9, <2>1, <2>2, ApplyEffect
<1>10. CASE CreateUpdate \/ AddUpdateFinalizer
  <2>1. Ends \/ pc' = "addUpdateFinalizer" \/ (pc' = "save" /\ sess'.after = "error")
    BY <1>t, <1>10, CreateEffect, AddUpdateFinalizerEffect
  <2> QED
    BY <1>g, <2>1 DEF Ends
<1>11. CASE RemoveFinalizer
  BY <1>t, <1>g, <1>11, RemoveFinalizerEffect DEF Ends
<1> QED
  BY <1>t, <1>1, <1>2, <1>3, <1>4, <1>5, <1>6, <1>7, <1>8, <1>9, <1>10, <1>11, StepCases DEF Other

\* The number of failures in a record covers every Update of the same generation and
\* request that has failed since: f are the Updates, and the first of them counts as 0.
Alike(r, l) == r.phase = "failed" /\ r.gen = l.gen /\ r.req = l.req
Counted(f, l) ==
    l.name # 0 =>
        /\ f[l.name].gen = l.gen /\ f[l.name].req = l.req /\ f[l.name].phase = l.state
        /\ f[l.name].ran # NoContent => f[l.name].ran.commit = l.tried
        /\ \A j \in 1..l.name :
               (\A v \in j..l.name : Alike(f[v], l)) => l.name - j <= l.failures
Tallied ==
    /\ Counted(upd, stack.last)
    /\ pc \in {"save", "reclaim"} => Counted(upd, inst.last)

\* The current Update is what the status says, of the revision that it says.
Known(f, c, w) ==
    c.name # 0 /\ f[c.name].obj # "none" =>
        /\ f[c.name].gen = c.gen /\ f[c.name].req = c.req
        /\ f[c.name].phase = "pending" => w.commit = c.commit
        /\ f[c.name].ran # NoContent => f[c.name].ran.commit = c.commit
CurrentIs ==
    /\ Known(upd, stack.cur, ws.content)
    /\ Heading("create") => ws.content.commit = inst.cur.commit

\* What an Update did, and what it was created for, stay the same.
SameRun(v) == /\ upd'[v].phase = upd[v].phase /\ upd'[v].ran = upd[v].ran
              /\ upd'[v].gen = upd[v].gen /\ upd'[v].req = upd[v].req

CountInv == RecordInv /\ GenOrders /\ Requested /\ Tallied /\ CurrentIs

\* Whatever is not current has ended, or was never created.
LEMMA Settled ==
    ASSUME RecordInv, NEW v \in Updates, v # stack.cur.name
    PROVE  ~Waiting(v) /\ upd[v].phase # "running"
BY DEF RecordInv, Recorded, WaitInv, OnlyCurrentWaits

LEMMA SettledSame ==
    ASSUME ReadYourWrites, RecordInv, [Next]_vars, NEW v \in Updates,
           v # stack.cur.name \/ Complete(v)
    PROVE  SameRun(v)
<1>t. TypeOK /\ WaitInv /\ TrackInv
  BY DEF RecordInv, WaitInv, TrackInv, IInv
<1>1. CASE Calm
  <2>1. ~Waiting(v) /\ (upd[v].phase = "running" => Complete(v))
    BY Settled DEF Waiting, Complete
  <2> QED
    BY <1>t, <1>1, <2>1, CalmUpdate DEF SameRun, Complete
<1>2. CASE Other \/ SaveStatus \/ ReclaimWorkspace \/ AddUpdateFinalizer
  BY <1>t, <1>2, InertSteps DEF Inert, Kept, SameRun
<1>3. CASE CreateUpdate
  <2>1. /\ pc = "create"
        /\ \/ upd' = upd
           \/ upd' = [upd EXCEPT ![inst.cur.name] =
                          [NoUpdate EXCEPT !.obj = "live", !.type = sess.type,
                                           !.gen = inst.cur.gen, !.req = sess.req]]
    BY <1>t, <1>3, CreateEffect
  <2>2. /\ stack.cur.name = names /\ names \in Updates /\ upd[names].phase = "pending"
    BY <1>t, <2>1 DEF TrackInv, Tracks, SameStatus, Heading, IInv, FreshNames
  <2>3. v # names
    BY <2>2 DEF Complete
  <2> QED
    BY <1>t, <2>1, <2>3, CreatedUpdates DEF SameRun
<1> QED
  BY <1>t, <1>1, <1>2, <1>3, StepCases

\* Whatever precedes an Update that was created is not current.
LEMMA Earlier ==
    ASSUME RecordInv, NEW u \in Updates, NEW v \in Updates, v < u,
           upd[u].obj # "none" \/ u <= stack.last.name
    PROVE  v # stack.cur.name
<1>t. TypeOK
  BY DEF RecordInv, WaitInv, TrackInv, IInv
<1>1. /\ u \in Nat /\ v \in Nat /\ v # 0 /\ stack.cur.name \in Nat /\ stack.last.name \in Nat
  BY <1>t, RecordTypes
<1>2. u <= stack.last.name \/ u = stack.cur.name
  BY DEF RecordInv, Recorded
<1>3. stack.cur.name # 0 => stack.last.name < stack.cur.name
  BY DEF RecordInv, Ordered, NameOrder
<1> QED
  BY <1>1, <1>2, <1>3

LEMMA CountedSame ==
    ASSUME NEW f, NEW h, NEW l, l.name \in Nat, Counted(f, l),
           \A v \in 1..l.name : /\ h[v].phase = f[v].phase /\ h[v].ran = f[v].ran
                                /\ h[v].gen = f[v].gen /\ h[v].req = f[v].req
    PROVE  Counted(h, l)
<1> SUFFICES ASSUME l.name # 0
             PROVE  /\ h[l.name].gen = l.gen /\ h[l.name].req = l.req /\ h[l.name].phase = l.state
                    /\ h[l.name].ran # NoContent => h[l.name].ran.commit = l.tried
                    /\ \A j \in 1..l.name :
                           (\A v \in j..l.name : Alike(h[v], l)) => l.name - j <= l.failures
  BY DEF Counted
<1>1. l.name \in 1..l.name
  OBVIOUS
<1>2. /\ h[l.name].gen = l.gen /\ h[l.name].req = l.req /\ h[l.name].phase = l.state
      /\ h[l.name].ran # NoContent => h[l.name].ran.commit = l.tried
  BY <1>1 DEF Counted
<1>3. ASSUME NEW j \in 1..l.name, \A v \in j..l.name : Alike(h[v], l)
      PROVE  l.name - j <= l.failures
  <2>1. \A v \in j..l.name : v \in 1..l.name
    OBVIOUS
  <2>2. \A v \in j..l.name : Alike(f[v], l)
    BY <1>3, <2>1 DEF Alike
  <2> QED
    BY <2>2 DEF Counted
<1> QED
  BY <1>2, <1>3

\* The result of the current Update is counted on top of those of the Updates before it.
LEMMA CountedAbsorbed ==
    ASSUME CountInv, pc = "decide", ~Outstanding(inst.cur.name)
    PROVE  Counted(upd, Absorbed(inst).last)
<1> DEFINE d == Absorbed(inst)  u == inst.cur.name
<1>t. /\ TypeOK /\ TrackInv /\ u \in Nat /\ inst.last.name \in Nat
      /\ Updates \subseteq Nat /\ 0 \notin Updates
      /\ inst.last.failures \in Nat
  <2>1. TypeOK /\ TrackInv
    BY DEF CountInv, RecordInv, WaitInv, TrackInv, IInv
  <2>2. inst.last.failures \in Nat
    BY <2>1 DEF TypeOK, Objects, LastUpdates
  <2> QED
    BY <2>1, <2>2, RecordTypes
<1>1. inst.last = stack.last /\ inst.cur = stack.cur
  BY <1>t DEF TrackInv, Tracks, SameStatus
<1>2. CASE d = inst
  BY <1>1, <1>2 DEF CountInv, Tallied
<1>3. CASE d # inst
  <2>1. /\ u \in Updates /\ Complete(u) /\ d.last.name = u
        /\ d.last.gen = inst.cur.gen /\ d.last.req = inst.cur.req
        /\ d.last.tried = inst.cur.commit /\ d.last.state = upd[u].phase
        /\ d.last.failures = IF /\ upd[u].phase = "failed" /\ inst.last # NilLast
                                /\ inst.last.gen = inst.cur.gen
                                /\ inst.last.req = inst.cur.req
                             THEN inst.last.failures + 1 ELSE 0
    BY <1>t, <1>3, AbsorbedRecord DEF TrackInv
  <2>2. upd[u].obj # "none"
    BY <1>t, <2>1 DEF TrackInv, IInv, FreshNames, Complete
  <2>3. /\ upd[u].gen = inst.cur.gen /\ upd[u].req = inst.cur.req
        /\ upd[u].ran # NoContent => upd[u].ran.commit = inst.cur.commit
    BY <1>t, <1>1, <2>1, <2>2 DEF CountInv, CurrentIs, Known
  <2> HIDE DEF d
  <2>4. ASSUME NEW j \in 1..u, \A v \in j..u : Alike(upd[v], d.last)
        PROVE  u - j <= d.last.failures
    <3>1. CASE j = u
      BY <1>t, <2>1, <3>1
    <3>2. CASE j < u
      <4>1. u - 1 \in j..u /\ u \in j..u /\ u - 1 \in Nat /\ j <= u - 1 /\ 1 <= u - 1
        BY <1>t, <3>2
      <4>2. u - 1 \in Updates
        BY <2>1, <4>1, BoundAssumption DEF Updates
      <4>3. Alike(upd[u - 1], d.last) /\ Alike(upd[u], d.last)
        BY <2>4, <4>1
      <4>4. inst.last.name = u - 1
        <5>1. upd[u - 1].obj # "none"
          BY <1>t, <4>2, <4>3 DEF Alike, TrackInv, IInv, FreshNames
        <5>2. u - 1 <= inst.last.name \/ u - 1 = u
          BY <1>1, <4>2, <5>1 DEF CountInv, RecordInv, Recorded
        <5>3. inst.last.name < u
          BY <1>t, <2>1 DEF CountInv, RecordInv, Ordered, NameOrder
        <5> QED
          BY <1>t, <5>2, <5>3
      <4>5. Counted(upd, inst.last) /\ inst.last.name # 0
        BY <1>1, <4>1, <4>4 DEF CountInv, Tallied
      <4>6. inst.last.gen = d.last.gen /\ inst.last.req = d.last.req
        BY <4>3, <4>4, <4>5 DEF Counted, Alike
      <4>7. inst.last # NilLast
        BY <4>5 DEF NilLast
      <4>8. d.last.failures = inst.last.failures + 1
        BY <2>1, <4>3, <4>6, <4>7 DEF Alike
      <4>9. \A v \in j..(u - 1) : Alike(upd[v], inst.last)
        <5>1. \A v \in j..(u - 1) : v \in j..u
          BY <1>t, <4>1
        <5> QED
          BY <2>4, <4>6, <5>1 DEF Alike
      <4>10. j \in 1..inst.last.name
        BY <1>t, <4>1, <4>4
      <4>11. inst.last.name - j <= inst.last.failures
        BY <4>4, <4>5, <4>9, <4>10 DEF Counted
      <4> QED
        BY <1>t, <4>4, <4>8, <4>11
    <3> QED
      BY <1>t, <3>1, <3>2
  <2>5. Counted(upd, d.last)
    BY <1>t, <2>1, <2>3, <2>4 DEF Counted
  <2> QED
    BY <2>5 DEF d
<1> QED
  BY <1>2, <1>3

LEMMA TalliedStep ==
    ASSUME ReadYourWrites, CountInv, RecordInv', [Next]_vars
    PROVE  Tallied'
<1> USE DEF stackVars, sessVars, worldVars
<1>t. /\ TypeOK /\ TrackInv /\ WaitInv /\ RecordInv
      /\ stack.last.name \in Names /\ inst.last.name \in Names /\ stack.cur.name \in Names
      /\ stack.last.name \in Nat /\ inst.last.name \in Nat /\ stack.cur.name \in Nat
  <2>1. TypeOK /\ TrackInv /\ WaitInv /\ RecordInv
    BY DEF CountInv, RecordInv, WaitInv, TrackInv, IInv
  <2> QED
    BY <2>1, RecordTypes
<1>u. ASSUME NEW n \in Names, NEW v \in 1..n  PROVE v \in Updates /\ v \in Nat /\ 1 <= v /\ v <= n
  BY <1>u, BoundAssumption DEF Names, Updates
<1>1. Counted(upd', stack.last)
  <2>1. ASSUME NEW v \in 1..stack.last.name  PROVE SameRun(v)
    <3>1. v \in Updates /\ v <= stack.last.name /\ v \in Nat /\ 1 <= v
      BY <1>t, <1>u, <2>1
    <3>2. v # stack.cur.name
      <4>1. stack.cur.name # 0 => stack.last.name < stack.cur.name
        BY <1>t DEF RecordInv, Ordered, NameOrder
      <4> QED
        BY <1>t, <3>1, <4>1
    <3> QED
      BY <1>t, <3>1, <3>2, SettledSame
  <2> QED
    BY <1>t, <2>1, CountedSame DEF SameRun, CountInv, Tallied
<1>2. ASSUME pc \in {"save", "reclaim"}  PROVE Counted(upd', inst.last)
  <2>1. inst.last = stack.last \/ Absorbs
    BY <1>t, <1>2 DEF TrackInv, Tracks, SameStatus, Forgetting
  <2>2. CASE inst.last = stack.last
    BY <1>1, <2>2
  <2>3. CASE Absorbs
    <3>1. ASSUME NEW v \in 1..inst.last.name  PROVE SameRun(v)
      <4>1. v \in Updates /\ v \in Nat
        BY <1>t, <1>u, <3>1
      <4>2. inst.last.name \in Updates /\ Complete(inst.last.name) /\ inst.last.name = stack.cur.name
        BY <2>3 DEF Absorbs
      <4> QED
        BY <1>t, <4>1, <4>2, SettledSame
    <3> QED
      BY <1>t, <1>2, <3>1, CountedSame DEF SameRun, CountInv, Tallied
  <2> QED
    BY <2>1, <2>2, <2>3
<1>3. Counted(upd', stack'.last)
  <2>1. CASE SaveStatus
    <3>1. pc = "save" /\ (stack'.last = stack.last \/ stack'.last = inst.last)
      BY <1>t, <2>1, SaveCases, RecordSave DEF SameStatus
    <3> QED
      BY <1>1, <1>2, <3>1
  <2>2. CASE ~SaveStatus
    <3>1. stack'.last = stack.last
      BY <1>t, <2>2, StepCases, OtherEffect, ReclaimEffect, CreateEffect, AddUpdateFinalizerEffect
         DEF Calm, SameStatus
    <3> QED
      BY <1>1, <3>1
  <2> QED
    BY <2>1, <2>2
<1>4. ASSUME pc' \in {"save", "reclaim"}  PROVE Counted(upd', inst'.last)
  <2>g. ASSUME inst'.last = stack'.last  PROVE Counted(upd', inst'.last)
    BY <1>3, <2>g
  <2>0. inst'.last = stack'.last \/ Absorbs'
    BY <1>4 DEF RecordInv, WaitInv, TrackInv, Tracks, SameStatus, Forgetting
  <2>1. CASE Calm
    BY <1>2, <1>4, <2>1 DEF Calm
  <2>2. CASE (\E s \in Specs : EditSpec(s)) \/ RequestReconcile \/ DeleteStack
    BY <1>t, <1>2, <1>4, <2>2, UserEffect
  <2>3. CASE Crash \/ Start \/ AddFinalizer \/ RemoveFinalizer
    <3>1. ~Crash /\ ~RemoveFinalizer /\ ~AddFinalizer
      BY <1>t, <1>4, CrashEffect, RemoveFinalizerEffect, AddFinalizerEffect DEF Ends
    <3>2. ~Start
      BY <1>t, <1>4, StartEffect
    <3> QED
      BY <2>3, <3>1, <3>2
  <2>4. CASE \/ WaitForUpdate \/ ReadFails
             \/ ReleaseWithoutDestroy \/ StallOnSource \/ KeepSynced \/ AwaitPrereqs \/ BeginUpdate
    <3>1. pc = "decide" /\ UNCHANGED <<stack, upd>>
      BY <1>t, <2>4, DecisionEffect
    <3>2. inst.last = stack.last
      BY <1>t, <3>1 DEF TrackInv, Tracks, SameStatus
    <3>3. inst'.last = inst.last \/ Decides(Absorbed(inst))
      BY <1>t, <1>4, <2>4, DecisionEffect DEF Ends, SameStatus
    <3>4. CASE Decides(Absorbed(inst))
      <4>1. inst'.last = Absorbed(inst).last /\ ~Outstanding(inst.cur.name)
        BY <3>4 DEF Decides, SameStatus
      <4> QED
        BY <3>1, <4>1, CountedAbsorbed
    <3> QED
      BY <2>g, <3>1, <3>2, <3>3, <3>4
  <2>5. CASE ApplyWorkspace \/ CreateUpdate \/ AddUpdateFinalizer
    <3>1. pc \in {"apply", "create", "addUpdateFinalizer"} /\ UNCHANGED stack
      BY <1>t, <2>5, ApplyEffect, CreateEffect, AddUpdateFinalizerEffect
    <3>2. inst.last = stack.last
      BY <1>t, <3>1 DEF TrackInv, Tracks, SameStatus
    <3>3. inst'.last = inst.last
      BY <1>t, <1>4, <2>5, ApplyEffect, CreateEffect, AddUpdateFinalizerEffect
         DEF Ends, NamesUpdate, SameStatus
    <3> QED
      BY <2>g, <3>1, <3>2, <3>3
  <2>6. CASE SaveStatus
    BY <1>t, <1>4, <2>6, SaveCases
  <2>7. CASE ReclaimWorkspace
    BY <1>t, <1>2, <1>4, <2>7, ReclaimEffect DEF Ends
  <2> QED
    BY <1>t, <2>1, <2>2, <2>3, <2>4, <2>5, <2>6, <2>7, StepCases DEF Other
<1> QED
  BY <1>3, <1>4 DEF Tallied

\* Only the reconcile that is about to name an Update changes what the workspace is
\* built from.
LEMMA ContentStays ==
    ASSUME ReadYourWrites, TypeOK, [Next]_vars, ~ApplyWorkspace
    PROVE  ws'.content = ws.content
<1> USE DEF stackVars, sessVars, worldVars
<1>1. CASE Calm
  BY <1>1 DEF Calm
<1>2. CASE ReclaimWorkspace
  BY <1>2, ReclaimEffect
<1>3. CASE Other \/ SaveStatus \/ CreateUpdate \/ AddUpdateFinalizer
  <2>1. ws' = ws
    BY <1>3, UserEffect, CrashEffect, StartEffect, AddFinalizerEffect, DecisionEffect,
       RemoveFinalizerEffect, SaveEffect, CreateEffect, AddUpdateFinalizerEffect DEF Other
  <2> QED
    BY <2>1
<1> QED
  BY <1>1, <1>2, <1>3, StepCases

\* How a reconcile comes to be, or to stay, about to create the Update it has named.
LEMMA HeadingCreate ==
    ASSUME ReadYourWrites, WaitInv, [Next]_vars, Heading("create")'
    PROVE  \/ ApplyWorkspace /\ NamesUpdate
           \/ ~ApplyWorkspace /\ Heading("create") /\ inst'.cur = inst.cur /\ names' = names
<1> USE DEF stackVars, sessVars, worldVars
<1>t. TypeOK
  BY DEF WaitInv, TrackInv, IInv
<1>h. pc' = "create" \/ (pc' = "save" /\ sess'.after = "create")
  BY DEF Heading
<1>1. CASE Calm /\ ~ApplyWorkspace
  BY <1>h, <1>1 DEF Calm, Heading
<1>2. CASE (\E s \in Specs : EditSpec(s)) \/ RequestReconcile \/ DeleteStack
  <2>1. UNCHANGED <<pc, inst, names>> /\ sess'.after = sess.after
    BY <1>t, <1>2, UserEffect
  <2>2. Heading("create")
    BY <1>h, <2>1 DEF Heading
  <2>3. ~ApplyWorkspace
    BY <1>t, <2>1, <2>2, ApplyEffect DEF Heading
  <2> QED
    BY <2>1, <2>2, <2>3
<1>3. ~Crash /\ ~RemoveFinalizer /\ ~AddFinalizer
  BY <1>t, <1>h, CrashEffect, RemoveFinalizerEffect, AddFinalizerEffect DEF Ends
<1>4. CASE Start /\ ~ApplyWorkspace
  <2>1. UNCHANGED <<sessVars, names>>
    BY <1>t, <1>h, <1>4, StartEffect
  <2> QED
    BY <1>h, <1>4, <2>1 DEF Heading
<1>5. ~ \/ WaitForUpdate \/ ReadFails
        \/ ReleaseWithoutDestroy \/ StallOnSource \/ KeepSynced \/ AwaitPrereqs \/ BeginUpdate
  BY <1>t, <1>h, DecisionEffect DEF Ends, Decides
<1>6. CASE ApplyWorkspace
  BY <1>t, <1>h, <1>6, ApplyEffect DEF Ends
<1>7. CASE SaveStatus /\ ~ApplyWorkspace
  <2>1. /\ pc = "save" /\ pc' = sess.after /\ names' = names
        /\ inst'.cur = inst.cur /\ sess.after = "create"
    BY <1>h, <1>7, SaveCases DEF WaitInv, Lost, Written, Ends, SameStatus
  <2> QED
    BY <1>7, <2>1 DEF Heading
<1>8. ~ReclaimWorkspace
  BY <1>t, <1>h, ReclaimEffect DEF Ends, WaitInv, TrackInv, IInv, Justified
<1>9. ~CreateUpdate /\ ~AddUpdateFinalizer
  BY <1>t, <1>h, CreateEffect, AddUpdateFinalizerEffect DEF Ends
<1> QED
  BY <1>t, <1>1, <1>2, <1>3, <1>4, <1>5, <1>6, <1>7, <1>8, <1>9, StepCases DEF Other

\* The current Update and the name of the next, while one is to be created.
LEMMA HeadingNames ==
    ASSUME TrackInv, Heading("create")
    PROVE  /\ inst.cur.name = names /\ names \in Updates /\ upd[names].obj = "none"
           /\ stack.cur.name = 0 \/ stack.cur = inst.cur
           /\ pc = "create" => stack.cur = inst.cur
BY DEF Heading, TrackInv, Tracks, SameStatus, IInv, FreshNames

\* A reconcile is about to name an Update only with no current one.
LEMMA ApplyNames ==
    ASSUME TrackInv, pc = "apply"
    PROVE  stack.cur.name = 0 /\ inst.last = stack.last
BY DEF TrackInv, Tracks, SameStatus, Heading

LEMMA CurrentIsStep ==
    ASSUME ReadYourWrites, CountInv, RecordInv', [Next]_vars
    PROVE  CurrentIs'
<1> USE DEF stackVars, sessVars, worldVars
<1>t. /\ TypeOK /\ TrackInv /\ WaitInv /\ RecordInv /\ Known(upd, stack.cur, ws.content)
      /\ stack.cur.name \in Names /\ Updates = Names \ {0}
  <2>1. TypeOK /\ TrackInv /\ WaitInv /\ RecordInv /\ Known(upd, stack.cur, ws.content)
    BY DEF CountInv, RecordInv, WaitInv, TrackInv, IInv, CurrentIs
  <2> QED
    BY <2>1, RecordTypes
<1>1. ASSUME Heading("create")'  PROVE ws'.content.commit = inst'.cur.commit
  <2>1. CASE NamesUpdate
    BY <2>1 DEF NamesUpdate
  <2>2. CASE ~ApplyWorkspace /\ Heading("create") /\ inst'.cur = inst.cur
    BY <1>t, <2>2, ContentStays DEF CountInv, CurrentIs
  <2> QED
    BY <1>t, <1>1, <2>1, <2>2, HeadingCreate
<1>2. Known(upd', stack'.cur, ws'.content)
  <2>g. ASSUME ws'.content = ws.content, stack'.cur = stack.cur,
               \A u \in Updates :
                   /\ upd'[u].obj = "none" <=> upd[u].obj = "none"
                   /\ upd'[u].gen = upd[u].gen /\ upd'[u].req = upd[u].req
                   /\ upd'[u].phase = "pending" => upd[u].phase = "pending"
                   /\ \/ upd'[u].ran = upd[u].ran
                      \/ upd[u].phase = "pending" /\ upd'[u].ran = ws.content
        PROVE  Known(upd', stack'.cur, ws'.content)
    BY <1>t, <2>g DEF Known
  <2>1. CASE Calm /\ ~ApplyWorkspace
    <3>1. stack'.cur = stack.cur
      BY <2>1 DEF Calm
    <3> QED
      BY <1>t, <2>g, <2>1, <3>1, ContentStays, CalmUpdate DEF Waiting
  <2>2. CASE ApplyWorkspace
    <3>1. pc = "apply" /\ stack' = stack
      BY <1>t, <2>2, ApplyEffect
    <3> QED
      BY <1>t, <3>1, ApplyNames DEF Known
  <2>3. CASE (Other \/ ReclaimWorkspace \/ AddUpdateFinalizer) /\ ~ApplyWorkspace
    <3>1. stack'.cur = stack.cur
      BY <1>t, <2>3, OtherEffect, ReclaimEffect, AddUpdateFinalizerEffect DEF SameStatus
    <3> QED
      BY <1>t, <2>g, <2>3, <3>1, ContentStays, InertSteps DEF Inert, Kept
  <2>4. CASE SaveStatus /\ ~ApplyWorkspace
    <3>1. Inert
      BY <1>t, <2>4, InertSteps
    <3>2. CASE SameStatus(stack', stack)
      BY <1>t, <2>g, <2>4, <3>1, <3>2, ContentStays DEF SameStatus, Inert, Kept
    <3>3. CASE SameStatus(stack', inst) /\ Absorbs
      BY <3>3 DEF Absorbs, Known, NilCurrent, SameStatus
    <3>4. CASE SameStatus(stack', inst) /\ sess.after = "create"
      <4>1. pc = "save"
        BY <1>t, <2>4, SaveCases
      <4>2. inst.cur.name \in Updates /\ upd[inst.cur.name].obj = "none"
        BY <1>t, <3>4, <4>1, HeadingNames DEF Heading
      <4> QED
        BY <3>1, <3>4, <4>2 DEF Known, Inert, Kept, SameStatus
    <3> QED
      BY <1>t, <2>4, <3>2, <3>3, <3>4, RecordSave
  <2>5. CASE CreateUpdate /\ ~ApplyWorkspace
    <3>1. /\ pc = "create" /\ UNCHANGED stack
          /\ upd' = [upd EXCEPT ![inst.cur.name] =
                         [NoUpdate EXCEPT !.obj = "live", !.type = sess.type,
                                          !.gen = inst.cur.gen, !.req = sess.req]]
      BY <1>t, <2>5, CreateEffect DEF RecordInv, Recorded, Forgetting
    <3>2. /\ upd'[names].gen = inst.cur.gen /\ upd'[names].req = sess.req
          /\ upd'[names].ran = NoContent
      BY <1>t, <3>1, CreatedUpdates
    <3>3. stack.cur = inst.cur /\ stack.cur.name = names /\ Heading("create")
      BY <1>t, <3>1, HeadingNames DEF Heading
    <3>4. inst.cur.req = sess.req /\ ws.content.commit = inst.cur.commit
      BY <3>3 DEF CountInv, Requested, CurrentIs
    <3> QED
      BY <1>t, <2>5, <3>1, <3>2, <3>3, <3>4, ContentStays DEF Known
  <2> QED
    BY <1>t, <2>1, <2>2, <2>3, <2>4, <2>5, StepCases
<1> QED
  BY <1>1, <1>2 DEF CurrentIs

LEMMA CountStep ==
    ASSUME ReadYourWrites, CountInv, ~Forgetting', [Next]_vars
    PROVE  CountInv'
<1>1. RecordInv'
  BY RecordStep DEF CountInv
<1>2. GenOrders' /\ Requested'
  BY <1>1, GenOrdersStep, RequestedStep DEF CountInv, RecordInv, WaitInv, TrackInv, IInv
<1>3. Tallied' /\ CurrentIs'
  BY <1>1, TalliedStep, CurrentIsStep
<1> QED
  BY <1>1, <1>2, <1>3 DEF CountInv

-----------------------------------------------------------------------------
(* Retries are bounded.                                                    *)

\* An update goes ahead only if the last one did not use up the retries.
Due ==
    Heading("apply") =>
        ~ /\ inst.last.state = "failed"
          /\ inst.gen <= inst.last.gen /\ inst.last.req = sess.req
          /\ inst.last.tried = sess.commit
          /\ MaxUpdateFailures <= inst.last.failures

\* Not all of the Updates that just precede u have failed at the same thing.
Budget(f, u, g, q, r) ==
    u > MaxUpdateFailures + 1 =>
        \E v \in (u - MaxUpdateFailures - 1)..(u - 1) :
            \/ f[v].phase # "failed" \/ f[v].ran = NoContent
            \/ f[v].gen # g \/ f[v].req # q \/ f[v].ran # r
Budgets ==
    /\ Heading("create") => Budget(upd, names, inst.cur.gen, inst.cur.req, ws.content)
    /\ \A u \in Updates :
           Waiting(u) => Budget(upd, u, upd[u].gen, upd[u].req, ws.content)
    /\ \A u \in Updates :
           upd[u].ran # NoContent => /\ upd[u].obj # "none"
                                     /\ Budget(upd, u, upd[u].gen, upd[u].req, upd[u].ran)

BudgetInv == CountInv /\ Due /\ Budgets

LEMMA DueStep ==
    ASSUME ReadYourWrites, CountInv, Due, [Next]_vars
    PROVE  Due'
<1> USE DEF stackVars, sessVars, worldVars
<1>t. TypeOK /\ TrackInv /\ WaitInv
  BY DEF CountInv, RecordInv, WaitInv, TrackInv, IInv
<1>n. /\ inst.gen \in Nat /\ stack.gen \in Nat /\ inst.last.gen \in Nat /\ inst.cur.gen \in Nat
  BY <1>t DEF TypeOK, Objects, LastUpdates, CurrentUpdates
<1> SUFFICES ASSUME Heading("apply")' PROVE Due'
  BY DEF Due
<1>h. pc' = "apply" \/ (pc' = "save" /\ sess'.after = "apply")
  BY DEF Heading
<1>1. CASE Calm
  BY <1>1 DEF Calm, Due, Heading
<1>2. CASE (\E s \in Specs : EditSpec(s)) \/ RequestReconcile \/ DeleteStack
  <2>1. UNCHANGED <<pc, inst>> /\ sess'.after = sess.after /\ sess'.commit = sess.commit /\ sess'.req = sess.req
    BY <1>t, <1>2, UserEffect DEF SameSession
  <2> QED
    BY <2>1 DEF Due, Heading
<1>3. ~Crash /\ ~RemoveFinalizer /\ ~AddFinalizer /\ ~ApplyWorkspace
  BY <1>t, <1>h, CrashEffect, RemoveFinalizerEffect, AddFinalizerEffect, ApplyEffect
     DEF Ends, NamesUpdate
<1>4. CASE Start
  <2>1. UNCHANGED sessVars
    BY <1>t, <1>h, <1>4, StartEffect
  <2> QED
    BY <2>1 DEF Due, Heading
<1>5. CASE \/ WaitForUpdate \/ ReadFails
           \/ ReleaseWithoutDestroy \/ StallOnSource \/ KeepSynced \/ AwaitPrereqs \/ BeginUpdate
  <2> DEFINE d == Absorbed(inst)
  <2>1. pc = "decide" /\ Decides(d)
    BY <1>t, <1>h, <1>5, DecisionEffect DEF Ends
  <2>2. /\ ~Outstanding(inst.cur.name)
        /\ inst'.last = d.last /\ inst'.gen = d.gen /\ sess'.req = sess.req
        /\ sess'.commit = Resolved(d) /\ ~IsSynced(d, Resolved(d), Old)
    BY <1>h, <2>1 DEF Decides, SameStatus, SameSession
  <2>3. /\ d.gen = inst.gen /\ d.req = inst.req
        /\ d = inst \/ d.last.gen = inst.cur.gen
    BY <1>t, <2>1, <2>2, AbsorbedRecord DEF TrackInv, SameMeta
  <2>4. inst.req = sess.req
    BY <2>1 DEF CountInv, Requested
  <2>5. d.last.gen \in Nat /\ d.gen \in Nat /\ d.last.gen <= d.gen /\ d.last.failures \in Nat
    <3>1. d.last.failures \in Nat
      BY <1>t, AbsorbedType DEF TypeOK, Objects, LastUpdates
    <3> HIDE DEF d
    <3> QED
      BY <1>n, <2>3, <3>1 DEF CountInv, GenOrders, GenOrder
  <2> HIDE DEF d
  <2>6. ASSUME d.last.state = "failed", d.gen <= d.last.gen, d.last.req = sess.req,
               d.last.tried = Resolved(d), MaxUpdateFailures <= d.last.failures
        PROVE  FALSE
    <3>1. d.last # NilLast
      BY <2>6 DEF NilLast
    <3>2. d.last.gen = d.gen
      BY <2>5, <2>6
    <3>3. d.last.failures >= MaxUpdateFailures
      BY <2>5, <2>6, BoundAssumption
    <3> QED
      BY <2>2, <2>3, <2>4, <2>6, <3>1, <3>2, <3>3 DEF IsSynced
  <2> QED
    BY <2>2, <2>6 DEF Due
<1>6. CASE SaveStatus
  <2>1. /\ pc = "save" /\ sess.after = "apply" /\ inst' = stack' /\ stack'.gen = stack.gen
        /\ stack'.last = inst.last /\ sess'.req = sess.req /\ sess'.commit = sess.commit
    BY <1>t, <1>h, <1>6, SaveCases DEF Lost, Written, Ends, SameStatus, SameMeta, SameSession
  <2>2. inst.gen <= inst'.gen /\ inst'.gen = stack.gen /\ inst'.last = inst.last
    BY <2>1 DEF CountInv, GenOrders
  <2>3. inst'.gen <= inst.last.gen => inst.gen <= inst.last.gen
    BY <1>n, <2>2
  <2> QED
    BY <2>1, <2>2, <2>3 DEF Due, Heading
<1>7. ~ReclaimWorkspace
  BY <1>t, <1>h, ReclaimEffect DEF Ends, TrackInv, IInv, Justified
<1>8. ~CreateUpdate /\ ~AddUpdateFinalizer
  BY <1>t, <1>h, CreateEffect, AddUpdateFinalizerEffect DEF Ends
<1> QED
  BY <1>t, <1>1, <1>2, <1>3, <1>4, <1>5, <1>6, <1>7, <1>8, StepCases DEF Other

LEMMA BudgetSame ==
    ASSUME NEW f, NEW h, NEW u \in Nat, NEW g, NEW q, NEW r, Budget(f, u, g, q, r),
           \A v \in 1..(u - 1) : /\ h[v].phase = f[v].phase /\ h[v].ran = f[v].ran
                                 /\ h[v].gen = f[v].gen /\ h[v].req = f[v].req
    PROVE  Budget(h, u, g, q, r)
<1> SUFFICES ASSUME u > MaxUpdateFailures + 1
             PROVE  \E v \in (u - MaxUpdateFailures - 1)..(u - 1) :
                        \/ h[v].phase # "failed" \/ h[v].ran = NoContent
                        \/ h[v].gen # g \/ h[v].req # q \/ h[v].ran # r
  BY DEF Budget
<1>1. PICK v \in (u - MaxUpdateFailures - 1)..(u - 1) :
          \/ f[v].phase # "failed" \/ f[v].ran = NoContent
          \/ f[v].gen # g \/ f[v].req # q \/ f[v].ran # r
  BY DEF Budget
<1>2. v \in 1..(u - 1)
  BY BoundAssumption
<1> QED
  BY <1>1, <1>2

\* The Update that a reconcile names is not one too many: the failures since the first
\* of its kind are counted, and the count is what isSynced compares.
LEMMA BudgetNamed ==
    ASSUME CountInv, Due, pc = "apply", names + 1 \in Updates
    PROVE  Budget(upd, names + 1, inst.gen, sess.req, [spec |-> sess.spec, commit |-> sess.commit])
<1> DEFINE n == names  l == stack.last  c == [spec |-> sess.spec, commit |-> sess.commit]
<1>t. /\ TypeOK /\ TrackInv /\ n \in Nat /\ l.name \in Nat /\ l.gen \in Nat /\ l.failures \in Nat
      /\ inst.gen \in Nat
  <2>1. TypeOK /\ TrackInv
    BY DEF CountInv, RecordInv, WaitInv, TrackInv, IInv
  <2>2. l.gen \in Nat /\ l.failures \in Nat /\ inst.gen \in Nat
    BY <2>1 DEF TypeOK, Objects, LastUpdates
  <2> QED
    BY <2>1, <2>2, RecordTypes
<1>a. stack.cur.name = 0 /\ inst.last = l
  BY <1>t, ApplyNames
<1>c. c.commit = sess.commit
  OBVIOUS
<1> HIDE DEF n, l, c
<1> SUFFICES ASSUME ~Budget(upd, n + 1, inst.gen, sess.req, c) PROVE FALSE
  BY DEF n, c
<1>b. /\ n + 1 > MaxUpdateFailures + 1
      /\ \A v \in (n + 1 - MaxUpdateFailures - 1)..(n + 1 - 1) :
             /\ upd[v].phase = "failed" /\ upd[v].ran # NoContent
             /\ upd[v].gen = inst.gen /\ upd[v].req = sess.req /\ upd[v].ran = c
  BY <1>t, BoundAssumption DEF Budget
<1> DEFINE j == n - MaxUpdateFailures
<1>1. /\ j \in Nat /\ 1 <= j /\ j <= n /\ n \in j..n /\ j \in 1..n
      /\ n + 1 - MaxUpdateFailures - 1 = j /\ n + 1 - 1 = n
      /\ n - j = MaxUpdateFailures
  BY <1>t, <1>b, BoundAssumption
<1> HIDE DEF j
<1>2. \A v \in j..n : /\ upd[v].phase = "failed" /\ upd[v].ran # NoContent
                      /\ upd[v].gen = inst.gen /\ upd[v].req = sess.req /\ upd[v].ran = c
  BY <1>b, <1>1
<1>3. n \in Updates
  BY <1>t, <1>1, BoundAssumption DEF n, Updates
<1>4. upd[n].obj # "none"
  BY <1>t, <1>1, <1>2, <1>3 DEF TrackInv, IInv, FreshNames
<1>5. l.name = n
  <2>1. n <= l.name
    BY <1>a, <1>1, <1>3, <1>4 DEF CountInv, RecordInv, Recorded, l
  <2>2. l.name <= n
    BY DEF CountInv, RecordInv, Ordered, NameOrder, l, n
  <2> QED
    BY <1>t, <2>1, <2>2
<1>6. Counted(upd, l) /\ l.name # 0
  BY <1>t, <1>1, <1>5 DEF CountInv, Tallied, l
<1>7. /\ l.gen = inst.gen /\ l.req = sess.req /\ l.state = "failed"
      /\ l.tried = sess.commit
  BY <1>c, <1>1, <1>2, <1>5, <1>6 DEF Counted
<1>8. \A v \in j..l.name : Alike(upd[v], l)
  BY <1>2, <1>5, <1>7 DEF Alike
<1>9. l.name - j <= l.failures
  BY <1>1, <1>5, <1>6, <1>8 DEF Counted
<1>10. MaxUpdateFailures <= l.failures /\ inst.gen <= l.gen
  BY <1>t, <1>1, <1>5, <1>7, <1>9
<1> QED
  BY <1>a, <1>7, <1>10 DEF Due, Heading

LEMMA BudgetsStep ==
    ASSUME ReadYourWrites, BudgetInv, ~Forgetting', [Next]_vars
    PROVE  Budgets'
<1> USE DEF stackVars, sessVars, worldVars
<1>t. /\ TypeOK /\ TrackInv /\ WaitInv /\ RecordInv /\ CountInv /\ Due /\ Budgets
      /\ names \in Nat
  <2>1. /\ TypeOK /\ TrackInv /\ WaitInv /\ RecordInv /\ CountInv /\ Due /\ Budgets
    BY DEF BudgetInv, CountInv, RecordInv, WaitInv, TrackInv, IInv
  <2> QED
    BY <2>1, RecordTypes
<1>u. ASSUME NEW u \in Updates, NEW v \in 1..(u - 1)
      PROVE  v \in Updates /\ v \in Nat /\ u \in Nat /\ v < u
  BY <1>u, BoundAssumption DEF Updates
<1>e. ASSUME NEW u \in Updates, NEW g, NEW q, NEW r, Budget(upd, u, g, q, r),
             \A v \in 1..(u - 1) : v # stack.cur.name
      PROVE  Budget(upd', u, g, q, r)
  <2>1. \A v \in 1..(u - 1) : SameRun(v)
    BY <1>t, <1>u, <1>e, SettledSame
  <2>2. u \in Nat
    BY BoundAssumption DEF Updates
  <2> QED
    BY <1>e, <2>1, <2>2, BudgetSame DEF SameRun
<1>o. ASSUME NEW u \in Updates, upd[u].obj # "none"
      PROVE  \A v \in 1..(u - 1) : v # stack.cur.name
  BY <1>t, <1>u, <1>o, Earlier
<1>1. ASSUME Heading("create")'
      PROVE  /\ names' \in Updates /\ Budget(upd', names', inst'.cur.gen, inst'.cur.req, ws'.content)
  <2>1. CASE ApplyWorkspace /\ NamesUpdate
    <3>1. /\ pc = "apply" /\ names' = names + 1 /\ names + 1 \in Updates /\ upd' = upd
          /\ ws'.content = [spec |-> sess.spec, commit |-> sess.commit]
          /\ inst'.cur.gen = inst.gen /\ inst'.cur.req = sess.req
      BY <1>t, <2>1, ApplyEffect DEF NamesUpdate
    <3> QED
      BY <1>t, <3>1, BudgetNamed
  <2>2. CASE ~ApplyWorkspace /\ Heading("create") /\ inst'.cur = inst.cur /\ names' = names
    <3>1. names \in Updates /\ (stack.cur.name = 0 \/ stack.cur.name = names)
      BY <1>t, <2>2, HeadingNames
    <3>2. \A v \in 1..(names - 1) : v # stack.cur.name
      BY <1>t, <3>1
    <3>3. Budget(upd, names, inst.cur.gen, inst.cur.req, ws.content)
      BY <1>t, <2>2 DEF Budgets
    <3>4. Budget(upd', names, inst.cur.gen, inst.cur.req, ws.content)
      BY <1>e, <3>1, <3>2, <3>3
    <3>5. ws'.content = ws.content
      BY <1>t, <2>2, ContentStays
    <3> QED
      BY <2>2, <3>1, <3>4, <3>5
  <2> QED
    BY <1>t, <1>1, <2>1, <2>2, HeadingCreate
<1>w. ASSUME NEW u \in Updates, Waiting(u)
      PROVE  /\ upd[u].obj # "none" /\ ws'.content = ws.content
             /\ Budget(upd', u, upd[u].gen, upd[u].req, ws.content)
  <2>1. upd[u].obj # "none" /\ Budget(upd, u, upd[u].gen, upd[u].req, ws.content)
    BY <1>t, <1>w DEF Waiting, Budgets
  <2>2. u = stack.cur.name /\ u # 0
    BY <1>t, <1>w, Settled, BoundAssumption DEF Updates
  <2>3. ~ApplyWorkspace
    BY <1>t, <2>2, ApplyEffect, ApplyNames
  <2> QED
    BY <1>t, <1>e, <1>o, <2>1, <2>3, ContentStays
<1>r. ASSUME NEW u \in Updates, upd[u].ran # NoContent
      PROVE  /\ upd[u].obj # "none" /\ Budget(upd', u, upd[u].gen, upd[u].req, upd[u].ran)
  BY <1>t, <1>e, <1>o, <1>r DEF Budgets
<1>2. CASE Calm \/ Inert
  <2>1. ASSUME NEW u \in Updates
        PROVE  /\ Waiting(u)' => Waiting(u)
               /\ upd'[u].gen = upd[u].gen /\ upd'[u].req = upd[u].req
               /\ upd'[u].obj = "none" <=> upd[u].obj = "none"
               /\ upd'[u].ran = upd[u].ran \/ (Waiting(u) /\ upd'[u].ran = ws.content)
    BY <1>t, <1>2, CalmUpdate DEF Inert, Kept
  <2>2. ASSUME NEW u \in Updates, Waiting(u)'
        PROVE  Budget(upd', u, upd'[u].gen, upd'[u].req, ws'.content)
    BY <1>w, <2>1, <2>2
  <2>3. ASSUME NEW u \in Updates, upd'[u].ran # NoContent
        PROVE  upd'[u].obj # "none" /\ Budget(upd', u, upd'[u].gen, upd'[u].req, upd'[u].ran)
    BY <1>w, <1>r, <2>1, <2>3
  <2> QED
    BY <1>1, <2>2, <2>3 DEF Budgets
<1>3. CASE CreateUpdate
  <2>1. /\ pc = "create" /\ names' = names
        /\ upd' = [upd EXCEPT ![inst.cur.name] =
                       [NoUpdate EXCEPT !.obj = "live", !.type = sess.type,
                                        !.gen = inst.cur.gen, !.req = sess.req]]
    BY <1>t, <1>3, CreateEffect DEF Forgetting
  <2>2. /\ upd'[names].gen = inst.cur.gen /\ upd'[names].req = sess.req
        /\ upd'[names].ran = NoContent /\ \A u \in Updates \ {names} : upd'[u] = upd[u]
    BY <1>t, <2>1, CreatedUpdates
  <2>3. Heading("create") /\ inst.cur.req = sess.req
    BY <1>t, <2>1 DEF Heading, CountInv, Requested
  <2>4. /\ names \in Updates /\ stack.cur.name = names
    BY <1>t, <2>1, <2>3, HeadingNames
  <2>5. \A v \in 1..(names - 1) : v # stack.cur.name
    BY <1>t, <2>4
  <2>6. Budget(upd', names, inst.cur.gen, inst.cur.req, ws.content)
    BY <1>t, <1>e, <2>3, <2>4, <2>5 DEF Budgets
  <2>7. ws'.content = ws.content
    <3>1. ~ApplyWorkspace
      BY <1>t, <2>1, ApplyEffect
    <3> QED
      BY <1>t, <3>1, ContentStays
  <2>8. ASSUME NEW u \in Updates, Waiting(u)'
        PROVE  Budget(upd', u, upd'[u].gen, upd'[u].req, ws'.content)
    <3>1. CASE u = names
      BY <2>2, <2>3, <2>6, <2>7, <3>1
    <3>2. CASE u # names
      BY <1>w, <2>2, <2>8, <3>2 DEF Waiting
    <3> QED
      BY <3>1, <3>2
  <2>9. ASSUME NEW u \in Updates, upd'[u].ran # NoContent
        PROVE  upd'[u].obj # "none" /\ Budget(upd', u, upd'[u].gen, upd'[u].req, upd'[u].ran)
    BY <1>r, <2>2, <2>9
  <2> QED
    BY <1>1, <2>8, <2>9 DEF Budgets
<1> QED
  BY <1>t, <1>2, <1>3, StepCases, InertSteps

LEMMA BudgetInit == Init => BudgetInv
<1> SUFFICES ASSUME Init PROVE BudgetInv
  OBVIOUS
<1>1. /\ pc = "idle" /\ stack = NewStack /\ cache = NewStack /\ inst = NewStack
      /\ upd = [u \in Updates |-> NoUpdate]
  BY DEF Init
<1>2. RecordInv
  BY RecordInit
<1>3. GenOrders /\ Requested
  BY <1>1 DEF GenOrders, GenOrder, Requested, Heading, NewStack, NilLast, NilCurrent
<1>4. Tallied /\ CurrentIs
  BY <1>1 DEF Tallied, Counted, CurrentIs, Known, Heading, NewStack, NilLast, NilCurrent
<1>5. Due /\ Budgets
  BY <1>1 DEF Due, Budgets, Heading, Waiting, NoUpdate
<1> QED
  BY <1>2, <1>3, <1>4, <1>5 DEF BudgetInv, CountInv

\* An unchanged Stack that keeps failing is retried a bounded number of times, whatever
\* restarts, failing calls, deletions and failing workspaces do to the reconciles between
\* the attempts: the failures that Reconcile carries over from one LastUpdate to the next
\* count every Update of the same generation, request and revision, and isSynced stops at
\* MaxUpdateFailures.  An Update that the Stack forgets is not counted: hence the
\* hypothesis.
THEOREM RetriesBounded ==
    ASSUME ReadYourWrites
    PROVE  Spec /\ []~Forgetting => []RetryBudget
<1>1. Init => BudgetInv
  BY BudgetInit
<1>2. BudgetInv /\ [Next]_vars /\ ~Forgetting' => BudgetInv'
  BY CountStep, DueStep, BudgetsStep DEF BudgetInv
<1>3. BudgetInv => RetryBudget
  <2> SUFFICES ASSUME BudgetInv, NEW u \in Updates, u > MaxUpdateFailures + 1
               PROVE  \E v \in (u - MaxUpdateFailures - 1)..u :
                          \/ upd[v].phase # "failed" \/ upd[v].ran = NoContent
                          \/ upd[v].gen # upd[u].gen \/ upd[v].req # upd[u].req
                          \/ upd[v].ran # upd[u].ran
    BY DEF RetryBudget
  <2>1. u \in Nat /\ u \in (u - MaxUpdateFailures - 1)..u
    BY BoundAssumption DEF Updates
  <2>2. CASE upd[u].ran = NoContent
    BY <2>1, <2>2
  <2>3. CASE upd[u].ran # NoContent
    <3>1. Budget(upd, u, upd[u].gen, upd[u].req, upd[u].ran)
      BY <2>3 DEF BudgetInv, Budgets
    <3>2. PICK v \in (u - MaxUpdateFailures - 1)..(u - 1) :
              \/ upd[v].phase # "failed" \/ upd[v].ran = NoContent
              \/ upd[v].gen # upd[u].gen \/ upd[v].req # upd[u].req
              \/ upd[v].ran # upd[u].ran
      BY <3>1 DEF Budget
    <3>3. v \in (u - MaxUpdateFailures - 1)..u
      BY <2>1, BoundAssumption
    <3> QED
      BY <3>2, <3>3
  <2> QED
    BY <2>2, <2>3
<1> QED
  BY <1>1, <1>2, <1>3, PTL DEF Spec
=============================================================================
