------------------------ MODULE UpdateController_proofs ------------------------
(***************************************************************************)
(* Proofs about the Update reconciler, for any budget of faults: it keeps  *)
(* its types, reports success only of what succeeded and, when a reconcile *)
(* starts with its own writes in the cache, implements UpdateLifecycle.    *)
(***************************************************************************)
EXTENDS UpdateController, TLAPS

-----------------------------------------------------------------------------
(* Type correctness.                                                       *)

Budgets == [api : Nat, agent : Nat, ws : Nat, del : Nat, crash : Nat]

LEMMA NewUpdateType == NewUpdate \in Objects /\ NoStatus \in Statuses /\ Idle \in Sessions
BY ConstantAssumption DEF NewUpdate, Objects, NoStatus, Statuses, Truth, Idle, Sessions

LEMMA InitType == Init => TypeOK
<1> SUFFICES ASSUME Init PROVE TypeOK
  OBVIOUS
<1>1. left \in Budgets
  BY ConstantAssumption DEF Init, Budgets
<1>2. obj \in Objects /\ cache \in Objects /\ inst \in Objects /\ sess \in Sessions
  BY NewUpdateType DEF Init
<1>3. ws \in WorkspaceStates
  BY ConstantAssumption DEF Init
<1> QED
  BY <1>1, <1>2, <1>3 DEF Init, TypeOK, Budgets

LEMMA FaultType ==
    ASSUME TypeOK, NEW kind \in {"api", "agent", "crash"}, Fault(kind)
    PROVE  left' \in Budgets
BY DEF TypeOK, Fault, Budgets

LEMMA FinishType ==
    ASSUME TypeOK, NEW how \in {"stop", "later", "error"}, Finish(how)
    PROVE  /\ pc' = "idle" /\ inst' \in Objects /\ sess' \in Sessions /\ active' \in BOOLEAN
           /\ timer' \in BOOLEAN /\ queue' \in BOOLEAN /\ cache' \in Objects
BY NewUpdateType DEF TypeOK, Finish, End

LEMMA WriteType ==
    ASSUME TypeOK, NEW p \in Truth, NEW f \in Truth, NEW c \in Truth, Write(p, f, c)
    PROVE  obj' \in Objects /\ left' \in Budgets
<1>1. NewStatus(p, f, c) \in Statuses
  BY DEF TypeOK, NewStatus, Statuses, Objects
<1> QED
  BY <1>1 DEF TypeOK, Write, Objects, Budgets

LEMMA WriteFailsType ==
    ASSUME TypeOK, WriteFails
    PROVE  obj' \in Objects /\ left' \in Budgets
BY FaultType DEF TypeOK, WriteFails, Budgets

LEMMA DeletedType == ASSUME NEW o \in Objects PROVE Deleted(o) \in Objects
<1>1. [o EXCEPT !.deleting = TRUE, !.gen = @ + 1, !.exists = o.finalizer] \in Objects
  <2>1. o.gen + 1 \in Nat /\ o.finalizer \in BOOLEAN
    BY DEF Objects
  <2>2. \A g \in Nat, e \in BOOLEAN : [o EXCEPT !.deleting = TRUE, !.gen = g, !.exists = e] \in Objects
    BY DEF Objects
  <2> QED
    BY <2>1, <2>2
<1> QED
  BY <1>1 DEF Deleted

LEMMA TypeStep == TypeOK /\ [Next]_vars => TypeOK'
<1> SUFFICES ASSUME TypeOK, [Next]_vars PROVE TypeOK'
  OBVIOUS
<1>1. CASE UNCHANGED vars
  BY <1>1 DEF vars, cacheVars, sessVars, wsVars, runVars, TypeOK
<1>2. CASE Tick
  BY <1>2 DEF Tick, cacheVars, sessVars, wsVars, runVars, TypeOK
<1>3. CASE DeleteUpdate
  <2>1. left' \in Budgets
    BY <1>3 DEF DeleteUpdate, TypeOK, Budgets
  <2> QED
    BY <1>3, <2>1, DeletedType DEF DeleteUpdate, cacheVars, sessVars, wsVars, runVars, TypeOK, Budgets
<1>4. CASE Absorb
  <2>1. obj' \in Objects
    BY <1>4 DEF Absorb, TypeOK, Objects
  <2> QED
    BY <1>4, <2>1 DEF Absorb, cacheVars, sessVars, wsVars, runVars, TypeOK
<1>5. CASE RunEnds
  BY <1>5 DEF RunEnds, cacheVars, sessVars, wsVars, TypeOK
<1>6. CASE WorkspaceReady \/ WorkspaceGone
  BY <1>6 DEF WorkspaceReady, WorkspaceGone, SetWorkspace, WorkspaceStates, cacheVars, sessVars, runVars, TypeOK
<1>7. CASE WorkspaceUnready \/ DeleteWorkspace
  <2>1. left' \in Budgets
    BY <1>7 DEF WorkspaceUnready, DeleteWorkspace, TypeOK, Budgets
  <2> QED
    BY <1>7, <2>1 DEF WorkspaceUnready, DeleteWorkspace, SetWorkspace, WorkspaceStates, cacheVars, sessVars,
                      runVars, TypeOK, Budgets
<1>8. CASE Orphan
  <2>1. obj' \in Objects
    BY <1>8 DEF Orphan, TypeOK, Objects
  <2> QED
    BY <1>8, <2>1 DEF Orphan, cacheVars, sessVars, wsVars, runVars, TypeOK
<1>9. CASE SyncCache
  BY <1>9 DEF SyncCache, sessVars, wsVars, runVars, TypeOK
<1>10. CASE TimerFires
  BY <1>10 DEF TimerFires, sessVars, wsVars, runVars, TypeOK
<1>11. CASE MapWorkspaceToUpdate
  BY <1>11 DEF MapWorkspaceToUpdate, sessVars, runVars, TypeOK
<1>12. CASE Start
  <2>1. [Idle EXCEPT !.aliased = (cache.status # NoStatus)] \in Sessions
    BY DEF Idle, Sessions
  <2> QED
    BY <1>12, <2>1 DEF Start, sessVars, wsVars, runVars, TypeOK
<1>13. CASE Complete
  <2>1. obj' \in Objects /\ left' \in Budgets
    BY <1>13, DeletedType, WriteFailsType DEF Complete, TypeOK, Budgets
  <2>2. \E how \in {"stop", "later", "error"} : Finish(how)
    BY <1>13 DEF Complete
  <2> QED
    BY <1>13, <2>1, <2>2, FinishType DEF Complete, wsVars, runVars, TypeOK, Budgets
<1>14. CASE MarkFailed
  <2>1. obj' \in Objects /\ left' \in Budgets
    BY <1>14, WriteType, WriteFailsType DEF MarkFailed, Truth
  <2>2. \E how \in {"stop", "later", "error"} : Finish(how)
    BY <1>14 DEF MarkFailed
  <2> QED
    BY <1>14, <2>1, <2>2, FinishType DEF MarkFailed, wsVars, runVars, TypeOK, Budgets
<1>15. CASE MarkProgressing
  <2>1. obj' \in Objects /\ left' \in Budgets
    BY <1>15, WriteType, WriteFailsType DEF MarkProgressing, Truth
  <2>2. \/ Finish("error")
        \/ pc' = "started" /\ inst' = obj' /\ UNCHANGED <<sess, active, cacheVars>>
    BY <1>15 DEF MarkProgressing
  <2> QED
    BY <1>15, <2>1, <2>2, FinishType DEF MarkProgressing, wsVars, runVars, cacheVars, TypeOK, Budgets
<1>16. CASE Unreachable
  <2>1. left' \in Budgets
    BY <1>16, FaultType DEF Unreachable, TypeOK, Budgets
  <2>2. \E n \in {"stop", "later"} : Goto("backoff", [sess EXCEPT !.next = n])
    BY <1>16 DEF Unreachable
  <2>3. sess' \in Sessions
    BY <2>2 DEF Goto, TypeOK, Sessions
  <2> QED
    BY <1>16, <2>1, <2>2, <2>3 DEF Goto, Unreachable, wsVars, runVars, cacheVars, TypeOK, Budgets
<1>17. CASE RequestFailed
  <2>1. left' \in Budgets
    BY <1>17, FaultType DEF RequestFailed
  <2>2. Finish("error") \/ Goto("backoff", [sess EXCEPT !.next = "error"])
    BY <1>17 DEF RequestFailed
  <2>5. run' \in {"none", "running", "succeeded", "failed"} /\ runs' \in Nat
    BY <1>17 DEF RequestFailed, MayHaveBegun, runVars, TypeOK
  <2>3. CASE Finish("error")
    BY <1>17, <2>1, <2>3, <2>5, FinishType DEF RequestFailed, wsVars, TypeOK, Budgets
  <2>4. CASE Goto("backoff", [sess EXCEPT !.next = "error"])
    <3>1. sess' \in Sessions
      BY <2>4 DEF Goto, TypeOK, Sessions
    <3> QED
      BY <1>17, <2>1, <2>4, <2>5, <3>1 DEF Goto, RequestFailed, wsVars, cacheVars, TypeOK, Budgets
  <2> QED
    BY <2>2, <2>3, <2>4
<1>18. CASE BackOff
  <2>1. obj' \in Objects /\ left' \in Budgets
    BY <1>18, WriteType, WriteFailsType DEF BackOff, Truth
  <2>2. \E how \in {"stop", "later", "error"} : Finish(how)
    BY <1>18 DEF BackOff, TypeOK, Sessions
  <2> QED
    BY <1>18, <2>1, <2>2, FinishType DEF BackOff, wsVars, runVars, TypeOK, Budgets
<1>19. CASE RunStarts
  BY <1>19 DEF RunStarts, Goto, cacheVars, wsVars, TypeOK
<1>20. CASE ReceiveResult
  <2>1. sess' \in Sessions
    BY <1>20 DEF ReceiveResult, Goto, TypeOK, Sessions
  <2> QED
    BY <1>20, <2>1 DEF ReceiveResult, Goto, cacheVars, wsVars, runVars, TypeOK
<1>21. CASE StreamBreaks
  <2>1. left' \in Budgets
    BY <1>21, FaultType DEF StreamBreaks
  <2>2. CASE Finish("error")
    BY <1>21, <2>1, <2>2, FinishType DEF StreamBreaks, wsVars, runVars, TypeOK, Budgets
  <2>3. ASSUME NEW r \in {"none", "succeeded", "failed"},
               Goto("report", [sess EXCEPT !.result = r, !.next = "error"])
        PROVE  TypeOK'
    <3>1. sess' \in Sessions
      BY <2>3 DEF Goto, TypeOK, Sessions
    <3> QED
      BY <1>21, <2>1, <2>3, <3>1 DEF Goto, StreamBreaks, wsVars, runVars, cacheVars, TypeOK, Budgets
  <2>4. sess.result \in {"none", "succeeded", "failed"}
    BY DEF TypeOK, Sessions
  <2> QED
    BY <1>21, <2>2, <2>3, <2>4 DEF StreamBreaks
<1>22. CASE Report
  <2>1. obj' \in Objects /\ left' \in Budgets
    BY <1>22, WriteType, WriteFailsType DEF Report, Truth
  <2>2. \E how \in {"stop", "later", "error"} : Finish(how)
    BY <1>22 DEF Report, TypeOK, Sessions
  <2> QED
    BY <1>22, <2>1, <2>2, FinishType DEF Report, wsVars, runVars, TypeOK, Budgets
<1>23. CASE Crash
  <2>1. left' \in Budgets
    BY <1>23, FaultType DEF Crash
  <2> QED
    BY <1>23, <2>1, NewUpdateType DEF Crash, End, runVars, TypeOK, Budgets
<1> QED
  BY <1>1, <1>2, <1>3, <1>4, <1>5, <1>6, <1>7, <1>8, <1>9, <1>10, <1>11, <1>12, <1>13, <1>14,
     <1>15, <1>16, <1>17, <1>18, <1>19, <1>20, <1>21, <1>22, <1>23 DEF Next, World, Reconcile

(* The Update, its copies in the cache and in the reconcile, and every     *)
(* remaining budget of faults keep their types.                            *)
THEOREM TypeCorrect == Spec => []TypeOK
BY InitType, TypeStep, PTL DEF Spec

-----------------------------------------------------------------------------
(* What the steps do to the object.                                        *)

LEMMA WriteEffect ==
    ASSUME TypeOK, NEW p, NEW f, NEW c, Write(p, f, c)
    PROVE  /\ obj.exists /\ obj'.exists
           /\ obj'.status.progressing = p /\ obj'.status.failed = f /\ obj'.status.complete = c
<1>1. obj' = [obj EXCEPT !.status = NewStatus(p, f, c)] /\ obj.exists
  BY DEF Write
<1>2. obj'.status = NewStatus(p, f, c) /\ obj'.exists = obj.exists
  BY <1>1 DEF TypeOK, Objects
<1> QED
  BY <1>1, <1>2 DEF NewStatus

\* Every other step keeps the status, and brings back no object.
StatusKept == obj'.status = obj.status /\ (obj'.exists => obj.exists)

LEMMA DeletedKept ==
    ASSUME TypeOK, obj.exists, obj' = Deleted(obj) PROVE StatusKept
<1>1. CASE obj.deleting
  BY <1>1 DEF Deleted, StatusKept
<1>2. CASE ~obj.deleting
  <2>1. obj' = [obj EXCEPT !.deleting = TRUE, !.gen = @ + 1, !.exists = obj.finalizer]
    BY <1>2 DEF Deleted
  <2> QED
    BY <2>1 DEF StatusKept, TypeOK, Objects
<1> QED
  BY <1>1, <1>2

\* The steps between which the reconcile has nothing to say.
Elsewhere ==
    UNCHANGED vars \/ Tick \/ DeleteUpdate \/ Absorb \/ WorkspaceReady \/ WorkspaceUnready
      \/ DeleteWorkspace \/ WorkspaceGone \/ Orphan \/ SyncCache \/ TimerFires
      \/ MapWorkspaceToUpdate

LEMMA ElsewhereKept ==
    ASSUME TypeOK, Elsewhere
    PROVE  StatusKept /\ UNCHANGED <<pc, inst, sess, run, runs>>
<1>1. UNCHANGED <<pc, inst, sess, run, runs>>
  BY DEF Elsewhere, vars, sessVars, runVars, Tick, DeleteUpdate, Absorb, WorkspaceReady, WorkspaceUnready,
         DeleteWorkspace, WorkspaceGone, SetWorkspace, Orphan, SyncCache, TimerFires, MapWorkspaceToUpdate
<1>2. CASE DeleteUpdate
  BY <1>1, <1>2, DeletedKept DEF DeleteUpdate
<1>3. CASE Absorb
  BY <1>1, <1>3 DEF Absorb, StatusKept, TypeOK, Objects
<1>4. CASE Orphan
  BY <1>1, <1>4 DEF Orphan, StatusKept, TypeOK, Objects
<1>5. CASE ~(DeleteUpdate \/ Absorb \/ Orphan)
  <2>1. obj' = obj
    BY <1>5 DEF Elsewhere, vars, Tick, WorkspaceReady, WorkspaceUnready,
         DeleteWorkspace, WorkspaceGone, SyncCache, TimerFires, MapWorkspaceToUpdate
  <2> QED
    BY <1>1, <2>1 DEF StatusKept
<1> QED
  BY <1>2, <1>3, <1>4, <1>5

\* The reconcile ends without having written.
Ends == pc' = "idle" /\ StatusKept /\ UNCHANGED <<run, runs>>

LEMMA WriteFailsEnds ==
    ASSUME WriteFails, Finish("error"), UNCHANGED runVars PROVE Ends
BY DEF WriteFails, Finish, End, Ends, StatusKept, runVars

LEMMA CompleteEnds == ASSUME TypeOK, Complete PROVE Ends
<1>1. pc' = "idle" /\ UNCHANGED <<run, runs>>
  BY DEF Complete, Finish, End, runVars
<1>2. obj' = obj \/ (obj.exists /\ obj' = Deleted(obj))
  BY DEF Complete, WriteFails
<1> QED
  BY <1>1, <1>2, DeletedKept DEF Ends, StatusKept

LEMMA CrashEnds == ASSUME Crash PROVE Ends
BY DEF Crash, End, Ends, StatusKept, runVars

\* Every step, by what it does to the object, the operation and the reconcile.
LEMMA Steps ==
    ASSUME TypeOK, [Next]_vars
    PROVE  \/ Elsewhere
           \/ Ends
           \/ Start \/ RunEnds \/ RunStarts \/ ReceiveResult
           \/ pc = "begun" /\ inst.status.complete # "True" /\ Write("False", "True", "True")
                /\ pc' = "idle" /\ UNCHANGED runVars
           \/ pc = "begun" /\ inst.status.complete # "True" /\ inst.status.progressing # "True"
                /\ Write("True", "False", "False") /\ pc' = "started" /\ UNCHANGED runVars
           \/ pc = "started" /\ pc' = "backoff" /\ UNCHANGED <<obj, run, runs>>
           \/ pc = "started" /\ pc' \in {"backoff", "idle"} /\ obj' = obj /\ MayHaveBegun
           \/ pc = "backoff" /\ Write("False", "False", "False") /\ pc' = "idle" /\ UNCHANGED runVars
           \/ /\ pc = "running" /\ pc' = "report" /\ UNCHANGED <<obj, run, runs>>
              /\ sess'.result = "failed" \/ "plain" \in StreamErrors
           \/ /\ pc = "report" /\ pc' = "idle" /\ UNCHANGED runVars
              /\ Write("False", IF sess.result = "failed" THEN "True" ELSE "False", "True")
<1>1. CASE MarkFailed
  BY <1>1, WriteFailsEnds DEF MarkFailed, Finish, End
<1>2. CASE MarkProgressing
  BY <1>2, WriteFailsEnds DEF MarkProgressing, MustFail
<1>3. CASE Unreachable
  BY <1>3 DEF Unreachable, Goto, runVars
<1>4. CASE RequestFailed
  BY <1>4 DEF RequestFailed, Goto, Finish, End, Ends, StatusKept, runVars
<1>5. CASE BackOff
  BY <1>5, WriteFailsEnds DEF BackOff, Finish, End
<1>6. CASE StreamBreaks
  <2>1. CASE Finish("error")
    BY <1>6, <2>1 DEF StreamBreaks, Finish, End, Ends, StatusKept, runVars
  <2>2. CASE \E e \in StreamErrors :
               Goto("report", [sess EXCEPT !.result = IF e = "status" THEN "failed" ELSE @,
                                           !.next = "error"])
    <3>1. PICK e \in StreamErrors :
            Goto("report", [sess EXCEPT !.result = IF e = "status" THEN "failed" ELSE @,
                                        !.next = "error"])
      BY <2>2
    <3>2. e = "status" \/ e = "plain"
      BY <3>1, ConstantAssumption
    <3>3. e = "status" => sess'.result = "failed"
      BY <3>1 DEF Goto, TypeOK, Sessions
    <3> QED
      BY <1>6, <3>1, <3>2, <3>3 DEF StreamBreaks, Goto, runVars
  <2> QED
    BY <1>6, <2>1, <2>2 DEF StreamBreaks
<1>7. CASE Report
  BY <1>7, WriteFailsEnds DEF Report, Finish, End
<1> QED
  BY <1>1, <1>2, <1>3, <1>4, <1>5, <1>6, <1>7, CompleteEnds, CrashEnds
     DEF Next, World, Reconcile, Elsewhere

-----------------------------------------------------------------------------
(* Success is real.                                                        *)

\* From its first write on, the object says that the reconcile is at work.
AtWork ==
    pc \in {"started", "backoff", "running", "report"} =>
        obj.status.progressing = "True" /\ obj.status.complete # "True"

\* The result that is about to be reported is that of the operation.
Outcome ==
    pc = "report" => \/ sess.result = "failed"
                     \/ sess.result = "succeeded" /\ run = "succeeded"

Real == obj.status.complete = "True" /\ obj.status.failed # "True" => run = "succeeded"

RealInv == AtWork /\ Outcome /\ Real

LEMMA RealStep ==
    ASSUME StreamErrors \subseteq {"status"}, TypeOK, RealInv, [Next]_vars PROVE RealInv'
<1> USE DEF RealInv, AtWork, Outcome, Real
<1>1. CASE Elsewhere
  BY <1>1, ElsewhereKept DEF StatusKept
<1>2. CASE Ends
  BY <1>2 DEF Ends, StatusKept
<1>3. CASE Start
  <2>1. pc' \in {"idle", "begun"} /\ UNCHANGED <<obj, run>>
    BY <1>3 DEF Start, sessVars, runVars
  <2> QED
    BY <2>1
<1>4. CASE RunEnds
  BY <1>4 DEF RunEnds, sessVars
<1>5. CASE RunStarts
  BY <1>5 DEF RunStarts, Goto
<1>6. CASE ReceiveResult
  <2>1. pc' = "report" /\ pc = "running" /\ run \in {"succeeded", "failed"} /\ UNCHANGED <<obj, run>>
    BY <1>6 DEF ReceiveResult, Goto, runVars
  <2>2. sess'.result = run
    BY <1>6 DEF ReceiveResult, Goto, TypeOK, Sessions
  <2> QED
    BY <2>1, <2>2
<1>7. CASE pc = "begun" /\ Write("False", "True", "True") /\ pc' = "idle" /\ UNCHANGED runVars
  BY <1>7, WriteEffect
<1>8. CASE pc = "begun" /\ Write("True", "False", "False") /\ pc' = "started" /\ UNCHANGED runVars
  BY <1>8, WriteEffect
<1>9. CASE pc = "started" /\ pc' = "backoff" /\ UNCHANGED <<obj, run, runs>>
  BY <1>9
<1>10. CASE pc = "backoff" /\ Write("False", "False", "False") /\ pc' = "idle" /\ UNCHANGED runVars
  BY <1>10, WriteEffect
<1>11. CASE pc = "running" /\ pc' = "report" /\ sess'.result = "failed" /\ UNCHANGED <<obj, run, runs>>
  BY <1>11
<1>13. CASE pc = "started" /\ pc' \in {"backoff", "idle"} /\ obj' = obj /\ MayHaveBegun
  BY <1>13
<1>12. CASE /\ pc = "report" /\ pc' = "idle" /\ UNCHANGED runVars
            /\ Write("False", IF sess.result = "failed" THEN "True" ELSE "False", "True")
  BY <1>12, WriteEffect DEF runVars
<1> QED
  BY Steps, <1>1, <1>2, <1>3, <1>4, <1>5, <1>6, <1>7, <1>8, <1>9, <1>10, <1>11, <1>12, <1>13

LEMMA RealInvariant ==
    ASSUME StreamErrors \subseteq {"status"} PROVE Spec => [](TypeOK /\ RealInv)
<1>1. Init => RealInv
  BY DEF Init, RealInv, AtWork, Outcome, Real, NewUpdate, NoStatus
<1>2. TypeOK /\ RealInv /\ [Next]_vars => RealInv'
  BY RealStep
<1> QED
  BY <1>1, <1>2, TypeCorrect, PTL DEF Spec

(* An Update that is reported as successful did succeed, whatever calls    *)
(* fail, whatever is deleted, however often the operator restarts, however *)
(* old the cache is that a reconcile starts from, and even if the agent    *)
(* has begun an operation whose request failed, as long as the error that  *)
(* breaks a stream has a status, as the errors of gRPC do.                 *)
THEOREM ReportsRealSuccess ==
    ASSUME StreamErrors \subseteq {"status"} PROVE Spec => []SuccessIsReal
<1>1. RealInv => SuccessIsReal
  BY DEF RealInv, Real, SuccessIsReal, Phase
<1> QED
  BY <1>1, RealInvariant, PTL

-----------------------------------------------------------------------------
(* The life cycle.                                                         *)

\* The reconcile decides on the status that the object has.
Current == pc = "begun" => inst.status = obj.status

\* An operation that was started shows in the status, and one that may still be
\* put back was not started.
Once ==
    /\ runs > 0 => obj.status.progressing = "True" \/ obj.status.complete = "True"
    /\ pc \in {"started", "backoff"} => runs = 0
    /\ pc \in {"running", "report"} => runs = 1
    /\ runs \in {0, 1}

OnceInv == Current /\ Once

LEMMA OnceStep ==
    ASSUME ReadYourWrites, BegunUnanswered \subseteq {FALSE}, TypeOK, RealInv, OnceInv, [Next]_vars
    PROVE  OnceInv'
<1> USE DEF RealInv, AtWork, OnceInv, Current, Once
<1>0. runs \in Nat
  BY DEF TypeOK
<1>1. CASE Elsewhere
  BY <1>1, ElsewhereKept DEF StatusKept
<1>2. CASE Ends
  BY <1>2 DEF Ends, StatusKept
<1>3. CASE Start
  <2>1. pc' = "idle" \/ (pc' = "begun" /\ inst' = cache)
    BY <1>3 DEF Start, sessVars
  <2>2. UNCHANGED <<obj, runs>> /\ cache.status = obj.status
    BY <1>3 DEF Start, SeesOwnWrites, runVars
  <2> QED
    BY <2>1, <2>2
<1>4. CASE RunEnds
  BY <1>4 DEF RunEnds, sessVars
<1>5. CASE RunStarts
  BY <1>0, <1>5 DEF RunStarts, Goto
<1>6. CASE ReceiveResult
  BY <1>6 DEF ReceiveResult, Goto, runVars
<1>7. CASE pc = "begun" /\ Write("False", "True", "True") /\ pc' = "idle" /\ UNCHANGED runVars
  BY <1>7, WriteEffect DEF runVars
<1>8. CASE /\ pc = "begun" /\ inst.status.complete # "True" /\ inst.status.progressing # "True"
           /\ Write("True", "False", "False") /\ pc' = "started" /\ UNCHANGED runVars
  BY <1>0, <1>8, WriteEffect DEF runVars
<1>9. CASE pc = "started" /\ pc' = "backoff" /\ UNCHANGED <<obj, run, runs>>
  BY <1>9
<1>10. CASE pc = "backoff" /\ Write("False", "False", "False") /\ pc' = "idle" /\ UNCHANGED runVars
  BY <1>10, WriteEffect DEF runVars
<1>11. CASE pc = "running" /\ pc' = "report" /\ UNCHANGED <<obj, run, runs>>
  BY <1>11
<1>13. CASE pc = "started" /\ pc' \in {"backoff", "idle"} /\ obj' = obj /\ MayHaveBegun
  <2>1. UNCHANGED runs
    BY <1>13 DEF MayHaveBegun
  <2> QED
    BY <1>13, <2>1
<1>12. CASE /\ pc = "report" /\ pc' = "idle" /\ UNCHANGED runVars
            /\ Write("False", IF sess.result = "failed" THEN "True" ELSE "False", "True")
  BY <1>12, WriteEffect DEF runVars
<1> QED
  BY Steps, <1>1, <1>2, <1>3, <1>4, <1>5, <1>6, <1>7, <1>8, <1>9, <1>10, <1>11, <1>12, <1>13

LEMMA LifecycleInit == Init => Lifecycle!Init
BY DEF Init, Lifecycle!Init, Phase, NewUpdate, NoStatus

LEMMA LifecycleStep ==
    ASSUME ReadYourWrites, BegunUnanswered \subseteq {FALSE}, TypeOK, RealInv, OnceInv, [Next]_vars
    PROVE  [Lifecycle!Next]_(Lifecycle!vars)
<1> USE DEF RealInv, AtWork, OnceInv, Current, Once
<1>0. runs \in Nat
  BY DEF TypeOK
<1>1. ASSUME StatusKept, runs' = runs PROVE [Lifecycle!Next]_(Lifecycle!vars)
  <2>1. Phase' \in {Phase, "gone"}
    BY <1>1 DEF StatusKept, Phase
  <2> QED
    BY <1>1, <2>1 DEF Lifecycle!vars, Lifecycle!Next, Lifecycle!Remove
<1>2. CASE Elsewhere
  BY <1>1, <1>2, ElsewhereKept
<1>3. CASE Ends
  BY <1>1, <1>3 DEF Ends
<1>4. CASE Start \/ RunEnds \/ ReceiveResult
  BY <1>1, <1>4 DEF Start, RunEnds, ReceiveResult, StatusKept, runVars
<1>5. CASE RunStarts
  <2>1. Phase' = Phase /\ Phase \in {"progressing", "gone"} /\ runs = 0 /\ runs' = 1
    BY <1>0, <1>5 DEF RunStarts, Phase
  <2> QED
    BY <2>1 DEF Lifecycle!vars, Lifecycle!Next, Lifecycle!RunStarts
<1>6. CASE /\ pc = "begun" /\ inst.status.complete # "True" /\ Write("False", "True", "True")
           /\ UNCHANGED runVars
  <2>1. Phase \in {"pending", "progressing"} /\ Phase' = "failed" /\ runs' = runs
    BY <1>6, WriteEffect DEF Phase, runVars
  <2> QED
    BY <2>1 DEF Lifecycle!vars, Lifecycle!Next, Lifecycle!Fail
<1>7. CASE /\ pc = "begun" /\ inst.status.complete # "True" /\ inst.status.progressing # "True"
           /\ Write("True", "False", "False") /\ UNCHANGED runVars
  <2>1. Phase = "pending" /\ Phase' = "progressing" /\ runs' = runs
    BY <1>7, WriteEffect DEF Phase, runVars
  <2> QED
    BY <2>1 DEF Lifecycle!vars, Lifecycle!Next, Lifecycle!Begin
<1>8. CASE UNCHANGED <<obj, run, runs>>
  BY <1>1, <1>8 DEF StatusKept
<1>11. CASE obj' = obj /\ MayHaveBegun
  <2>1. UNCHANGED runs
    BY <1>11 DEF MayHaveBegun
  <2> QED
    BY <1>1, <1>11, <2>1 DEF StatusKept
<1>9. CASE pc = "backoff" /\ Write("False", "False", "False") /\ UNCHANGED runVars
  <2>1. Phase = "progressing" /\ Phase' = "pending" /\ runs = 0 /\ runs' = runs
    BY <1>0, <1>9, WriteEffect DEF Phase, runVars
  <2> QED
    BY <2>1 DEF Lifecycle!vars, Lifecycle!Next, Lifecycle!BackOff
<1>10. CASE /\ pc = "report" /\ UNCHANGED runVars
            /\ Write("False", IF sess.result = "failed" THEN "True" ELSE "False", "True")
  <2>1. Phase = "progressing" /\ Phase' \in {"succeeded", "failed"} /\ runs = 1 /\ runs' = runs
    BY <1>0, <1>10, WriteEffect DEF Phase, runVars
  <2> QED
    BY <2>1 DEF Lifecycle!vars, Lifecycle!Next, Lifecycle!Succeed, Lifecycle!Fail
<1> QED
  BY Steps, <1>2, <1>3, <1>4, <1>5, <1>6, <1>7, <1>8, <1>9, <1>10, <1>11

(* When a reconcile starts with its own earlier writes in the cache, and   *)
(* the agent has not begun an operation whose request failed, the Update   *)
(* controller implements the life cycle of an Update: the operation is     *)
(* started at most once (`runs', which counts the starts, goes from 0 to 1 *)
(* and stays), whatever fails or restarts, and a reported outcome is final.*)
THEOREM ImplementsLifecycle ==
    ASSUME ReadYourWrites, BegunUnanswered \subseteq {FALSE}, StreamErrors \subseteq {"status"}
    PROVE  Spec => LifecycleImplemented
<1>1. Init => OnceInv
  BY DEF Init, OnceInv, Current, Once
<1>2. TypeOK /\ RealInv /\ OnceInv /\ [Next]_vars => OnceInv'
  BY OnceStep
<1>3. TypeOK /\ RealInv /\ OnceInv /\ [Next]_vars => [Lifecycle!Next]_(Lifecycle!vars)
  BY LifecycleStep
<1> QED
  BY <1>1, <1>2, <1>3, LifecycleInit, RealInvariant, PTL DEF Spec, LifecycleImplemented, Lifecycle!Spec

=============================================================================
