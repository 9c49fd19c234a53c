----------------------------- MODULE Prerequisites -----------------------------
(***************************************************************************)
(* Stacks that require each other: how the Stack controller checks the     *)
(* prerequisites of a Stack, asks one that is out of date for another run  *)
(* by annotating it, and wakes the Stacks that wait for it                 *)
(* (stack_controller.go: Reconcile step 3, isRequirementSatisfied,         *)
(* ReconcileRequestedPredicate, stackReadyPredicate, enqueueDependents).   *)
(* Everything else of a Stack's reconcile is in StackController and is     *)
(* reduced here to what the checks look at.                                *)
(*                                                                         *)
(* A Stack sees the others through the informer cache, which may lag: the  *)
(* changes of a Stack are delivered together, some time after they are     *)
(* made.  Of its own object a Stack sees the latest version.  No Stack is  *)
(* deleted here, and the operator does not restart.                        *)
(*                                                                         *)
(* Time is discrete.  A unit is longer than it takes a queue to drain and  *)
(* the cache to catch up, and an update takes one: no time passes while a  *)
(* Stack is queued or under reconcile.  Ages stop at MaxAge.               *)
(***************************************************************************)
EXTENDS Naturals, Sequences

CONSTANTS
    Stacks,
    Created,     \* those that exist when the operator starts
    Requires,    \* Requires[s]: the prerequisites of s, in order
    Within,      \* Within[s][p]: succeededWithinDuration, 0 if there is none
    MaxAge,
    MaxInputs,   \* bound: edits, requests by users, and new commits
    MaxTroubles  \* bound: updates that fail, below the retry limit, and annotations
                 \* that cannot be written

ASSUME ConstantAssumption ==
    /\ Created \subseteq Stacks
    /\ Requires \in [Stacks -> Seq(Stacks)]
    /\ Within \in [Stacks -> [Stacks -> Nat]]
    /\ MaxAge \in Nat /\ \A s, p \in Stacks : Within[s][p] < MaxAge
    /\ MaxInputs \in Nat /\ MaxTroubles \in Nat

VARIABLES
    stack,  \* the Stack objects, each with the Update that its status names
    cache,  \* the Stacks that others require, as the informer has them
    run,    \* the work queue and the reconcile of each Stack
    left    \* what remains of each bounded kind of input and trouble

vars == <<stack, cache, run, left>>

Prerequisites(s) == {Requires[s][i] : i \in DOMAIN Requires[s]}

\* The Stacks that others require.
Required == UNION {Prerequisites(s) : s \in Stacks}

\* The value of the reconcile request annotation: a user's, or "after-n".
Request  == [by : {"user", "after"}, n : Nat]
User(n)  == [by |-> "user", n |-> n]
After(n) == [by |-> "after", n |-> n]

\* status.lastUpdate.  Updates are numbered; number 0 stands for none.
NoLast   == [n |-> 0, gen |-> 0, req |-> User(0), commit |-> 0, ok |-> FALSE, age |-> 0]
LastType == [n : Nat, gen : Nat, req : Request, commit : Nat, ok : BOOLEAN, age : 0..MaxAge]

\* status.currentUpdate, with how far that Update has come.
NoCurrent   == [n |-> 0, gen |-> 0, req |-> User(0), commit |-> 0, state |-> "none", age |-> 0]
CurrentType == [n : Nat, gen : Nat, req : Request, commit : Nat,
                state : {"none", "running", "succeeded", "failed"}, age : 0..1]

Never == MaxAge + 1

\* good is the age of the newest successful run, for the properties.
Absent == [exists |-> FALSE, gen |-> 1, req |-> User(0), commit |-> 1, pod |-> FALSE,
           names |-> 0, last |-> NoLast, cur |-> NoCurrent, good |-> Never,
           seenGen |-> 0, seenReq |-> User(0), ready |-> FALSE]
StackType == [exists : BOOLEAN, gen : Nat, req : Request, commit : Nat, pod : BOOLEAN,
              names : Nat, last : LastType, cur : CurrentType, good : 0..Never,
              seenGen : Nat, seenReq : Request, ready : BOOLEAN]

\* What a check looks at in the cached Stack.  With `event', a change of the Stack from
\* not ready to ready is yet to be delivered.
Look(x)  == [exists |-> x.exists, gen |-> x.gen, req |-> x.req, last |-> x.last,
             event |-> FALSE]
LookType == [exists : BOOLEAN, gen : Nat, req : Request, last : LastType, event : BOOLEAN]

\* A reconcile: what it has read, and the status that it has yet to save.
Idle == [queued |-> FALSE, timer |-> FALSE, pc |-> "idle", todo |-> <<>>, failed |-> FALSE,
         gen |-> 0, req |-> User(0), commit |-> 0, last |-> NoLast, target |-> {}, n |-> 0]
RunType == [queued : BOOLEAN, timer : BOOLEAN, pc : {"idle", "check", "touch"},
            todo : Seq(Required), failed : BOOLEAN, gen : Nat, req : Request, commit : Nat,
            last : LastType, target : SUBSET Required, n : Nat]

\* Every variable keeps its type: requests, outcomes and ages are what the checks of
\* the prerequisites can compare.
TypeOK ==
    /\ stack \in [Stacks -> StackType]
    /\ cache \in [Required -> LookType]
    /\ run \in [Stacks -> RunType]
    /\ left \in [inputs : Nat, troubles : Nat]

Init ==
    /\ stack = [s \in Stacks |-> [Absent EXCEPT !.exists = s \in Created]]
    /\ cache = [p \in Required |-> Look(stack[p])]
    /\ run = [s \in Stacks |-> [Idle EXCEPT !.queued = s \in Created]]
    /\ left = [inputs |-> MaxInputs, troubles |-> MaxTroubles]

-----------------------------------------------------------------------------
(* Watches.                                                                *)

IsStackReady(x) ==
    /\ x.exists /\ x.gen = x.seenGen /\ x.req = x.seenReq
    /\ x.ready

\* A Stack turns from not ready to ready.
BecomesReady(p, new) == ~IsStackReady(stack[p]) /\ IsStackReady(new[p])

\* A Stack is queued for a new object, generation or request of its own.
Event(s, new) ==
    /\ new[s].exists
    /\ \/ ~stack[s].exists
       \/ stack[s].gen # new[s].gen
       \/ stack[s].req # new[s].req

\* The Stacks become new, and the reconciles now, but for what the watches add.
Write(new, now) ==
    /\ stack' = new
    /\ cache' = [p \in Required |-> [cache[p] EXCEPT !.event = @ \/ BecomesReady(p, new)]]
    /\ run' = [s \in Stacks |-> [now[s] EXCEPT !.queued = @ \/ Event(s, new)]]

UpToDate(p) == cache[p] = Look(stack[p])

\* The cache catches up with a Stack, and those that wait for it are queued.
Deliver(p) ==
    /\ ~UpToDate(p)
    /\ cache' = [cache EXCEPT ![p] = Look(stack[p])]
    /\ run' = [s \in Stacks |->
                 [run[s] EXCEPT !.queued = @ \/ (p \in Prerequisites(s) /\ cache[p].event)]]
    /\ UNCHANGED <<stack, left>>

\* Mutant: what happens to the Update or the workspace of a Stack does not wake it.
EnqueueNothing(s) == run

\* The watches on what belongs to a Stack queue it.
Enqueue(s) == [run EXCEPT ![s].queued = TRUE]

-----------------------------------------------------------------------------
(* Users, time, and the Update and Workspace controllers.                  *)

CreateStack(s) ==
    /\ ~stack[s].exists
    /\ Write([stack EXCEPT ![s].exists = TRUE], run)
    /\ UNCHANGED left

Input == left.inputs > 0 /\ left' = [left EXCEPT !.inputs = @ - 1]

Trouble == left.troubles > 0 /\ left' = [left EXCEPT !.troubles = @ - 1]

EditSpec(s) ==
    /\ Input /\ stack[s].exists
    /\ Write([stack EXCEPT ![s].gen = @ + 1], run)

UserRequest(s) ==
    /\ Input /\ stack[s].exists
    /\ Write([stack EXCEPT ![s].req = User(left.inputs)], run)

NewCommit(s) ==
    /\ Input /\ stack[s].exists
    /\ Write([stack EXCEPT ![s].commit = @ + 1], Enqueue(s))

WorkspaceReady(s) ==
    /\ stack[s].exists /\ ~stack[s].pod
    /\ Write([stack EXCEPT ![s].pod = TRUE], Enqueue(s))
    /\ UNCHANGED left

UpdateSucceeds(s) ==
    /\ stack[s].cur.state = "running" /\ stack[s].cur.age = 1
    /\ Write([stack EXCEPT ![s].cur.state = "succeeded", ![s].good = 0], Enqueue(s))
    /\ UNCHANGED left

UpdateFails(s) ==
    /\ Trouble
    /\ stack[s].cur.state = "running" /\ stack[s].cur.age = 1
    /\ Write([stack EXCEPT ![s].cur.state = "failed"], Enqueue(s))

Older(age) == IF age < MaxAge THEN age + 1 ELSE age

Aged(x) ==
    [x EXCEPT !.last.age = Older(@),
              !.good     = IF @ = Never THEN @ ELSE Older(@),
              !.cur.age  = IF x.cur.state = "running" THEN 1 ELSE @]

Tick ==
    /\ \A p \in Required : UpToDate(p)
    /\ \A s \in Stacks :
         /\ run[s].pc = "idle" /\ ~run[s].queued
         /\ stack[s].cur.state = "running" => stack[s].cur.age = 0
    /\ stack' = [s \in Stacks |-> Aged(stack[s])]
    /\ cache' = [p \in Required |-> Look(Aged(stack[p]))]
    /\ UNCHANGED <<run, left>>

\* The requeue at the end of the cooldown.
TimerFires(s) ==
    /\ run[s].timer /\ stack[s].last.age > 0
    /\ run' = [run EXCEPT ![s].timer = FALSE, ![s].queued = TRUE]
    /\ UNCHANGED <<stack, cache, left>>

-----------------------------------------------------------------------------
(* Reconcile.                                                              *)

\* Mutant: lastResyncTime is not set.
AbsorbedWithoutTime(s) ==
    IF stack[s].cur.state = "none" THEN stack[s].last
    ELSE [n |-> stack[s].cur.n, gen |-> stack[s].cur.gen, req |-> stack[s].cur.req,
          commit |-> stack[s].cur.commit, ok |-> stack[s].cur.state = "succeeded", age |-> Never]

\* The outcome of the current update, if it is complete.
Absorbed(s) ==
    IF stack[s].cur.state = "none" THEN stack[s].last
    ELSE [n |-> stack[s].cur.n, gen |-> stack[s].cur.gen, req |-> stack[s].cur.req,
          commit |-> stack[s].cur.commit, ok |-> stack[s].cur.state = "succeeded", age |-> 0]

\* A failed update is tried again once its cooldown, a unit of time, is over.
IsSynced(s, last) ==
    /\ last.n # 0
    /\ last.gen = stack[s].gen /\ last.req = stack[s].req /\ last.commit = stack[s].commit
    /\ last.ok \/ last.age = 0

\* saveStatus, and the end of the reconcile.
Save(s, status, now) ==
    Write([stack EXCEPT ![s] = status], [run EXCEPT ![s] = [now EXCEPT !.queued = run[s].queued]])

WaitForUpdate(s) ==
    /\ run[s].queued /\ run[s].pc = "idle"
    /\ stack[s].cur.state = "running"
    /\ Write([stack EXCEPT ![s].seenGen = stack[s].gen, ![s].seenReq = stack[s].req,
                           ![s].ready = FALSE],
             [run EXCEPT ![s].queued = FALSE])
    /\ UNCHANGED left

\* Step 2: no update is needed.
KeepSynced(s) ==
    /\ run[s].queued /\ run[s].pc = "idle" /\ stack[s].cur.state # "running"
    /\ IsSynced(s, Absorbed(s))
    /\ Write([stack EXCEPT ![s].last = Absorbed(s), ![s].cur = NoCurrent,
                           ![s].seenGen = stack[s].gen, ![s].seenReq = stack[s].req,
                           ![s].ready = Absorbed(s).ok],
             [run EXCEPT ![s] = [Idle EXCEPT !.timer = ~Absorbed(s).ok]])
    /\ UNCHANGED left

\* Step 3 begins: all prerequisites are looked at, in the cache.
BeginCheck(s) ==
    /\ run[s].queued /\ run[s].pc = "idle" /\ stack[s].cur.state # "running"
    /\ stack[s].exists /\ ~IsSynced(s, Absorbed(s))
    /\ run' = [run EXCEPT ![s] = [Idle EXCEPT !.pc = "check", !.todo = Requires[s],
                                    !.gen = stack[s].gen, !.req = stack[s].req,
                                    !.commit = stack[s].commit, !.last = Absorbed(s)]]
    /\ UNCHANGED <<stack, cache, left>>

\* isRequirementSatisfied, in its parts.
NotRun(x) == x.last.n = 0 \/ x.last.gen # x.gen \/ x.last.req # x.req

\* Mutant: a prerequisite that has run is taken for one that succeeded.
NeverFailed(x) == x.last.n = 0

Failed(x) == ~x.last.ok

OutOfDate(d, x) == d # 0 /\ x.last.age > d

\* One that is only out of date is asked for a run after its last one, unless
\* it has been asked for that already.
CheckPrerequisite(s) ==
    /\ run[s].pc = "check" /\ run[s].todo # <<>>
    /\ LET p     == Head(run[s].todo)
           x     == cache[p]
           fails == ~x.exists \/ NotRun(x) \/ Failed(x)
           old   == ~fails /\ OutOfDate(Within[s][p], x)
           touch == old /\ x.req # After(x.last.n)
       IN run' = [run EXCEPT ![s].todo = Tail(@),
                             ![s].failed = @ \/ fails \/ old,
                             ![s].pc = IF touch THEN "touch" ELSE @,
                             ![s].target = IF touch THEN {p} ELSE {},
                             ![s].n = IF touch THEN x.last.n ELSE 0]
    /\ UNCHANGED <<stack, cache, left>>

\* Mutant: the request names the last update of the Stack that asks.
TouchByOwnUpdate(s) ==
    /\ run[s].pc = "touch"
    /\ Write([p \in Stacks |-> IF p \in run[s].target
                                 THEN [stack[p] EXCEPT !.req = After(run[s].last.n)]
                                 ELSE stack[p]],
             [run EXCEPT ![s].pc = "check", ![s].target = {}, ![s].n = 0])
    /\ UNCHANGED left

\* The annotation is written over whatever is there by now.
Touch(s) ==
    /\ run[s].pc = "touch"
    /\ Write([p \in Stacks |-> IF p \in run[s].target
                                 THEN [stack[p] EXCEPT !.req = After(run[s].n)]
                                 ELSE stack[p]],
             [run EXCEPT ![s].pc = "check", ![s].target = {}, ![s].n = 0])
    /\ UNCHANGED left

\* The reconcile ends with an error and is tried again; no status is saved.
TouchFails(s) ==
    /\ Trouble
    /\ run[s].pc = "touch"
    /\ run' = [run EXCEPT ![s] = [Idle EXCEPT !.queued = TRUE]]
    /\ UNCHANGED <<stack, cache>>

Status(s) == [stack[s] EXCEPT !.last = run[s].last, !.cur = NoCurrent,
                              !.seenGen = run[s].gen, !.seenReq = run[s].req, !.ready = FALSE]

\* A prerequisite is not satisfied: its watch will requeue the Stack, no timer.
AwaitPrerequisites(s) ==
    /\ run[s].pc = "check" /\ run[s].todo = <<>> /\ run[s].failed
    /\ Save(s, Status(s), Idle)
    /\ UNCHANGED left

\* Steps 4 and 5: once the workspace is ready, an update is started.  Its
\* generation is the one that the saved status came back with.
BeginUpdate(s) ==
    /\ run[s].pc = "check" /\ run[s].todo = <<>> /\ ~run[s].failed
    /\ IF stack[s].pod
         THEN Save(s, [Status(s) EXCEPT !.names = @ + 1,
                         !.cur = [NoCurrent EXCEPT !.n = stack[s].names + 1, !.state = "running",
                                    !.gen = stack[s].gen, !.req = run[s].req,
                                    !.commit = run[s].commit]], Idle)
         ELSE Save(s, Status(s), Idle)
    /\ UNCHANGED left

Reconcile(s) ==
    \/ WaitForUpdate(s) \/ KeepSynced(s) \/ BeginCheck(s) \/ CheckPrerequisite(s)
    \/ Touch(s) \/ AwaitPrerequisites(s) \/ BeginUpdate(s)

-----------------------------------------------------------------------------
Next ==
    \/ Tick
    \/ \E p \in Required : Deliver(p)
    \/ \E s \in Stacks :
         \/ CreateStack(s) \/ EditSpec(s) \/ UserRequest(s) \/ NewCommit(s)
         \/ WorkspaceReady(s) \/ UpdateSucceeds(s) \/ UpdateFails(s) \/ TimerFires(s)
         \/ Reconcile(s) \/ TouchFails(s)

Spec == Init /\ [][Next]_vars

\* Whatever can go on without a user and without trouble does.
Progress ==
    \/ Tick
    \/ \E p \in Required : Deliver(p)
    \/ \E s \in Stacks :
         Reconcile(s) \/ TimerFires(s) \/ WorkspaceReady(s) \/ UpdateSucceeds(s)

LiveSpec == Spec /\ WF_vars(Progress)

-----------------------------------------------------------------------------
(* Properties.                                                             *)

Starts(s) == stack'[s].names > stack[s].names

(* An update only starts when each prerequisite has succeeded, within the   *)
(* required duration where there is one.  The cache that was looked at may  *)
(* lag, and until the start the other Stacks may be edited, be asked for    *)
(* another run, start it or fail it, but no time passes (Reconcile step 3,  *)
(* isRequirementSatisfied).                                                 *)
RunsAfterPrerequisites ==
    [][\A s \in Stacks : Starts(s) => \A p \in Prerequisites(s) :
         stack[p].good # Never /\ (Within[s][p] # 0 => stack[p].good <= Within[s][p])]_vars

(* However many Stacks with different durations share a prerequisite, the   *)
(* request that starts an update of it is for a run after one of its latest *)
(* three: while the cache lags, and while a Stack that found the            *)
(* prerequisite out of date writes its annotation, one update of it may end *)
(* and one may start, and no more                                           *)
(* ("won't thrash", Reconcile step 3).                                      *)
NoThrashing ==
    [][\A p \in Stacks :
         LET cur == stack'[p].cur  last == stack'[p].last
         IN Starts(p) /\ cur.req.by = "after" /\ cur.req # last.req => cur.req.n + 2 >= last.n]_vars

Synced(s) ==
    /\ stack[s].last.ok /\ stack[s].ready
    /\ stack[s].last.gen = stack[s].gen /\ stack[s].last.req = stack[s].req
    /\ stack[s].last.commit = stack[s].commit

(* Once all Stacks exist, all of them come to be synced and ready, although *)
(* a Stack that waits for a prerequisite has no timer, and what it waits    *)
(* for may be missing, failing or out of date (stackReadyPredicate,         *)
(* enqueueDependents, ReconcileRequestedPredicate).                         *)
DependentsProceed ==
    <>[](\A s \in Stacks : stack[s].exists) => <>[](\A s \in Stacks : Synced(s))

=============================================================================
