------------------------- MODULE Prerequisites_proofs -------------------------
(***************************************************************************)
(* Proofs about Stacks that require each other, for any number of Stacks,  *)
(* any graph of requirements (cyclic ones too) and any durations.          *)
(***************************************************************************)
EXTENDS Prerequisites, SequenceTheorems, TLAPS

\* Updates are numbered one after the other, and a new one is started only when the
\* outcome of the one before is recorded.
Numbered ==
    \A s \in Stacks :
        IF stack[s].cur.state = "none" THEN stack[s].names = stack[s].last.n
        ELSE stack[s].names = stack[s].cur.n /\ stack[s].cur.n = stack[s].last.n + 1

\* No update runs while its Stack is under reconcile, so the outcome that was absorbed
\* when the reconcile began is still the latest when it is saved.
Attended ==
    \A s \in Stacks : run[s].pc # "idle" =>
        stack[s].cur.state # "running" /\ run[s].last = Absorbed(s)

\* The recorded time of a success is not after it, and an outcome that is not recorded
\* yet is fresh: no time passes while its Stack is queued or under reconcile.
Timely ==
    \A s \in Stacks :
        /\ stack[s].last.ok => stack[s].good <= stack[s].last.age
        /\ stack[s].cur.state = "succeeded" =>
               stack[s].good = 0 /\ (run[s].queued \/ run[s].pc # "idle")

\* What RunsAfterPrerequisites asks of a prerequisite p of s.
Satisfied(s, p) ==
    stack[p].good # Never /\ (Within[s][p] # 0 => stack[p].good <= Within[s][p])

\* As long as no check has failed, each prerequisite is satisfied or yet to be checked.
Checked ==
    \A s \in Stacks : run[s].pc # "idle" /\ ~run[s].failed =>
        \A p \in Prerequisites(s) :
            Satisfied(s, p) \/ \E i \in DOMAIN run[s].todo : run[s].todo[i] = p

\* A success that the cache shows is not before the recorded time either: the cache does
\* not lag when time passes.
TimelyCache ==
    \A p \in Required : cache[p].last.ok => stack[p].good <= cache[p].last.age

SafeInv == TypeOK /\ Attended /\ Timely /\ TimelyCache /\ Checked

\* While an annotation "after-n" is about to be written, at most one update has ended
\* since n, and at most one has started since.
Touching(x, n) ==
    \/ x.names <= n + 1
    \/ x.names = n + 2 /\ x.cur.state = "running" /\ x.cur.age = 0
Touches ==
    \A s \in Stacks : run[s].pc = "touch" =>
        \A q \in run[s].target : Touching(stack[q], run[s].n)

\* The same of the update that the cache shows as the last.
Lookups == \A p \in Required : Touching(stack[p], cache[p].last.n)

\* The request of the latest update, complete or not.
LatestReq(x) == IF x.cur.state = "none" THEN x.last.req ELSE x.cur.req

\* A request "after-n" is not older than the two latest updates, unless it is the one that
\* the latest was for.  A reconcile that has read another one may still start an update.
Asked(x, r) ==
    x.req.by = "after" =>
        \/ x.names <= x.req.n + 1
        \/ x.names <= x.req.n + 2 /\ (r.pc # "idle" => r.req = x.req)
        \/ LatestReq(x) = x.req /\ (r.pc # "idle" => r.req = x.req)
Requests == \A s \in Stacks : Asked(stack[s], run[s])

\* The same, for the request that a reconcile has read.
Reads ==
    \A s \in Stacks :
        run[s].pc # "idle" /\ run[s].req.by = "after" /\ run[s].req # run[s].last.req =>
            run[s].last.n <= run[s].req.n + 2

TouchInv == TypeOK /\ Attended /\ Numbered /\ Touches /\ Lookups /\ Requests /\ Reads

-----------------------------------------------------------------------------
(* What the steps do, field by field.                                      *)

\* The types of all but the cache.
Types ==
    /\ stack \in [Stacks -> StackType]
    /\ run \in [Stacks -> RunType]
    /\ left \in [inputs : Nat, troubles : Nat]

LEMMA RequiredType ==
    /\ Required \subseteq Stacks
    /\ \A s \in Stacks : Requires[s] \in Seq(Required) /\ Prerequisites(s) \subseteq Required
<1>1. ASSUME NEW s \in Stacks
      PROVE  /\ Prerequisites(s) \subseteq Stacks /\ Prerequisites(s) \subseteq Required
             /\ Requires[s] \in Seq(Required)
  <2>1. Requires[s] \in Seq(Stacks)
    BY ConstantAssumption
  <2>2. /\ Len(Requires[s]) \in Nat /\ DOMAIN Requires[s] = 1..Len(Requires[s])
        /\ Requires[s] \in [1..Len(Requires[s]) -> Stacks]
    BY <2>1
  <2>3. Prerequisites(s) \subseteq Required
    BY DEF Required
  <2>4. \A i \in 1..Len(Requires[s]) : Requires[s][i] \in Prerequisites(s)
    BY <2>2 DEF Prerequisites
  <2>5. Requires[s] \in [1..Len(Requires[s]) -> Required]
    BY <2>2, <2>3, <2>4
  <2> QED
    BY <2>2, <2>3, <2>5, SeqDef DEF Prerequisites
<1>2. ASSUME NEW p \in Required  PROVE p \in Stacks
  <2>1. PICK s \in Stacks : p \in Prerequisites(s)
    BY DEF Required
  <2> QED
    BY <1>1, <2>1
<1> QED
  BY <1>1, <1>2

\* Of a Stack, all that the arguments below look at.
SameStack(x, y) ==
    /\ x.last = y.last /\ x.cur = y.cur /\ x.good = y.good /\ x.names = y.names /\ x.req = y.req

\* A reconcile that is as it was, unless its Stack has been queued.
SameRun(r, t) ==
    /\ r.pc = t.pc /\ r.todo = t.todo /\ r.failed = t.failed /\ r.req = t.req
    /\ r.last = t.last /\ r.target = t.target /\ r.n = t.n
    /\ t.queued => r.queued

LEMMA WriteEffect ==
    ASSUME NEW new, NEW now \in [Stacks -> RunType], Write(new, now)
    PROVE  /\ stack' = new /\ run' \in [Stacks -> RunType]
           /\ \A s \in Stacks : SameRun(run'[s], now[s])
<1>1. /\ stack' = new
      /\ run' = [s \in Stacks |-> [now[s] EXCEPT !.queued = @ \/ Event(s, new)]]
  BY DEF Write
<1>2. ASSUME NEW s \in Stacks
      PROVE  run'[s] \in RunType /\ SameRun(run'[s], now[s])
  <2>1. now[s] \in RunType /\ run'[s] = [now[s] EXCEPT !.queued = @ \/ Event(s, new)]
    BY <1>1
  <2>2. (now[s].queued \/ Event(s, new)) \in BOOLEAN
    OBVIOUS
  <2> HIDE <1>1
  <2> QED
    BY <2>1, <2>2 DEF RunType, SameRun
<1> QED
  BY <1>1, <1>2

LEMMA EnqueueType ==
    ASSUME TypeOK, NEW s \in Stacks
    PROVE  /\ Enqueue(s) \in [Stacks -> RunType]
           /\ \A t \in Stacks : SameRun(Enqueue(s)[t], run[t])
           /\ Enqueue(s)[s].queued
<1>1. run \in [Stacks -> RunType] /\ Enqueue(s) = [run EXCEPT ![s] = [run[s] EXCEPT !.queued = TRUE]]
  BY DEF TypeOK, Enqueue
<1>2. /\ [run[s] EXCEPT !.queued = TRUE] \in RunType
      /\ SameRun([run[s] EXCEPT !.queued = TRUE], run[s])
      /\ [run[s] EXCEPT !.queued = TRUE].queued
  <2>1. run[s] \in RunType
    BY <1>1
  <2> QED
    BY <2>1 DEF RunType, SameRun
<1>3. \A t \in Stacks : SameRun(run[t], run[t])
  BY DEF SameRun
<1> QED
  BY <1>1, <1>2, <1>3

LEMMA SameRunTransitive ==
    ASSUME NEW a, NEW b, NEW c, SameRun(a, b), SameRun(b, c)
    PROVE  SameRun(a, c)
BY DEF SameRun

LEMMA RunFields ==
    ASSUME TypeOK, NEW s \in Stacks
    PROVE  /\ run[s] \in RunType /\ stack[s] \in StackType
           /\ stack[s].last \in LastType /\ stack[s].cur \in CurrentType
           /\ stack[s].names \in Nat /\ stack[s].last.n \in Nat /\ stack[s].cur.n \in Nat
           /\ stack[s].good \in 0..Never /\ stack[s].last.age \in 0..MaxAge
           /\ run[s].last \in LastType /\ run[s].last.n \in Nat /\ run[s].n \in Nat
           /\ stack[s].req \in Request /\ run[s].req \in Request
           /\ stack[s].req.n \in Nat /\ run[s].req.n \in Nat
           /\ run[s].todo \in Seq(Required) /\ run[s].target \subseteq Required
BY DEF TypeOK, RunType, StackType, LastType, CurrentType, Request

LEMMA AbsorbedType ==
    ASSUME TypeOK, NEW s \in Stacks
    PROVE  Absorbed(s) \in LastType
<1>1. stack[s].last \in LastType /\ stack[s].cur \in CurrentType /\ 0 \in 0..MaxAge
  BY RunFields, ConstantAssumption
<1> QED
  BY <1>1 DEF Absorbed, LastType, CurrentType

LEMMA ConstantTypes ==
    /\ NoLast \in LastType /\ NoCurrent \in CurrentType /\ Absent \in StackType
    /\ Idle \in RunType
<1>1. MaxAge \in Nat /\ 0 \in 0..MaxAge /\ Never \in 0..Never /\ 0 \in 0..1
  BY ConstantAssumption DEF Never
<1>2. User(0) \in Request
  BY DEF User, Request
<1>3. NoLast \in LastType /\ NoCurrent \in CurrentType
  BY <1>1, <1>2 DEF NoLast, NoCurrent, LastType, CurrentType
<1>4. <<>> \in Seq(Required)
  OBVIOUS
<1> QED
  BY <1>1, <1>2, <1>3, <1>4 DEF Absent, StackType, Idle, RunType

\* Steps of users, and of the workspace controller.
LEMMA UserEffect ==
    ASSUME TypeOK, NEW s \in Stacks,
           CreateStack(s) \/ EditSpec(s) \/ NewCommit(s) \/ WorkspaceReady(s)
    PROVE  /\ Types'
           /\ \A t \in Stacks : SameStack(stack'[t], stack[t]) /\ SameRun(run'[t], run[t])
<1>t. run \in [Stacks -> RunType] /\ stack \in [Stacks -> StackType]
  BY DEF TypeOK, Types
<1>l. left' \in [inputs : Nat, troubles : Nat]
  BY DEF TypeOK, CreateStack, EditSpec, NewCommit, WorkspaceReady, Input
<1>e. Enqueue(s) \in [Stacks -> RunType] /\ \A t \in Stacks : SameRun(Enqueue(s)[t], run[t])
  BY EnqueueType
<1>r. \A t \in Stacks : SameRun(run[t], run[t])
  BY DEF SameRun
<1>g. ASSUME NEW x \in StackType, SameStack(x, stack[s]), NEW new, new = [stack EXCEPT ![s] = x],
             Write(new, run) \/ Write(new, Enqueue(s))
      PROVE  /\ Types'
             /\ \A t \in Stacks : SameStack(stack'[t], stack[t]) /\ SameRun(run'[t], run[t])
  <2>1. /\ stack' = new /\ run' \in [Stacks -> RunType]
        /\ \A t \in Stacks : SameRun(run'[t], run[t])
    BY <1>t, <1>e, <1>r, <1>g, WriteEffect, SameRunTransitive
  <2>2. \A t \in Stacks : SameStack(stack[t], stack[t])
    BY DEF SameStack
  <2>3. new \in [Stacks -> StackType] /\ \A t \in Stacks : SameStack(new[t], stack[t])
    BY <1>t, <1>g, <2>2
  <2> QED
    BY <1>l, <2>1, <2>3 DEF TypeOK, Types
<1>1. CASE CreateStack(s)
  <2> DEFINE new == [stack EXCEPT ![s].exists = TRUE]  x == [stack[s] EXCEPT !.exists = TRUE]
  <2>1. stack[s] \in StackType /\ new = [stack EXCEPT ![s] = x]
    BY <1>t
  <2>2. Write(new, run)
    BY <1>1 DEF CreateStack
  <2> HIDE DEF new
  <2>3. x \in StackType
    BY <2>1 DEF StackType
  <2>4. SameStack(x, stack[s])
    BY <2>1 DEF StackType, SameStack
  <2> HIDE DEF x
  <2> QED
    BY <1>g, <2>1, <2>2, <2>3, <2>4
<1>2. CASE EditSpec(s)
  <2> DEFINE new == [stack EXCEPT ![s].gen = @ + 1]  x == [stack[s] EXCEPT !.gen = stack[s].gen + 1]
  <2>1. stack[s] \in StackType /\ new = [stack EXCEPT ![s] = x]
    BY <1>t
  <2>2. Write(new, run)
    BY <1>2 DEF EditSpec
  <2> HIDE DEF new
  <2>3. x \in StackType
    BY <2>1 DEF StackType
  <2>4. SameStack(x, stack[s])
    BY <2>1 DEF StackType, SameStack
  <2> HIDE DEF x
  <2> QED
    BY <1>g, <2>1, <2>2, <2>3, <2>4
<1>3. CASE NewCommit(s)
  <2> DEFINE new == [stack EXCEPT ![s].commit = @ + 1]  x == [stack[s] EXCEPT !.commit = stack[s].commit + 1]
  <2>1. stack[s] \in StackType /\ new = [stack EXCEPT ![s] = x]
    BY <1>t
  <2>2. Write(new, Enqueue(s))
    BY <1>3 DEF NewCommit
  <2> HIDE DEF new
  <2>3. x \in StackType
    BY <2>1 DEF StackType
  <2>4. SameStack(x, stack[s])
    BY <2>1 DEF StackType, SameStack
  <2> HIDE DEF x
  <2> QED
    BY <1>g, <2>1, <2>2, <2>3, <2>4
<1>4. CASE WorkspaceReady(s)
  <2> DEFINE new == [stack EXCEPT ![s].pod = TRUE]  x == [stack[s] EXCEPT !.pod = TRUE]
  <2>1. stack[s] \in StackType /\ new = [stack EXCEPT ![s] = x]
    BY <1>t
  <2>2. Write(new, Enqueue(s))
    BY <1>4 DEF WorkspaceReady
  <2> HIDE DEF new
  <2>3. x \in StackType
    BY <2>1 DEF StackType
  <2>4. SameStack(x, stack[s])
    BY <2>1 DEF StackType, SameStack
  <2> HIDE DEF x
  <2> QED
    BY <1>g, <2>1, <2>2, <2>3, <2>4
<1> QED
  BY <1>1, <1>2, <1>3, <1>4

LEMMA UserRequestEffect ==
    ASSUME TypeOK, NEW s \in Stacks, UserRequest(s)
    PROVE  /\ Types'
           /\ \A t \in Stacks : /\ SameRun(run'[t], run[t])
                                /\ stack'[t].last = stack[t].last /\ stack'[t].cur = stack[t].cur
                                /\ stack'[t].good = stack[t].good /\ stack'[t].names = stack[t].names
                                /\ stack'[t].req = stack[t].req \/ stack'[t].req.by = "user"
<1>t. run \in [Stacks -> RunType] /\ stack \in [Stacks -> StackType]
  BY DEF TypeOK, Types
<1>l. left' \in [inputs : Nat, troubles : Nat] /\ User(left.inputs) \in Request
  BY DEF TypeOK, UserRequest, Input, User, Request
<1> DEFINE new == [stack EXCEPT ![s].req = User(left.inputs)]
<1>1. /\ new \in [Stacks -> StackType]
      /\ \A t \in Stacks : /\ new[t].last = stack[t].last /\ new[t].cur = stack[t].cur
                           /\ new[t].good = stack[t].good /\ new[t].names = stack[t].names
                           /\ new[t].req = stack[t].req \/ new[t].req = User(left.inputs)
  BY <1>t, <1>l DEF StackType
<1>2. Write(new, run)
  BY DEF UserRequest
<1> HIDE DEF new
<1>3. /\ stack' = new /\ run' \in [Stacks -> RunType]
      /\ \A t \in Stacks : SameRun(run'[t], run[t])
  BY <1>t, <1>2, WriteEffect
<1> QED
  BY <1>l, <1>1, <1>3 DEF TypeOK, Types, User

\* The end of an update.
LEMMA UpdateEndsEffect ==
    ASSUME TypeOK, NEW s \in Stacks, UpdateSucceeds(s) \/ UpdateFails(s)
    PROVE  /\ Types'
           /\ stack[s].cur.state = "running" /\ stack[s].cur.age = 1 /\ run'[s].queued
           /\ stack'[s].last = stack[s].last /\ stack'[s].names = stack[s].names
           /\ stack'[s].req = stack[s].req /\ stack'[s].cur.n = stack[s].cur.n
           /\ stack'[s].cur.req = stack[s].cur.req
           /\ \/ stack'[s].cur.state = "succeeded" /\ stack'[s].good = 0
              \/ stack'[s].cur.state = "failed" /\ stack'[s].good = stack[s].good
           /\ \A t \in Stacks \ {s} : stack'[t] = stack[t]
           /\ \A t \in Stacks : SameRun(run'[t], run[t])
<1>t. run \in [Stacks -> RunType] /\ stack \in [Stacks -> StackType]
  BY DEF TypeOK, Types
<1>l. left' \in [inputs : Nat, troubles : Nat]
  BY DEF TypeOK, UpdateSucceeds, UpdateFails, Trouble
<1>e. /\ Enqueue(s) \in [Stacks -> RunType] /\ \A t \in Stacks : SameRun(Enqueue(s)[t], run[t])
      /\ Enqueue(s)[s].queued
  BY EnqueueType
<1>c. stack[s].cur.state = "running" /\ stack[s].cur.age = 1
  BY DEF UpdateSucceeds, UpdateFails
<1>w. ASSUME NEW new, Write(new, Enqueue(s))
      PROVE  /\ stack' = new /\ run' \in [Stacks -> RunType] /\ run'[s].queued
             /\ \A t \in Stacks : SameRun(run'[t], run[t])
  <2>1. /\ stack' = new /\ run' \in [Stacks -> RunType]
        /\ \A t \in Stacks : SameRun(run'[t], Enqueue(s)[t])
    BY <1>e, <1>w, WriteEffect
  <2>2. run'[s].queued
    BY <1>e, <2>1 DEF SameRun
  <2> QED
    BY <1>e, <2>1, <2>2, SameRunTransitive
<1>0. 0 \in 0..Never
  BY ConstantAssumption DEF Never
<1>1. CASE UpdateSucceeds(s)
  <2> DEFINE new == [stack EXCEPT ![s].cur.state = "succeeded", ![s].good = 0]
  <2> DEFINE c == [stack[s].cur EXCEPT !.state = "succeeded"]
  <2>c. /\ c \in CurrentType /\ c.n = stack[s].cur.n /\ c.req = stack[s].cur.req
        /\ c.state = "succeeded"
    <3>1. stack[s].cur \in CurrentType
      BY RunFields
    <3> QED
      BY <3>1 DEF CurrentType
  <2>n. new = [stack EXCEPT ![s] = [stack[s] EXCEPT !.cur = c, !.good = 0]]
    BY <1>t
  <2> HIDE DEF new, c
  <2>1. /\ new \in [Stacks -> StackType]
        /\ new[s].last = stack[s].last /\ new[s].names = stack[s].names
        /\ new[s].req = stack[s].req /\ new[s].cur.n = stack[s].cur.n
        /\ new[s].cur.req = stack[s].cur.req
        /\ new[s].cur.state = "succeeded" /\ new[s].good = 0
        /\ \A t \in Stacks \ {s} : new[t] = stack[t]
    <3>1. [stack[s] EXCEPT !.cur = c, !.good = 0] \in StackType
      <4>1. stack[s] \in StackType
        BY <1>t
      <4> QED
        BY <1>0, <2>c, <4>1 DEF StackType
    <3> QED
      BY <1>t, <2>c, <2>n, <3>1 DEF StackType
  <2>2. Write(new, Enqueue(s))
    BY <1>1 DEF UpdateSucceeds, new
  <2> QED
    BY <1>l, <1>c, <1>w, <2>1, <2>2 DEF TypeOK, Types
<1>2. CASE UpdateFails(s)
  <2> DEFINE new == [stack EXCEPT ![s].cur.state = "failed"]
  <2> DEFINE c == [stack[s].cur EXCEPT !.state = "failed"]
  <2>c. /\ c \in CurrentType /\ c.n = stack[s].cur.n /\ c.req = stack[s].cur.req
        /\ c.state = "failed"
    <3>1. stack[s].cur \in CurrentType
      BY RunFields
    <3> QED
      BY <3>1 DEF CurrentType
  <2>n. new = [stack EXCEPT ![s] = [stack[s] EXCEPT !.cur = c]]
    BY <1>t
  <2> HIDE DEF new, c
  <2>1. /\ new \in [Stacks -> StackType]
        /\ new[s].last = stack[s].last /\ new[s].names = stack[s].names
        /\ new[s].req = stack[s].req /\ new[s].cur.n = stack[s].cur.n
        /\ new[s].cur.req = stack[s].cur.req
        /\ new[s].cur.state = "failed" /\ new[s].good = stack[s].good
        /\ \A t \in Stacks \ {s} : new[t] = stack[t]
    <3>1. [stack[s] EXCEPT !.cur = c] \in StackType
      <4>1. stack[s] \in StackType
        BY <1>t
      <4> QED
        BY <1>0, <2>c, <4>1 DEF StackType
    <3> QED
      BY <1>t, <2>c, <2>n, <3>1 DEF StackType
  <2>2. Write(new, Enqueue(s))
    BY <1>2 DEF UpdateFails, new
  <2> QED
    BY <1>l, <1>c, <1>w, <2>1, <2>2 DEF TypeOK, Types
<1> QED
  BY <1>1, <1>2

LEMMA TickEffect ==
    ASSUME TypeOK, Tick
    PROVE  /\ Types' /\ run' = run
           /\ \A s \in Stacks :
                /\ run[s].pc = "idle" /\ ~run[s].queued
                /\ stack'[s].names = stack[s].names /\ stack'[s].req = stack[s].req
                /\ stack'[s].last.n = stack[s].last.n /\ stack'[s].last.req = stack[s].last.req
                /\ stack'[s].last.ok = stack[s].last.ok
                /\ stack'[s].cur.n = stack[s].cur.n /\ stack'[s].cur.req = stack[s].cur.req
                /\ stack'[s].cur.state = stack[s].cur.state
                /\ stack[s].good <= stack[s].last.age => stack'[s].good <= stack'[s].last.age
<1>m. MaxAge \in Nat /\ Never = MaxAge + 1
  BY ConstantAssumption DEF Never
<1>1. run' = run /\ left' = left
  BY DEF Tick
<1>2. ASSUME NEW s \in Stacks
      PROVE  /\ stack'[s] \in StackType
             /\ run[s].pc = "idle" /\ ~run[s].queued
             /\ stack'[s].names = stack[s].names /\ stack'[s].req = stack[s].req
             /\ stack'[s].last.n = stack[s].last.n /\ stack'[s].last.req = stack[s].last.req
             /\ stack'[s].last.ok = stack[s].last.ok
             /\ stack'[s].cur.n = stack[s].cur.n /\ stack'[s].cur.req = stack[s].cur.req
             /\ stack'[s].cur.state = stack[s].cur.state
             /\ stack[s].good <= stack[s].last.age => stack'[s].good <= stack'[s].last.age
  <2>t. /\ stack[s] \in StackType /\ stack[s].last \in LastType /\ stack[s].cur \in CurrentType
        /\ stack[s].good \in 0..Never /\ stack[s].last.age \in 0..MaxAge /\ stack[s].cur.age \in 0..1
    BY RunFields DEF CurrentType
  <2> DEFINE a == Older(stack[s].last.age)
             g == IF stack[s].good = Never THEN stack[s].good ELSE Older(stack[s].good)
             c == IF stack[s].cur.state = "running" THEN 1 ELSE stack[s].cur.age
  <2>a. /\ a \in 0..MaxAge /\ g \in 0..Never /\ c \in 0..1
        /\ stack[s].good <= stack[s].last.age => g <= a
    BY <1>m, <2>t DEF Older
  <2>1. /\ run[s].pc = "idle" /\ ~run[s].queued
        /\ stack'[s] = [stack[s] EXCEPT !.last.age = a, !.good = g, !.cur.age = c]
    <3>1. run[s].pc = "idle" /\ ~run[s].queued /\ stack'[s] = Aged(stack[s])
      BY DEF Tick
    <3> QED
      BY <2>t, <3>1 DEF Aged, StackType
  <2> DEFINE l == [stack[s].last EXCEPT !.age = a]  u == [stack[s].cur EXCEPT !.age = c]
  <2>2. stack'[s] = [stack[s] EXCEPT !.last = l, !.good = g, !.cur = u]
    BY <2>1
  <2> HIDE DEF a, g, c
  <2>3. /\ l \in LastType /\ l.n = stack[s].last.n /\ l.req = stack[s].last.req
        /\ l.ok = stack[s].last.ok /\ l.age = a
    BY <2>t, <2>a DEF LastType
  <2>4. /\ u \in CurrentType /\ u.n = stack[s].cur.n /\ u.req = stack[s].cur.req
        /\ u.state = stack[s].cur.state
    BY <2>t, <2>a DEF CurrentType
  <2> HIDE DEF l, u
  <2>5. stack'[s] \in StackType
    BY <2>t, <2>a, <2>2, <2>3, <2>4 DEF StackType
  <2>6. /\ stack'[s].names = stack[s].names /\ stack'[s].req = stack[s].req
        /\ stack'[s].last = l /\ stack'[s].cur = u /\ stack'[s].good = g
    BY <2>t, <2>2 DEF StackType
  <2> QED
    BY <2>a, <2>1, <2>3, <2>4, <2>5, <2>6
<1>3. stack' \in [Stacks -> StackType]
  <2>1. stack' = [s \in Stacks |-> stack'[s]]
    BY DEF Tick
  <2> QED
    BY <1>2, <2>1
<1> QED
  BY <1>1, <1>2, <1>3 DEF TypeOK, Types

\* Steps of a reconcile.
LEMMA WaitForUpdateEffect ==
    ASSUME TypeOK, NEW s \in Stacks, WaitForUpdate(s)
    PROVE  /\ Types'
           /\ run[s].pc = "idle" /\ stack[s].cur.state = "running" /\ run'[s].pc = "idle"
           /\ \A t \in Stacks : SameStack(stack'[t], stack[t])
           /\ \A t \in Stacks \ {s} : SameRun(run'[t], run[t])
<1>t. run \in [Stacks -> RunType] /\ stack \in [Stacks -> StackType] /\ run[s] \in RunType
  BY DEF TypeOK, Types
<1> DEFINE new == [stack EXCEPT ![s].seenGen = stack[s].gen, ![s].seenReq = stack[s].req,
                                ![s].ready = FALSE]
           now == [run EXCEPT ![s].queued = FALSE]
<1>1. new \in [Stacks -> StackType] /\ \A t \in Stacks : SameStack(new[t], stack[t])
  <2> DEFINE x == [stack[s] EXCEPT !.seenGen = stack[s].gen, !.seenReq = stack[s].req,
                                   !.ready = FALSE]
  <2>1. stack[s] \in StackType /\ new = [stack EXCEPT ![s] = x]
    BY <1>t
  <2> HIDE DEF new
  <2>2. x \in StackType
    BY <2>1 DEF StackType
  <2>3. SameStack(x, stack[s]) /\ \A t \in Stacks : SameStack(stack[t], stack[t])
    BY <2>1 DEF SameStack, StackType
  <2> HIDE DEF x
  <2> QED
    BY <1>t, <2>1, <2>2, <2>3
<1>2. now = [run EXCEPT ![s] = [run[s] EXCEPT !.queued = FALSE]]
  BY <1>t
<1>3. [run[s] EXCEPT !.queued = FALSE] \in RunType
  BY <1>t DEF RunType
<1>4. /\ run[s].pc = "idle" /\ stack[s].cur.state = "running"
      /\ Write(new, now) /\ left' = left
  BY DEF WaitForUpdate
<1> HIDE DEF new, now
<1>5. now \in [Stacks -> RunType] /\ now[s].pc = "idle" /\ \A t \in Stacks \ {s} : now[t] = run[t]
  BY <1>t, <1>2, <1>3, <1>4
<1>6. /\ stack' = new /\ run' \in [Stacks -> RunType] /\ \A t \in Stacks : SameRun(run'[t], now[t])
  BY <1>4, <1>5, WriteEffect
<1> QED
  BY <1>1, <1>4, <1>5, <1>6 DEF TypeOK, Types, SameRun

\* A status is saved, and the reconcile is over.
LEMMA SaveEffect ==
    ASSUME TypeOK, NEW s \in Stacks, NEW status \in StackType, NEW now \in RunType, now.pc = "idle",
           left' = left,
           \/ Write([stack EXCEPT ![s] = status], [run EXCEPT ![s] = now])
           \/ Save(s, status, now)
    PROVE  /\ Types' /\ run'[s].pc = "idle" /\ stack'[s] = status
           /\ \A t \in Stacks \ {s} : stack'[t] = stack[t] /\ SameRun(run'[t], run[t])
<1>t. run \in [Stacks -> RunType] /\ stack \in [Stacks -> StackType] /\ run[s] \in RunType
  BY DEF TypeOK, Types
<1> DEFINE r == [now EXCEPT !.queued = run[s].queued]
<1>1. r \in RunType /\ r.pc = "idle"
  BY <1>t DEF RunType
<1>2. ASSUME NEW x \in RunType, x.pc = "idle", Write([stack EXCEPT ![s] = status], [run EXCEPT ![s] = x])
      PROVE  /\ Types' /\ run'[s].pc = "idle" /\ stack'[s] = status
             /\ \A t \in Stacks \ {s} : stack'[t] = stack[t] /\ SameRun(run'[t], run[t])
  <2> DEFINE new == [stack EXCEPT ![s] = status]  to == [run EXCEPT ![s] = x]
  <2>1. /\ new \in [Stacks -> StackType] /\ to \in [Stacks -> RunType]
        /\ new[s] = status /\ to[s].pc = "idle"
        /\ \A t \in Stacks \ {s} : new[t] = stack[t] /\ to[t] = run[t]
    BY <1>t, <1>2
  <2>2. Write(new, to)
    BY <1>2
  <2> HIDE DEF new, to
  <2>3. stack' = new /\ run' \in [Stacks -> RunType] /\ \A t \in Stacks : SameRun(run'[t], to[t])
    BY <2>1, <2>2, WriteEffect
  <2> QED
    BY <2>1, <2>3 DEF TypeOK, Types, SameRun
<1>3. CASE Write([stack EXCEPT ![s] = status], [run EXCEPT ![s] = now])
  BY <1>2, <1>3
<1>4. CASE Save(s, status, now)
  <2>1. Write([stack EXCEPT ![s] = status], [run EXCEPT ![s] = r])
    BY <1>4 DEF Save
  <2> QED
    BY <1>1, <1>2, <2>1
<1> QED
  BY <1>3, <1>4

LEMMA KeepSyncedEffect ==
    ASSUME TypeOK, NEW s \in Stacks, KeepSynced(s)
    PROVE  /\ Types'
           /\ run[s].pc = "idle" /\ stack[s].cur.state # "running" /\ run'[s].pc = "idle"
           /\ stack'[s].last = Absorbed(s) /\ stack'[s].cur = NoCurrent
           /\ stack'[s].good = stack[s].good /\ stack'[s].names = stack[s].names
           /\ stack'[s].req = stack[s].req
           /\ \A t \in Stacks \ {s} : stack'[t] = stack[t] /\ SameRun(run'[t], run[t])
<1> DEFINE status == [stack[s] EXCEPT !.last = Absorbed(s), !.cur = NoCurrent,
                                      !.seenGen = stack[s].gen, !.seenReq = stack[s].req,
                                      !.ready = Absorbed(s).ok]
           now == [Idle EXCEPT !.timer = ~Absorbed(s).ok]
<1>t. /\ stack \in [Stacks -> StackType] /\ stack[s] \in StackType /\ Absorbed(s) \in LastType
      /\ Absorbed(s).ok \in BOOLEAN
      /\ NoCurrent \in CurrentType /\ Idle \in RunType /\ Idle.pc = "idle"
  BY AbsorbedType, ConstantTypes DEF TypeOK, LastType, Idle
<1>1. /\ status \in StackType /\ status.last = Absorbed(s) /\ status.cur = NoCurrent
      /\ status.good = stack[s].good /\ status.names = stack[s].names /\ status.req = stack[s].req
  BY <1>t DEF StackType
<1>2. now \in RunType /\ now.pc = "idle"
  BY <1>t DEF RunType
<1>3. /\ run[s].pc = "idle" /\ stack[s].cur.state # "running" /\ left' = left
      /\ Write([stack EXCEPT ![s] = status], [run EXCEPT ![s] = now])
  <2>1. [stack EXCEPT ![s].last = Absorbed(s), ![s].cur = NoCurrent,
                      ![s].seenGen = stack[s].gen, ![s].seenReq = stack[s].req,
                      ![s].ready = Absorbed(s).ok] = [stack EXCEPT ![s] = status]
    BY <1>t
  <2> QED
    BY <2>1 DEF KeepSynced
<1> HIDE DEF status, now
<1> QED
  BY <1>1, <1>2, <1>3, SaveEffect

LEMMA BeginCheckEffect ==
    ASSUME TypeOK, NEW s \in Stacks, BeginCheck(s)
    PROVE  /\ Types' /\ stack' = stack
           /\ run[s].pc = "idle" /\ stack[s].cur.state # "running"
           /\ run'[s].pc = "check" /\ run'[s].todo = Requires[s]
           /\ run'[s].req = stack[s].req /\ run'[s].last = Absorbed(s)
           /\ \A t \in Stacks \ {s} : run'[t] = run[t]
<1>t. /\ run \in [Stacks -> RunType] /\ stack[s] \in StackType /\ Absorbed(s) \in LastType
      /\ Idle \in RunType /\ Requires[s] \in Seq(Required)
  BY AbsorbedType, ConstantTypes, RequiredType DEF TypeOK, Types
<1> DEFINE r == [Idle EXCEPT !.pc = "check", !.todo = Requires[s],
                             !.gen = stack[s].gen, !.req = stack[s].req,
                             !.commit = stack[s].commit, !.last = Absorbed(s)]
<1>1. /\ r \in RunType /\ r.pc = "check" /\ r.todo = Requires[s]
      /\ r.req = stack[s].req /\ r.last = Absorbed(s)
  BY <1>t DEF RunType, StackType
<1>2. /\ run[s].pc = "idle" /\ stack[s].cur.state # "running"
      /\ run' = [run EXCEPT ![s] = r] /\ stack' = stack /\ left' = left
  BY DEF BeginCheck
<1> HIDE DEF r
<1> QED
  BY <1>t, <1>1, <1>2 DEF TypeOK, Types

LEMMA CheckEffect ==
    ASSUME TypeOK, NEW s \in Stacks, CheckPrerequisite(s)
    PROVE  /\ Types' /\ stack' = stack
           /\ run[s].pc = "check" /\ run[s].todo # <<>> /\ run'[s].todo = Tail(run[s].todo)
           /\ run'[s].req = run[s].req /\ run'[s].last = run[s].last
           /\ ~run'[s].failed =>
                  LET p == Head(run[s].todo)
                  IN ~run[s].failed /\ cache[p].last.ok /\ ~OutOfDate(Within[s][p], cache[p])
           /\ \/ run'[s].pc = "check"
              \/ \E p \in Required : /\ run'[s].pc = "touch" /\ run'[s].target = {p}
                                     /\ run'[s].n = cache[p].last.n
           /\ \A t \in Stacks \ {s} : run'[t] = run[t]
<1> DEFINE p     == Head(run[s].todo)
           x     == cache[p]
           fails == ~x.exists \/ NotRun(x) \/ Failed(x)
           old   == ~fails /\ OutOfDate(Within[s][p], x)
           touch == old /\ x.req # After(x.last.n)
           r     == [run[s] EXCEPT !.todo = Tail(run[s].todo), !.failed = run[s].failed \/ fails \/ old,
                                   !.pc = IF touch THEN "touch" ELSE run[s].pc,
                                   !.target = IF touch THEN {p} ELSE {},
                                   !.n = IF touch THEN x.last.n ELSE 0]
<1>1. run[s].pc = "check" /\ run[s].todo # <<>> /\ stack' = stack /\ left' = left
  BY DEF CheckPrerequisite
<1>t. /\ run \in [Stacks -> RunType] /\ run[s] \in RunType /\ run[s].todo \in Seq(Required)
      /\ p \in Required /\ Tail(run[s].todo) \in Seq(Required)
  BY <1>1, RunFields, HeadTailProperties DEF TypeOK
<1>2. run' = [run EXCEPT ![s] = r]
  BY <1>t DEF CheckPrerequisite
<1>n. x.last.n \in Nat
  BY <1>t DEF TypeOK, LookType, LastType
<1>b. /\ fails \in BOOLEAN /\ old \in BOOLEAN /\ touch \in BOOLEAN /\ run[s].failed \in BOOLEAN
      /\ ~fails => x.last.ok
      /\ old <=> ~fails /\ OutOfDate(Within[s][p], x)
  BY <1>t DEF Failed, RunType
<1> HIDE DEF fails, old, touch, x, p
<1>3. /\ r \in RunType /\ r.todo = Tail(run[s].todo) /\ r.req = run[s].req /\ r.last = run[s].last
      /\ r.failed = (run[s].failed \/ fails \/ old)
      /\ r.pc = IF touch THEN "touch" ELSE run[s].pc
      /\ r.target = IF touch THEN {p} ELSE {}
      /\ r.n = IF touch THEN x.last.n ELSE 0
  <2> DEFINE td == Tail(run[s].todo)  fl == run[s].failed \/ fails \/ old
             to == IF touch THEN "touch" ELSE run[s].pc
             tg == IF touch THEN {p} ELSE {}
             tn == IF touch THEN x.last.n ELSE 0
  <2>1. /\ td \in Seq(Required) /\ fl \in BOOLEAN /\ to \in {"idle", "check", "touch"}
        /\ tg \in SUBSET Required /\ tn \in Nat /\ run[s] \in RunType
        /\ r = [run[s] EXCEPT !.todo = td, !.failed = fl, !.pc = to, !.target = tg, !.n = tn]
    BY <1>1, <1>t, <1>n, <1>b
  <2> SUFFICES /\ r \in RunType /\ r.todo = td /\ r.req = run[s].req /\ r.last = run[s].last
               /\ r.failed = fl /\ r.pc = to /\ r.target = tg /\ r.n = tn
    OBVIOUS
  <2> HIDE DEF r, td, fl, to, tg, tn
  <2>2. r \in RunType
    BY <2>1 DEF RunType
  <2> QED
    BY <2>1, <2>2 DEF RunType
<1> HIDE DEF r
<1>4. run'[s] = r /\ run' \in [Stacks -> RunType] /\ \A t \in Stacks \ {s} : run'[t] = run[t]
  BY <1>t, <1>2, <1>3
<1>5. ~run'[s].failed => ~run[s].failed /\ x.last.ok /\ ~OutOfDate(Within[s][p], x)
  BY <1>b, <1>3, <1>4
<1>6. \/ run'[s].pc = "check"
      \/ run'[s].pc = "touch" /\ run'[s].target = {p} /\ run'[s].n = x.last.n
  BY <1>1, <1>b, <1>3, <1>4
<1> QED
  BY <1>1, <1>t, <1>3, <1>4, <1>5, <1>6 DEF TypeOK, Types, x, p

LEMMA TouchEffect ==
    ASSUME TypeOK, NEW s \in Stacks, Touch(s)
    PROVE  /\ Types' /\ run[s].pc = "touch"
           /\ run'[s].pc = "check" /\ run'[s].todo = run[s].todo /\ run'[s].failed = run[s].failed
           /\ run'[s].req = run[s].req /\ run'[s].last = run[s].last
           /\ \A t \in Stacks \ {s} : SameRun(run'[t], run[t])
           /\ \A q \in Stacks : 
                /\ stack'[q].last = stack[q].last /\ stack'[q].cur = stack[q].cur
                /\ stack'[q].good = stack[q].good /\ stack'[q].names = stack[q].names
                /\ \/ stack'[q].req = stack[q].req
                   \/ q \in run[s].target /\ stack'[q].req = After(run[s].n)
<1>t. run \in [Stacks -> RunType] /\ stack \in [Stacks -> StackType] /\ run[s] \in RunType
  BY DEF TypeOK, Types
<1> DEFINE new == [p \in Stacks |-> IF p \in run[s].target
                                      THEN [stack[p] EXCEPT !.req = After(run[s].n)]
                                      ELSE stack[p]]
           r == [run[s] EXCEPT !.pc = "check", !.target = {}, !.n = 0]
           now == [run EXCEPT ![s] = r]
<1>1. run[s].pc = "touch" /\ left' = left /\ Write(new, now)
  <2>1. now = [run EXCEPT ![s].pc = "check", ![s].target = {}, ![s].n = 0]
    BY <1>t
  <2> QED
    BY <2>1 DEF Touch
<1>a. After(run[s].n) \in Request
  BY <1>t DEF After, Request, RunType
<1>2. /\ new \in [Stacks -> StackType]
      /\ \A q \in Stacks : 
           /\ new[q].last = stack[q].last /\ new[q].cur = stack[q].cur
           /\ new[q].good = stack[q].good /\ new[q].names = stack[q].names
           /\ \/ new[q].req = stack[q].req
              \/ q \in run[s].target /\ new[q].req = After(run[s].n)
  <2>1. ASSUME NEW q \in Stacks
        PROVE  /\ new[q] \in StackType
               /\ new[q].last = stack[q].last /\ new[q].cur = stack[q].cur
               /\ new[q].good = stack[q].good /\ new[q].names = stack[q].names
               /\ \/ new[q].req = stack[q].req
                  \/ q \in run[s].target /\ new[q].req = After(run[s].n)
    <3>1. stack[q] \in StackType
      BY <1>t
    <3>2. CASE q \in run[s].target
      <4>1. new[q] = [stack[q] EXCEPT !.req = After(run[s].n)]
        BY <3>2
      <4> HIDE DEF new
      <4> QED
        BY <1>a, <3>1, <3>2, <4>1 DEF StackType
    <3>3. CASE q \notin run[s].target
      BY <3>1, <3>3
    <3> QED
      BY <3>2, <3>3
  <2> QED
    BY <2>1
<1>3. /\ r \in RunType /\ r.pc = "check" /\ r.todo = run[s].todo /\ r.failed = run[s].failed
      /\ r.req = run[s].req /\ r.last = run[s].last
  BY <1>t DEF RunType
<1> HIDE DEF new, r
<1>4. now \in [Stacks -> RunType] /\ now[s] = r /\ \A t \in Stacks \ {s} : now[t] = run[t]
  BY <1>t, <1>3
<1> HIDE DEF now
<1>5. stack' = new /\ run' \in [Stacks -> RunType] /\ \A t \in Stacks : SameRun(run'[t], now[t])
  BY <1>1, <1>4, WriteEffect
<1>6. /\ run'[s].pc = "check" /\ run'[s].todo = run[s].todo /\ run'[s].failed = run[s].failed
      /\ run'[s].req = run[s].req /\ run'[s].last = run[s].last
      /\ \A t \in Stacks \ {s} : SameRun(run'[t], run[t])
  <2>1. SameRun(run'[s], r)
    BY <1>4, <1>5
  <2> QED
    BY <1>3, <1>4, <1>5, <2>1 DEF SameRun
<1>7. Types'
  BY <1>1, <1>2, <1>5 DEF TypeOK, Types
<1> QED
  BY <1>1, <1>2, <1>5, <1>6, <1>7

LEMMA TouchFailsEffect ==
    ASSUME TypeOK, NEW s \in Stacks, TouchFails(s)
    PROVE  /\ Types' /\ stack' = stack
           /\ run'[s].pc = "idle" /\ run'[s].queued
           /\ \A t \in Stacks \ {s} : run'[t] = run[t]
<1>1. [Idle EXCEPT !.queued = TRUE] \in RunType
  BY ConstantTypes DEF RunType
<1>2. [Idle EXCEPT !.queued = TRUE].pc = "idle" /\ [Idle EXCEPT !.queued = TRUE].queued
  BY DEF Idle
<1>3. left' \in [inputs : Nat, troubles : Nat]
  BY DEF TypeOK, TouchFails, Trouble
<1> QED
  BY <1>1, <1>2, <1>3 DEF TypeOK, Types, TouchFails

LEMMA StatusType ==
    ASSUME TypeOK, NEW s \in Stacks
    PROVE  /\ Status(s) \in StackType /\ Status(s).last = run[s].last /\ Status(s).cur = NoCurrent
           /\ Status(s).good = stack[s].good /\ Status(s).names = stack[s].names
           /\ Status(s).req = stack[s].req
<1>t. run[s] \in RunType /\ stack[s] \in StackType /\ NoCurrent \in CurrentType
  BY RunFields, ConstantTypes
<1> QED
  BY <1>t DEF Status, StackType, RunType

LEMMA EndEffect ==
    ASSUME TypeOK, NEW s \in Stacks, AwaitPrerequisites(s) \/ BeginUpdate(s)
    PROVE  /\ Types' /\ run[s].pc = "check" /\ run[s].todo = <<>> /\ run'[s].pc = "idle"
           /\ stack'[s].last = run[s].last
           /\ stack'[s].good = stack[s].good /\ stack'[s].req = stack[s].req
           /\ \/ stack'[s].names = stack[s].names /\ stack'[s].cur = NoCurrent
              \/ /\ ~run[s].failed /\ stack'[s].names = stack[s].names + 1
                 /\ stack'[s].cur.n = stack[s].names + 1 /\ stack'[s].cur.state = "running"
                 /\ stack'[s].cur.req = run[s].req /\ stack'[s].cur.age = 0
           /\ \A t \in Stacks \ {s} : stack'[t] = stack[t] /\ SameRun(run'[t], run[t])
<1>t. /\ run[s] \in RunType /\ stack[s] \in StackType /\ NoCurrent \in CurrentType
      /\ Idle \in RunType /\ Idle.pc = "idle" /\ stack[s].names \in Nat
  BY RunFields, ConstantTypes DEF Idle
<1>1. run[s].pc = "check" /\ run[s].todo = <<>> /\ left' = left
  BY DEF AwaitPrerequisites, BeginUpdate
<1>2. CASE Save(s, Status(s), Idle)
  <2>1. /\ Types' /\ run'[s].pc = "idle" /\ stack'[s] = Status(s)
        /\ \A t \in Stacks \ {s} : stack'[t] = stack[t] /\ SameRun(run'[t], run[t])
    BY <1>1, <1>2, <1>t, StatusType, SaveEffect
  <2> QED
    BY <1>1, <2>1, StatusType
<1>3. CASE BeginUpdate(s) /\ stack[s].pod
  <2> DEFINE c == [NoCurrent EXCEPT !.n = stack[s].names + 1, !.state = "running",
                                    !.gen = stack[s].gen, !.req = run[s].req,
                                    !.commit = run[s].commit]
             x == [Status(s) EXCEPT !.names = stack[s].names + 1, !.cur = c]
  <2>1. /\ c \in CurrentType /\ c.n = stack[s].names + 1 /\ c.state = "running"
        /\ c.req = run[s].req /\ c.age = 0
    <3>1. c.age = 0 
      BY DEF NoCurrent
    <3>2. /\ run[s].req \in Request /\ run[s].commit \in Nat /\ stack[s].gen \in Nat
          /\ stack[s].names + 1 \in Nat
      <4>1. run[s].req \in Request /\ run[s].commit \in Nat
        BY <1>t DEF RunType
      <4>2. stack[s].gen \in Nat
        BY <1>t DEF StackType
      <4> QED
        BY <1>t, <4>1, <4>2
    <3>3. c \in CurrentType /\ c.n = stack[s].names + 1 /\ c.state = "running" /\ c.req = run[s].req
      BY <1>t, <3>2 DEF CurrentType
    <3> QED
      BY <3>1, <3>3
  <2>2. ~run[s].failed /\ Save(s, x, Idle)
    <3>1. Status(s).names = stack[s].names
      BY StatusType
    <3> QED
      BY <1>3, <3>1 DEF BeginUpdate
  <2> HIDE DEF c
  <2>3. /\ x \in StackType /\ x.last = run[s].last /\ x.good = stack[s].good
        /\ x.req = stack[s].req /\ x.names = stack[s].names + 1 /\ x.cur = c
    <3>1. /\ Status(s) \in StackType /\ Status(s).last = run[s].last
          /\ Status(s).good = stack[s].good /\ Status(s).req = stack[s].req
          /\ stack[s].names + 1 \in Nat
      BY <1>t, StatusType
    <3> QED
      BY <2>1, <3>1 DEF StackType
  <2> HIDE DEF x
  <2> QED
    BY <1>1, <1>t, <2>1, <2>2, <2>3, SaveEffect
<1> QED
  BY <1>2, <1>3 DEF AwaitPrerequisites, BeginUpdate

LEMMA TimerEffect ==
    ASSUME TypeOK, NEW s \in Stacks, TimerFires(s)
    PROVE  Types' /\ stack' = stack /\ \A t \in Stacks : SameRun(run'[t], run[t])
<1>t. run \in [Stacks -> RunType] /\ run[s] \in RunType
  BY DEF TypeOK, Types
<1> DEFINE r == [run[s] EXCEPT !.timer = FALSE, !.queued = TRUE]
<1>1. r \in RunType /\ SameRun(r, run[s])
  BY <1>t DEF RunType, SameRun
<1>2. run' = [run EXCEPT ![s] = r] /\ stack' = stack /\ left' = left
  BY <1>t DEF TimerFires
<1> HIDE DEF r
<1>3. run' \in [Stacks -> RunType] /\ \A t \in Stacks : run'[t] = run[t] \/ SameRun(run'[t], run[t])
  BY <1>t, <1>1, <1>2
<1> QED
  BY <1>2, <1>3 DEF TypeOK, Types, SameRun

LEMMA DeliverEffect ==
    ASSUME TypeOK, NEW p \in Required, Deliver(p)
    PROVE  /\ Types'
           /\ \A t \in Stacks : SameStack(stack'[t], stack[t]) /\ SameRun(run'[t], run[t])
<1>1. ASSUME NEW t \in Stacks
      PROVE  run'[t] \in RunType /\ SameRun(run'[t], run[t])
  <2> DEFINE b == run[t].queued \/ (p \in Prerequisites(t) /\ cache[p].event)
  <2>1. run'[t] = [run[t] EXCEPT !.queued = b] /\ run[t] \in RunType
    BY DEF Deliver, TypeOK
  <2>2. b \in BOOLEAN /\ (run[t].queued => b)
    OBVIOUS
  <2> HIDE DEF b
  <2> QED
    BY <2>1, <2>2 DEF RunType, SameRun
<1>2. run' = [t \in Stacks |-> run'[t]] /\ stack' = stack /\ left' = left
  BY DEF Deliver
<1>3. run' \in [Stacks -> RunType]
  BY <1>1, <1>2
<1> QED
  BY <1>1, <1>2, <1>3 DEF TypeOK, Types, SameStack

\* The kinds of step.
Quiet ==
    \/ \E p \in Required : Deliver(p)
    \/ \E s \in Stacks : CreateStack(s) \/ EditSpec(s) \/ NewCommit(s) \/ WorkspaceReady(s) \/ TimerFires(s)

LEMMA QuietEffect ==
    ASSUME TypeOK, Quiet \/ UNCHANGED vars
    PROVE  /\ Types'
           /\ \A t \in Stacks : SameStack(stack'[t], stack[t]) /\ SameRun(run'[t], run[t])
<1>1. CASE UNCHANGED vars
  BY <1>1 DEF vars, TypeOK, Types, SameStack, SameRun
<1>3. ASSUME NEW p \in Required, Deliver(p)
      PROVE  /\ Types'
             /\ \A t \in Stacks : SameStack(stack'[t], stack[t]) /\ SameRun(run'[t], run[t])
  BY <1>3, DeliverEffect
<1>2. CASE \E s \in Stacks :
            CreateStack(s) \/ EditSpec(s) \/ NewCommit(s) \/ WorkspaceReady(s) \/ TimerFires(s)
  <2>1. PICK s \in Stacks :
            CreateStack(s) \/ EditSpec(s) \/ NewCommit(s) \/ WorkspaceReady(s) \/ TimerFires(s)
    BY <1>2
  <2>2. CASE TimerFires(s)
    BY <2>2, TimerEffect DEF SameStack
  <2> QED
    BY <2>1, <2>2, UserEffect
<1> QED
  BY <1>1, <1>2, <1>3 DEF Quiet

LEMMA StepCases ==
    ASSUME [Next]_vars
    PROVE  \/ Quiet \/ UNCHANGED vars \/ Tick
           \/ \E s \in Stacks :
                \/ UserRequest(s) \/ UpdateSucceeds(s) \/ UpdateFails(s)
                \/ WaitForUpdate(s) \/ KeepSynced(s) \/ BeginCheck(s) \/ CheckPrerequisite(s)
                \/ Touch(s) \/ TouchFails(s) \/ AwaitPrerequisites(s) \/ BeginUpdate(s)
BY DEF Next, Reconcile, Quiet

\* What the cache shows of a Stack stays, or is the latest.
LEMMA WriteCache ==
    ASSUME TypeOK, NEW new, NEW now, Write(new, now)
    PROVE  cache' \in [Required -> LookType] /\ \A p \in Required : cache'[p].last = cache[p].last
<1>1. ASSUME NEW p \in Required
      PROVE  cache'[p] \in LookType /\ cache'[p].last = cache[p].last
  <2> DEFINE b == cache[p].event \/ BecomesReady(p, new)
  <2>1. cache'[p] = [cache[p] EXCEPT !.event = b] /\ cache[p] \in LookType /\ b \in BOOLEAN
    BY DEF Write, TypeOK
  <2> HIDE DEF b
  <2> QED
    BY <2>1 DEF LookType
<1>2. cache' = [p \in Required |-> cache'[p]]
  BY DEF Write
<1> QED
  BY <1>1, <1>2

LEMMA LookFields ==
    ASSUME TypeOK, NEW p \in Required
    PROVE  Look(stack[p]) \in LookType /\ Look(stack[p]).last = stack[p].last
<1>1. p \in Stacks
  BY RequiredType
<1>2. stack[p] \in StackType
  BY <1>1 DEF TypeOK
<1> QED
  BY <1>2 DEF Look, LookType, StackType

LEMMA CacheEffect ==
    ASSUME TypeOK, [Next]_vars
    PROVE  /\ cache' \in [Required -> LookType]
           /\ \A p \in Required :
                \/ cache'[p].last = stack'[p].last
                \/ ~Tick /\ cache'[p].last = cache[p].last
<1> DEFINE Kept == cache' \in [Required -> LookType] /\ \A p \in Required : cache'[p].last = cache[p].last
<1>t. cache \in [Required -> LookType]
  BY DEF TypeOK
<1>1. CASE Tick
  <2>1. ASSUME NEW p \in Required
        PROVE  cache'[p] \in LookType /\ cache'[p].last = stack'[p].last
    <3>1. p \in Stacks
      BY RequiredType
    <3>2. cache'[p] = Look(stack'[p])
      BY <1>1, <3>1 DEF Tick
    <3>3. stack'[p] \in StackType
      BY <1>1, <3>1, TickEffect DEF Types
    <3> QED
      BY <3>2, <3>3 DEF Look, LookType, StackType
  <2>2. cache' = [p \in Required |-> cache'[p]]
    BY <1>1 DEF Tick
  <2> QED
    BY <2>1, <2>2
<1>2. ASSUME NEW p \in Required, Deliver(p)
      PROVE  /\ cache' \in [Required -> LookType]
             /\ \A q \in Required : cache'[q].last = stack'[q].last \/ cache'[q].last = cache[q].last
  <2>1. cache' = [cache EXCEPT ![p] = Look(stack[p])] /\ stack' = stack
    BY <1>2 DEF Deliver
  <2> QED
    BY <1>t, <2>1, LookFields
<1>3. ASSUME NEW s \in Stacks,
             \/ CreateStack(s) \/ EditSpec(s) \/ UserRequest(s) \/ NewCommit(s)
             \/ WorkspaceReady(s) \/ UpdateSucceeds(s) \/ UpdateFails(s)
             \/ WaitForUpdate(s) \/ KeepSynced(s) \/ Touch(s)
      PROVE  Kept
  BY <1>3, WriteCache DEF CreateStack, EditSpec, UserRequest, NewCommit, WorkspaceReady,
     UpdateSucceeds, UpdateFails, WaitForUpdate, KeepSynced, Touch
<1>4. ASSUME NEW s \in Stacks, AwaitPrerequisites(s) \/ BeginUpdate(s)
      PROVE  Kept
  BY <1>4, WriteCache DEF AwaitPrerequisites, BeginUpdate, Save
<1>5. ASSUME NEW s \in Stacks, TimerFires(s) \/ BeginCheck(s) \/ CheckPrerequisite(s) \/ TouchFails(s)
      PROVE  Kept
  BY <1>5, <1>t DEF TimerFires, BeginCheck, CheckPrerequisite, TouchFails
<1>6. ASSUME UNCHANGED vars
      PROVE  Kept
  BY <1>6, <1>t DEF vars
<1>7. ASSUME ~Tick
      PROVE  /\ cache' \in [Required -> LookType]
             /\ \A q \in Required : cache'[q].last = stack'[q].last \/ cache'[q].last = cache[q].last
  <2>1. CASE Kept
    BY <2>1
  <2>2. CASE \E p \in Required : Deliver(p)
    BY <1>2, <2>2
  <2> HIDE DEF Kept
  <2> QED
    BY <1>3, <1>4, <1>5, <1>6, <1>7, <2>1, <2>2, StepCases DEF Quiet
<1> QED
  BY <1>1, <1>7

LEMMA TypeStep ==
    ASSUME TypeOK, [Next]_vars
    PROVE  TypeOK'
<1>1. Types'
  BY StepCases, QuietEffect, TickEffect, UserRequestEffect, UpdateEndsEffect, WaitForUpdateEffect,
     KeepSyncedEffect, BeginCheckEffect, CheckEffect, TouchEffect, TouchFailsEffect, EndEffect
<1> QED
  BY <1>1, CacheEffect DEF TypeOK, Types

LEMMA TypeInit == Init => TypeOK
<1> SUFFICES ASSUME Init PROVE TypeOK
  OBVIOUS
<1>b. ASSUME NEW b \in BOOLEAN
      PROVE  /\ [Absent EXCEPT !.exists = b] \in StackType
             /\ [Idle EXCEPT !.queued = b] \in RunType
  BY <1>b, ConstantTypes DEF StackType, RunType
<1>1. stack \in [Stacks -> StackType]
  <2>1. ASSUME NEW s \in Stacks  PROVE [Absent EXCEPT !.exists = s \in Created] \in StackType
    <3> DEFINE b == s \in Created
    <3>1. b \in BOOLEAN
      OBVIOUS
    <3> HIDE DEF b
    <3>2. [Absent EXCEPT !.exists = b] \in StackType
      BY <1>b, <3>1
    <3> QED
      BY <3>2 DEF b
  <2> QED
    BY <2>1 DEF Init
<1>2. run \in [Stacks -> RunType]
  <2>1. ASSUME NEW s \in Stacks  PROVE [Idle EXCEPT !.queued = s \in Created] \in RunType
    <3> DEFINE b == s \in Created
    <3>1. b \in BOOLEAN
      OBVIOUS
    <3> HIDE DEF b
    <3>2. [Idle EXCEPT !.queued = b] \in RunType
      BY <1>b, <3>1
    <3> QED
      BY <3>2 DEF b
  <2> QED
    BY <2>1 DEF Init
<1>3. cache \in [Required -> LookType]
  <2>1. ASSUME NEW p \in Required  PROVE Look(stack[p]) \in LookType
    <3>1. stack[p] \in StackType
      BY <1>1, RequiredType
    <3> QED
      BY <3>1 DEF Look, LookType, StackType
  <2>2. cache = [p \in Required |-> Look(stack[p])]
    BY DEF Init
  <2> QED
    BY <2>1, <2>2
<1>4. left \in [inputs : Nat, troubles : Nat]
  <2>1. left = [inputs |-> MaxInputs, troubles |-> MaxTroubles]
    BY DEF Init
  <2> QED
    BY <2>1, ConstantAssumption
<1> QED
  BY <1>1, <1>2, <1>3, <1>4 DEF TypeOK

\* What a Stack and its reconcile consist of: requests, outcomes and ages that the checks
\* of isRequirementSatisfied can compare.
THEOREM TypeCorrect == Spec => []TypeOK
<1>1. Init => TypeOK
  BY TypeInit
<1>2. TypeOK /\ [Next]_vars => TypeOK'
  BY TypeStep
<1> QED
  BY <1>1, <1>2, PTL DEF Spec

LEMMA InitFields ==
    ASSUME Init, NEW s \in Stacks
    PROVE  /\ run[s].pc = "idle" /\ stack[s].names = 0 /\ stack[s].req.by = "user"
           /\ stack[s].cur.state = "none" /\ stack[s].last.n = 0 /\ ~stack[s].last.ok
BY DEF Init, Absent, Idle, NoLast, NoCurrent, User

LEMMA InitCache ==
    ASSUME Init, NEW p \in Required
    PROVE  /\ p \in Stacks /\ cache[p].last = stack[p].last
           /\ stack[p].names <= cache[p].last.n + 1
<1>1. p \in Stacks /\ cache[p] = Look(stack[p])
  BY RequiredType DEF Init
<1>2. cache[p].last = stack[p].last
  BY <1>1 DEF Look
<1> QED
  BY <1>1, <1>2, InitFields

\* What the two invariants share: whose reconcile it is, and what it has absorbed.
LEMMA AttendedStep ==
    ASSUME TypeOK, Attended, [Next]_vars
    PROVE  Attended'
<1> SUFFICES ASSUME NEW s \in Stacks, run'[s].pc # "idle"
             PROVE  stack'[s].cur.state # "running" /\ run'[s].last = Absorbed(s)'
  BY DEF Attended
<1>g. ASSUME run'[s].pc = run[s].pc, run'[s].last = run[s].last,
             stack'[s].cur = stack[s].cur, stack'[s].last = stack[s].last
      PROVE  stack'[s].cur.state # "running" /\ run'[s].last = Absorbed(s)'
  BY <1>g DEF Attended, Absorbed
<1>1. CASE Quiet \/ UNCHANGED vars
  BY <1>g, <1>1, QuietEffect DEF SameStack, SameRun
<1>2. CASE Tick
  BY <1>2, TickEffect
<1>3. ASSUME NEW t \in Stacks, UserRequest(t)  PROVE stack'[s].cur.state # "running" /\ run'[s].last = Absorbed(s)'
  BY <1>g, <1>3, UserRequestEffect DEF SameRun
<1>4. ASSUME NEW t \in Stacks, UpdateSucceeds(t) \/ UpdateFails(t)
      PROVE  stack'[s].cur.state # "running" /\ run'[s].last = Absorbed(s)'
  <2>1. stack[t].cur.state = "running" /\ SameRun(run'[s], run[s]) /\ (s # t => stack'[s] = stack[s])
    BY <1>4, UpdateEndsEffect
  <2>2. s # t
    BY <2>1 DEF Attended, SameRun
  <2> QED
    BY <1>g, <2>1, <2>2 DEF SameRun
<1>5. ASSUME NEW t \in Stacks, WaitForUpdate(t) \/ KeepSynced(t) \/ AwaitPrerequisites(t) \/ BeginUpdate(t)
      PROVE  stack'[s].cur.state # "running" /\ run'[s].last = Absorbed(s)'
  <2>1. run'[t].pc = "idle"
    BY <1>5, WaitForUpdateEffect, KeepSyncedEffect, EndEffect
  <2>2. s # t
    BY <2>1
  <2> QED
    BY <1>g, <1>5, <2>2, WaitForUpdateEffect, KeepSyncedEffect, EndEffect DEF SameStack, SameRun
<1>6. ASSUME NEW t \in Stacks, BeginCheck(t)
      PROVE  stack'[s].cur.state # "running" /\ run'[s].last = Absorbed(s)'
  <2>1. CASE s = t
    <3>1. /\ stack' = stack /\ stack[s].cur.state # "running" /\ run'[s].last = Absorbed(s)
      BY <1>6, <2>1, BeginCheckEffect
    <3> QED
      BY <3>1 DEF Absorbed
  <2>2. CASE s # t
    BY <1>g, <1>6, <2>2, BeginCheckEffect
  <2> QED
    BY <2>1, <2>2
<1>7. ASSUME NEW t \in Stacks, CheckPrerequisite(t) \/ Touch(t)
      PROVE  stack'[s].cur.state # "running" /\ run'[s].last = Absorbed(s)'
  <2>1. /\ run[t].pc # "idle" /\ run'[t].last = run[t].last
        /\ \A q \in Stacks : stack'[q].cur = stack[q].cur /\ stack'[q].last = stack[q].last
    BY <1>7, CheckEffect, TouchEffect
  <2>2. CASE s = t
    BY <2>1, <2>2 DEF Attended, Absorbed
  <2>3. CASE s # t
    <3>1. run'[s].pc = run[s].pc /\ run'[s].last = run[s].last
      BY <1>7, <2>3, CheckEffect, TouchEffect DEF SameRun
    <3> QED
      BY <1>g, <2>1, <3>1
  <2> QED
    BY <2>2, <2>3
<1>8. ASSUME NEW t \in Stacks, TouchFails(t)
      PROVE  stack'[s].cur.state # "running" /\ run'[s].last = Absorbed(s)'
  <2>1. s # t
    BY <1>8, TouchFailsEffect
  <2> QED
    BY <1>g, <1>8, <2>1, TouchFailsEffect
<1> QED
  BY <1>1, <1>2, <1>3, <1>4, <1>5, <1>6, <1>7, <1>8, StepCases

-----------------------------------------------------------------------------
(* Updates wait for the prerequisites.                                     *)

LEMMA TimelyStep ==
    ASSUME TypeOK, Attended, Timely, [Next]_vars
    PROVE  Timely'
<1> SUFFICES ASSUME NEW s \in Stacks
             PROVE  /\ stack'[s].last.ok => stack'[s].good <= stack'[s].last.age
                    /\ stack'[s].cur.state = "succeeded" =>
                           stack'[s].good = 0 /\ (run'[s].queued \/ run'[s].pc # "idle")
  BY DEF Timely
<1> DEFINE Kept == /\ stack'[s].last.ok => stack'[s].good <= stack'[s].last.age
                   /\ stack'[s].cur.state = "succeeded" =>
                          stack'[s].good = 0 /\ (run'[s].queued \/ run'[s].pc # "idle")
<1>t. /\ stack[s].last.ok => stack[s].good <= stack[s].last.age
      /\ stack[s].cur.state = "succeeded" => stack[s].good = 0 /\ (run[s].queued \/ run[s].pc # "idle")
      /\ NoCurrent.state = "none"
  BY DEF Timely, NoCurrent
<1>g. ASSUME stack'[s].last = stack[s].last, stack'[s].cur = stack[s].cur, stack'[s].good = stack[s].good,
             \/ SameRun(run'[s], run[s]) \/ run'[s].pc # "idle" \/ run'[s].queued
             \/ stack[s].cur.state # "succeeded"
      PROVE  Kept
  BY <1>t, <1>g DEF SameRun
<1>a. Absorbed(s).ok /\ stack[s].cur.state # "running" => stack[s].good <= Absorbed(s).age
  <2>1. CASE stack[s].cur.state = "none"
    BY <1>t, <2>1 DEF Absorbed
  <2>2. CASE stack[s].cur.state # "none" /\ Absorbed(s).ok
    <3>1. stack[s].cur.state = "succeeded" /\ Absorbed(s).age = 0
      BY <2>2 DEF Absorbed
    <3> QED
      BY <1>t, <3>1
  <2> QED
    BY <2>1, <2>2
<1>1. CASE Quiet \/ UNCHANGED vars
  BY <1>g, <1>1, QuietEffect DEF SameStack
<1>2. CASE Tick
  BY <1>2, <1>t, TickEffect
<1>3. ASSUME NEW t \in Stacks, UserRequest(t)  PROVE Kept
  BY <1>g, <1>3, UserRequestEffect
<1>4. ASSUME NEW t \in Stacks, UpdateSucceeds(t) \/ UpdateFails(t)  PROVE Kept
  <2>1. CASE s = t
    <3>1. stack[s].last.age \in 0..MaxAge
      BY RunFields
    <3> QED
      BY <1>4, <1>t, <2>1, <3>1, ConstantAssumption, UpdateEndsEffect
  <2>2. CASE s # t
    BY <1>g, <1>4, <2>2, UpdateEndsEffect
  <2> QED
    BY <2>1, <2>2
<1>5. ASSUME NEW t \in Stacks, WaitForUpdate(t)  PROVE Kept
  <2>1. CASE s = t
    BY <1>g, <1>5, <2>1, WaitForUpdateEffect DEF SameStack
  <2>2. CASE s # t
    BY <1>g, <1>5, <2>2, WaitForUpdateEffect DEF SameStack
  <2> QED
    BY <2>1, <2>2
<1>6. ASSUME NEW t \in Stacks, KeepSynced(t)  PROVE Kept
  <2>1. CASE s = t
    BY <1>6, <1>t, <1>a, <2>1, KeepSyncedEffect
  <2>2. CASE s # t
    BY <1>g, <1>6, <2>2, KeepSyncedEffect
  <2> QED
    BY <2>1, <2>2
<1>7. ASSUME NEW t \in Stacks, BeginCheck(t) \/ CheckPrerequisite(t) \/ TouchFails(t)  PROVE Kept
  <2>1. /\ stack' = stack
        /\ s = t => run'[s].pc # "idle" \/ run'[s].queued
        /\ s # t => run'[s] = run[s]
    BY <1>7, BeginCheckEffect, CheckEffect, TouchFailsEffect
  <2> QED
    BY <1>t, <2>1
<1>8. ASSUME NEW t \in Stacks, Touch(t)  PROVE Kept
  BY <1>g, <1>8, TouchEffect
<1>9. ASSUME NEW t \in Stacks, AwaitPrerequisites(t) \/ BeginUpdate(t)  PROVE Kept
  <2>1. CASE s = t
    <3>1. run[s].pc # "idle" /\ stack'[s].last = run[s].last /\ stack'[s].good = stack[s].good
      BY <1>9, <2>1, EndEffect
    <3>2. stack[s].cur.state # "running" /\ run[s].last = Absorbed(s)
      BY <3>1 DEF Attended
    <3>3. stack'[s].cur.state \in {"none", "running"}
      BY <1>9, <1>t, <2>1, EndEffect
    <3> QED
      BY <1>a, <3>1, <3>2, <3>3
  <2>2. CASE s # t
    BY <1>g, <1>9, <2>2, EndEffect
  <2> QED
    BY <2>1, <2>2
<1> QED
  BY <1>1, <1>2, <1>3, <1>4, <1>5, <1>6, <1>7, <1>8, <1>9, StepCases

LEMMA GoodStep ==
    ASSUME TypeOK, [Next]_vars, ~Tick, NEW p \in Stacks
    PROVE  stack'[p].good = stack[p].good \/ stack'[p].good = 0
<1>1. CASE Quiet \/ UNCHANGED vars
  BY <1>1, QuietEffect DEF SameStack
<1>2. ASSUME NEW t \in Stacks,
             \/ UserRequest(t) \/ UpdateSucceeds(t) \/ UpdateFails(t)
             \/ WaitForUpdate(t) \/ KeepSynced(t) \/ BeginCheck(t) \/ CheckPrerequisite(t)
             \/ Touch(t) \/ TouchFails(t) \/ AwaitPrerequisites(t) \/ BeginUpdate(t)
      PROVE  stack'[p].good = stack[p].good \/ stack'[p].good = 0
  <2>1. CASE p = t
    BY <1>2, <2>1, UserRequestEffect, UpdateEndsEffect, WaitForUpdateEffect, KeepSyncedEffect,
       BeginCheckEffect, CheckEffect, TouchEffect, TouchFailsEffect, EndEffect DEF SameStack
  <2>2. CASE p # t
    BY <1>2, <2>2, UserRequestEffect, UpdateEndsEffect, WaitForUpdateEffect, KeepSyncedEffect,
       BeginCheckEffect, CheckEffect, TouchEffect, TouchFailsEffect, EndEffect DEF SameStack
  <2> QED
    BY <2>1, <2>2
<1> QED
  BY <1>1, <1>2, StepCases

LEMMA TimelyCacheStep ==
    ASSUME TypeOK, TypeOK', Timely', TimelyCache, [Next]_vars
    PROVE  TimelyCache'
<1> SUFFICES ASSUME NEW p \in Required, cache'[p].last.ok
             PROVE  stack'[p].good <= cache'[p].last.age
  BY DEF TimelyCache
<1>p. p \in Stacks
  BY RequiredType
<1>1. CASE cache'[p].last = stack'[p].last
  BY <1>1, <1>p DEF Timely
<1>2. CASE ~Tick /\ cache'[p].last = cache[p].last
  <2>1. stack[p].good <= cache[p].last.age /\ cache[p].last.age \in 0..MaxAge
    BY <1>2 DEF TimelyCache, TypeOK, LookType, LastType
  <2>2. stack'[p].good = stack[p].good \/ stack'[p].good = 0
    BY <1>2, <1>p, GoodStep
  <2> QED
    BY <1>2, <2>1, <2>2, ConstantAssumption
<1> QED
  BY <1>1, <1>2, CacheEffect

\* A prerequisite that passes isRequirementSatisfied is satisfied.
LEMMA CheckedSatisfied ==
    ASSUME TypeOK, TimelyCache, NEW s \in Stacks, NEW p \in Required,
           cache[p].last.ok, ~OutOfDate(Within[s][p], cache[p])
    PROVE  Satisfied(s, p)
<1>p. p \in Stacks
  BY RequiredType
<1>1. /\ stack[p].good \in 0..Never /\ cache[p].last.age \in 0..MaxAge
      /\ MaxAge \in Nat /\ Never = MaxAge + 1 /\ Within[s][p] \in Nat
  <2>1. cache[p].last.age \in 0..MaxAge
    BY DEF TypeOK, LookType, LastType
  <2> QED
    BY <1>p, <2>1, RunFields, ConstantAssumption DEF Never
<1>2. stack[p].good <= cache[p].last.age
  BY DEF TimelyCache
<1>3. Within[s][p] # 0 => cache[p].last.age <= Within[s][p]
  BY <1>1 DEF OutOfDate
<1> QED
  BY <1>1, <1>2, <1>3 DEF Satisfied

LEMMA CheckedStep ==
    ASSUME SafeInv, TypeOK', [Next]_vars
    PROVE  Checked'
<1> SUFFICES ASSUME NEW s \in Stacks, run'[s].pc # "idle", ~run'[s].failed, NEW p \in Prerequisites(s)
             PROVE  Satisfied(s, p)' \/ \E i \in DOMAIN run'[s].todo : run'[s].todo[i] = p
  BY DEF Checked
<1> DEFINE Goal == Satisfied(s, p)' \/ \E i \in DOMAIN run'[s].todo : run'[s].todo[i] = p
<1>t. /\ TypeOK /\ Attended /\ TimelyCache /\ Checked /\ p \in Stacks /\ Requires[s] \in Seq(Stacks)
      /\ \E i \in DOMAIN Requires[s] : Requires[s][i] = p
  <2>1. TypeOK /\ Attended /\ TimelyCache /\ Checked /\ Requires[s] \in Seq(Stacks)
    BY ConstantAssumption DEF SafeInv
  <2>2. \E i \in DOMAIN Requires[s] : Requires[s][i] = p
    BY DEF Prerequisites
  <2> QED
    BY <2>1, <2>2
<1>s. ASSUME stack'[p].good = stack[p].good \/ stack'[p].good = 0, Satisfied(s, p)
      PROVE  Satisfied(s, p)'
  <2>1. Within[s][p] \in Nat /\ Never # 0
    BY <1>t, ConstantAssumption DEF Never
  <2> QED
    BY <1>s, <2>1 DEF Satisfied
<1>g. ASSUME run'[s].pc # "idle" => run[s].pc # "idle", run'[s].todo = run[s].todo,
             run'[s].failed = run[s].failed,
             stack'[p].good = stack[p].good \/ stack'[p].good = 0
      PROVE  Goal
  BY <1>s, <1>g, <1>t DEF Checked
<1>1. CASE Quiet \/ UNCHANGED vars
  BY <1>g, <1>1, <1>t, QuietEffect DEF SameStack, SameRun
<1>2. ~Tick
  BY <1>t, TickEffect
<1>3. ASSUME NEW t \in Stacks, UserRequest(t)  PROVE Goal
  BY <1>g, <1>3, <1>t, UserRequestEffect DEF SameRun
<1>4. ASSUME NEW t \in Stacks, UpdateSucceeds(t) \/ UpdateFails(t)  PROVE Goal
  <2>1. stack'[p].good = stack[p].good \/ stack'[p].good = 0
    BY <1>4, <1>t, UpdateEndsEffect
  <2> QED
    BY <1>g, <1>4, <1>t, <2>1, UpdateEndsEffect DEF SameRun
<1>5. ASSUME NEW t \in Stacks,
             \/ WaitForUpdate(t) \/ KeepSynced(t) \/ AwaitPrerequisites(t) \/ BeginUpdate(t)
             \/ TouchFails(t)
      PROVE  Goal
  <2>1. s # t
    BY <1>5, <1>t, WaitForUpdateEffect, KeepSyncedEffect, EndEffect, TouchFailsEffect
  <2>2. stack'[p].good = stack[p].good
    BY <1>5, <1>t, WaitForUpdateEffect, KeepSyncedEffect, EndEffect, TouchFailsEffect DEF SameStack
  <2>3. SameRun(run'[s], run[s]) \/ run'[s] = run[s]
    BY <1>5, <1>t, <2>1, WaitForUpdateEffect, KeepSyncedEffect, EndEffect, TouchFailsEffect
  <2> QED
    BY <1>g, <2>2, <2>3 DEF SameRun
<1>6. ASSUME NEW t \in Stacks, BeginCheck(t)  PROVE Goal
  <2>1. CASE s = t
    BY <1>6, <1>t, <2>1, BeginCheckEffect
  <2>2. CASE s # t
    BY <1>g, <1>6, <1>t, <2>2, BeginCheckEffect
  <2> QED
    BY <2>1, <2>2
<1>7. ASSUME NEW t \in Stacks, CheckPrerequisite(t)  PROVE Goal
  <2>1. CASE s = t
    <3> DEFINE todo == run[s].todo
    <3>1. /\ todo \in Seq(Required) /\ todo # <<>> /\ run'[s].todo = Tail(todo)
          /\ stack' = stack /\ run[s].pc = "check"
          /\ ~run[s].failed /\ cache[Head(todo)].last.ok
          /\ ~OutOfDate(Within[s][Head(todo)], cache[Head(todo)])
      BY <1>7, <1>t, <2>1, CheckEffect, RunFields
    <3>2. /\ Head(todo) = todo[1] /\ Head(todo) \in Required /\ Tail(todo) \in Seq(Required)
          /\ Len(Tail(todo)) = Len(todo) - 1
          /\ \A i \in 1..Len(Tail(todo)) : Tail(todo)[i] = todo[i + 1]
      BY <3>1, HeadTailProperties
    <3>3. Satisfied(s, Head(todo))
      BY <1>t, <3>1, <3>2, CheckedSatisfied
    <3>4. Satisfied(s, p) => Goal
      BY <1>s, <3>1
    <3>5. ASSUME NEW i \in DOMAIN todo, todo[i] = p  PROVE Goal
      <4>1. i \in 1..Len(todo) /\ Len(todo) \in Nat
        BY <3>1
      <4>2. CASE i = 1
        BY <3>2, <3>3, <3>4, <3>5, <4>2
      <4>3. CASE i # 1
        <5>1. i - 1 \in 1..Len(Tail(todo)) /\ (i - 1) + 1 = i
          BY <3>2, <4>1, <4>3
        <5>2. Tail(todo)[i - 1] = p /\ i - 1 \in DOMAIN Tail(todo)
          BY <3>2, <3>5, <5>1
        <5> QED
          BY <3>1, <5>2
      <4> QED
        BY <4>2, <4>3
    <3> QED
      BY <1>t, <3>1, <3>4, <3>5 DEF Checked
  <2>2. CASE s # t
    BY <1>g, <1>7, <1>t, <2>2, CheckEffect
  <2> QED
    BY <2>1, <2>2
<1>8. ASSUME NEW t \in Stacks, Touch(t)  PROVE Goal
  <2>1. stack'[p].good = stack[p].good /\ run[t].pc # "idle"
    BY <1>8, <1>t, TouchEffect
  <2>2. run'[s].todo = run[s].todo /\ run'[s].failed = run[s].failed /\ (s # t => run'[s].pc = run[s].pc)
    BY <1>8, <1>t, TouchEffect DEF SameRun
  <2> QED
    BY <1>g, <2>1, <2>2
<1> QED
  BY <1>1, <1>2, <1>3, <1>4, <1>5, <1>6, <1>7, <1>8, StepCases

LEMMA SafeStep ==
    ASSUME SafeInv, [Next]_vars
    PROVE  SafeInv'
<1>1. TypeOK' /\ Attended' /\ Timely'
  BY TypeStep, AttendedStep, TimelyStep DEF SafeInv
<1>2. TimelyCache'
  BY <1>1, TimelyCacheStep DEF SafeInv
<1> QED
  BY <1>1, <1>2, CheckedStep DEF SafeInv

\* Which steps start an update.
LEMMA StartsUpdate ==
    ASSUME TypeOK, [Next]_vars, NEW s \in Stacks, Starts(s)
    PROVE  /\ run[s].pc = "check" /\ run[s].todo = <<>> /\ ~run[s].failed
           /\ stack'[s].names = stack[s].names + 1
           /\ stack'[s].last = run[s].last /\ stack'[s].cur.req = run[s].req
           /\ \A p \in Stacks : stack'[p].good = stack[p].good
<1>t. stack[s].names \in Nat /\ stack'[s].names # stack[s].names
  <2>1. stack[s].names \in Nat
    BY RunFields
  <2> QED
    BY <2>1 DEF Starts
<1>1. ~Quiet /\ ~UNCHANGED vars /\ ~Tick
  BY <1>t, QuietEffect, TickEffect DEF SameStack
<1>2. ASSUME NEW t \in Stacks
      PROVE  /\ ~UserRequest(t) /\ ~UpdateSucceeds(t) /\ ~UpdateFails(t)
             /\ ~WaitForUpdate(t) /\ ~KeepSynced(t) /\ ~BeginCheck(t) /\ ~CheckPrerequisite(t)
             /\ ~Touch(t) /\ ~TouchFails(t)
  BY <1>t, UserRequestEffect, UpdateEndsEffect, WaitForUpdateEffect, KeepSyncedEffect,
     BeginCheckEffect, CheckEffect, TouchEffect, TouchFailsEffect DEF SameStack
<1>3. PICK t \in Stacks : AwaitPrerequisites(t) \/ BeginUpdate(t)
  BY <1>1, <1>2, StepCases
<1>4. s = t
  BY <1>t, <1>3, EndEffect
<1>5. stack'[s].cur # NoCurrent \/ stack'[s].names = stack[s].names + 1
  BY <1>t, <1>3, <1>4, EndEffect
<1> QED
  BY <1>t, <1>3, <1>4, EndEffect

\* An update only starts when each prerequisite has succeeded, within the required
\* duration.  Neither a cache that lags when Reconcile looks at it in step 3, nor the
\* requests, edits and failures until the start, make isRequirementSatisfied's answer
\* stale, as long as no time passes.
THEOREM PrerequisitesFirst == Spec => RunsAfterPrerequisites
<1>1. Init => SafeInv
  BY TypeInit, InitFields, InitCache DEF SafeInv, Attended, Timely, TimelyCache, Checked
<1>2. SafeInv /\ [Next]_vars => SafeInv'
  BY SafeStep
<1>3. SafeInv /\ [Next]_vars =>
          [\A s \in Stacks : Starts(s) => \A p \in Prerequisites(s) :
               stack[p].good # Never /\ (Within[s][p] # 0 => stack[p].good <= Within[s][p])]_vars
  <2> SUFFICES ASSUME SafeInv, [Next]_vars, NEW s \in Stacks, Starts(s), NEW p \in Prerequisites(s)
               PROVE  stack[p].good # Never /\ (Within[s][p] # 0 => stack[p].good <= Within[s][p])
    OBVIOUS
  <2>1. run[s].pc = "check" /\ run[s].todo = <<>> /\ ~run[s].failed
    BY StartsUpdate DEF SafeInv
  <2>2. DOMAIN run[s].todo = {}
    BY <2>1
  <2> QED
    BY <2>1, <2>2 DEF SafeInv, Checked, Satisfied
<1> QED
  BY <1>1, <1>2, <1>3, PTL DEF Spec, RunsAfterPrerequisites

-----------------------------------------------------------------------------
(* Touching a prerequisite does not thrash.                                *)

LEMMA NumberedStep ==
    ASSUME TypeOK, Attended, Numbered, [Next]_vars
    PROVE  Numbered'
<1> DEFINE Num(x) == IF x.cur.state = "none" THEN x.names = x.last.n
                     ELSE x.names = x.cur.n /\ x.cur.n = x.last.n + 1
<1> SUFFICES ASSUME NEW s \in Stacks  PROVE Num(stack'[s])
  BY DEF Numbered
<1>t. /\ Num(stack[s]) /\ NoCurrent.state = "none"
      /\ stack[s].cur.state # "running" => Absorbed(s).n = stack[s].names
  BY DEF Numbered, NoCurrent, Absorbed
<1>g. ASSUME stack'[s].last = stack[s].last, stack'[s].cur = stack[s].cur,
             stack'[s].names = stack[s].names
      PROVE  Num(stack'[s])
  BY <1>t, <1>g
<1>1. CASE Quiet \/ UNCHANGED vars
  BY <1>g, <1>1, QuietEffect DEF SameStack
<1>2. CASE Tick
  BY <1>2, <1>t, TickEffect
<1>3. ASSUME NEW t \in Stacks,
             \/ UserRequest(t) \/ WaitForUpdate(t) \/ BeginCheck(t) \/ CheckPrerequisite(t)
             \/ Touch(t) \/ TouchFails(t)
      PROVE  Num(stack'[s])
  BY <1>g, <1>3, UserRequestEffect, WaitForUpdateEffect, BeginCheckEffect, CheckEffect,
     TouchEffect, TouchFailsEffect DEF SameStack
<1>4. ASSUME NEW t \in Stacks, UpdateSucceeds(t) \/ UpdateFails(t)  PROVE Num(stack'[s])
  <2>1. CASE s = t
    BY <1>4, <1>t, <2>1, UpdateEndsEffect
  <2>2. CASE s # t
    BY <1>g, <1>4, <2>2, UpdateEndsEffect
  <2> QED
    BY <2>1, <2>2
<1>5. ASSUME NEW t \in Stacks, KeepSynced(t)  PROVE Num(stack'[s])
  <2>1. CASE s = t
    BY <1>5, <1>t, <2>1, KeepSyncedEffect
  <2>2. CASE s # t
    BY <1>g, <1>5, <2>2, KeepSyncedEffect
  <2> QED
    BY <2>1, <2>2
<1>6. ASSUME NEW t \in Stacks, AwaitPrerequisites(t) \/ BeginUpdate(t)  PROVE Num(stack'[s])
  <2>1. CASE s = t
    <3>1. run[s].pc # "idle" /\ stack'[s].last = run[s].last
      BY <1>6, <2>1, EndEffect
    <3>2. stack'[s].last.n = stack[s].names
      BY <1>t, <3>1 DEF Attended
    <3> QED
      BY <1>6, <1>t, <2>1, <3>2, EndEffect
  <2>2. CASE s # t
    BY <1>g, <1>6, <2>2, EndEffect
  <2> QED
    BY <2>1, <2>2
<1> QED
  BY <1>1, <1>2, <1>3, <1>4, <1>5, <1>6, StepCases

LEMMA TouchingStep ==
    ASSUME TypeOK, Attended, [Next]_vars, ~Tick, NEW q \in Stacks, NEW n \in Nat,
           Touching(stack[q], n)
    PROVE  Touching(stack'[q], n)
<1>n. stack[q].names \in Nat
  BY RunFields
<1>g. ASSUME stack'[q].names = stack[q].names, stack'[q].cur = stack[q].cur
      PROVE  Touching(stack'[q], n)
  BY <1>g DEF Touching
<1>1. CASE Quiet \/ UNCHANGED vars
  BY <1>g, <1>1, QuietEffect DEF SameStack
<1>2. ASSUME NEW t \in Stacks,
             \/ UserRequest(t) \/ WaitForUpdate(t) \/ BeginCheck(t) \/ CheckPrerequisite(t)
             \/ Touch(t) \/ TouchFails(t)
      PROVE  Touching(stack'[q], n)
  BY <1>g, <1>2, UserRequestEffect, WaitForUpdateEffect, BeginCheckEffect, CheckEffect,
     TouchEffect, TouchFailsEffect DEF SameStack
<1>3. ASSUME NEW t \in Stacks, t # q,
             \/ UpdateSucceeds(t) \/ UpdateFails(t) \/ KeepSynced(t)
             \/ AwaitPrerequisites(t) \/ BeginUpdate(t)
      PROVE  Touching(stack'[q], n)
  BY <1>g, <1>3, UpdateEndsEffect, KeepSyncedEffect, EndEffect
<1>4. ASSUME UpdateSucceeds(q) \/ UpdateFails(q)  PROVE Touching(stack'[q], n)
  <2>1. stack[q].cur.age = 1 /\ stack'[q].names = stack[q].names
    BY <1>4, UpdateEndsEffect
  <2> QED
    BY <2>1 DEF Touching
<1>5. ASSUME KeepSynced(q)  PROVE Touching(stack'[q], n)
  <2>1. stack[q].cur.state # "running" /\ stack'[q].names = stack[q].names
    BY <1>5, KeepSyncedEffect
  <2> QED
    BY <2>1 DEF Touching
<1>6. ASSUME AwaitPrerequisites(q) \/ BeginUpdate(q)  PROVE Touching(stack'[q], n)
  <2>1. stack[q].cur.state # "running"
    BY <1>6, EndEffect DEF Attended
  <2>2. stack[q].names <= n + 1
    BY <2>1 DEF Touching
  <2>3. \/ stack'[q].names = stack[q].names
        \/ /\ stack'[q].names = stack[q].names + 1
           /\ stack'[q].cur.state = "running" /\ stack'[q].cur.age = 0
    BY <1>6, EndEffect
  <2> QED
    BY <1>n, <2>2, <2>3 DEF Touching
<1> QED
  BY <1>1, <1>2, <1>3, <1>4, <1>5, <1>6, StepCases

LEMMA LookupsStep ==
    ASSUME TouchInv, TypeOK', Numbered', [Next]_vars
    PROVE  Lookups'
<1> SUFFICES ASSUME NEW p \in Required  PROVE Touching(stack'[p], cache'[p].last.n)
  BY DEF Lookups
<1>p. p \in Stacks /\ TypeOK /\ Attended /\ Lookups
  BY RequiredType DEF TouchInv
<1>1. CASE cache'[p].last = stack'[p].last
  <2>1. stack'[p].last.n \in Nat
    BY <1>p DEF TypeOK, StackType, LastType
  <2>2. stack'[p].names <= stack'[p].last.n + 1
    BY <1>p, <2>1 DEF Numbered
  <2> QED
    BY <1>1, <2>2 DEF Touching
<1>2. CASE ~Tick /\ cache'[p].last = cache[p].last
  <2>1. cache[p].last.n \in Nat
    BY <1>p DEF TypeOK, LookType, LastType
  <2>2. Touching(stack[p], cache[p].last.n)
    BY <1>p DEF Lookups
  <2> QED
    BY <1>p, <1>2, <2>1, <2>2, TouchingStep
<1> QED
  BY <1>p, <1>1, <1>2, CacheEffect

LEMMA TouchesStep ==
    ASSUME TouchInv, TypeOK', [Next]_vars
    PROVE  Touches'
<1> SUFFICES ASSUME NEW s \in Stacks, run'[s].pc = "touch", NEW q \in run'[s].target
             PROVE  Touching(stack'[q], run'[s].n)
  BY DEF Touches
<1>t. TypeOK /\ Attended /\ Touches /\ Lookups /\ q \in Stacks /\ run[s].n \in Nat
  <2>1. run'[s].target \subseteq Required
    BY DEF TypeOK, RunType
  <2> QED
    BY <2>1, RunFields, RequiredType DEF TouchInv
<1> DEFINE Held == run'[s].pc = run[s].pc /\ run'[s].target = run[s].target /\ run'[s].n = run[s].n
<1>1. ~Tick
  BY <1>t, TickEffect
<1>2. CASE Held
  <2>1. Touching(stack[q], run[s].n)
    BY <1>2, <1>t DEF Touches
  <2> QED
    BY <1>t, <1>1, <1>2, <2>1, TouchingStep
<1>3. CASE CheckPrerequisite(s)
  <2>1. run'[s].n = cache[q].last.n /\ q \in Required /\ stack' = stack
    BY <1>3, <1>t, CheckEffect
  <2> QED
    BY <1>t, <2>1 DEF Lookups
<1>4. CASE Quiet \/ UNCHANGED vars
  BY <1>2, <1>4, <1>t, QuietEffect DEF SameRun
<1>5. ASSUME NEW t \in Stacks,
             \/ UserRequest(t) \/ UpdateSucceeds(t) \/ UpdateFails(t)
             \/ WaitForUpdate(t) \/ KeepSynced(t) \/ BeginCheck(t)
             \/ Touch(t) \/ TouchFails(t) \/ AwaitPrerequisites(t) \/ BeginUpdate(t)
      PROVE  Touching(stack'[q], run'[s].n)
  <2>1. ASSUME s = t  PROVE Held
    BY <1>5, <1>t, <2>1, UserRequestEffect, UpdateEndsEffect, WaitForUpdateEffect, KeepSyncedEffect,
       BeginCheckEffect, TouchEffect, TouchFailsEffect, EndEffect DEF SameRun
  <2>2. ASSUME s # t  PROVE Held
    BY <1>5, <1>t, <2>2, UserRequestEffect, UpdateEndsEffect, WaitForUpdateEffect, KeepSyncedEffect,
       BeginCheckEffect, TouchEffect, TouchFailsEffect, EndEffect DEF SameRun
  <2> QED
    BY <1>2, <2>1, <2>2
<1>6. ASSUME NEW t \in Stacks, CheckPrerequisite(t)
      PROVE  Touching(stack'[q], run'[s].n)
  <2>1. CASE s = t
    BY <1>3, <1>6, <2>1
  <2>2. ASSUME s # t  PROVE Held
    BY <1>6, <1>t, <2>2, CheckEffect
  <2> QED
    BY <1>2, <2>1, <2>2
<1> HIDE DEF Held
<1> QED
  BY <1>1, <1>4, <1>5, <1>6, StepCases

LEMMA RequestsStep ==
    ASSUME TouchInv, [Next]_vars
    PROVE  Requests'
<1> SUFFICES ASSUME NEW s \in Stacks  PROVE Asked(stack'[s], run'[s])
  BY DEF Requests
<1>t. /\ TypeOK /\ Attended /\ Numbered /\ Touches /\ Asked(stack[s], run[s])
      /\ stack[s].names \in Nat /\ stack[s].req.n \in Nat /\ NoCurrent.state = "none"
  BY RunFields DEF TouchInv, Requests, NoCurrent
<1>l. ASSUME stack[s].cur.state # "running"  PROVE Absorbed(s).req = LatestReq(stack[s])
  BY DEF Absorbed, LatestReq
<1>g. ASSUME stack'[s].names = stack[s].names, stack'[s].req = stack[s].req,
             LatestReq(stack'[s]) = LatestReq(stack[s]),
             \/ run'[s].pc = "idle" \/ run'[s].req = stack[s].req
             \/ run[s].pc # "idle" /\ run'[s].req = run[s].req
      PROVE  Asked(stack'[s], run'[s])
  BY <1>t, <1>g DEF Asked
<1>1. CASE Quiet \/ UNCHANGED vars
  BY <1>g, <1>1, <1>t, QuietEffect DEF SameStack, SameRun, LatestReq
<1>2. CASE Tick
  BY <1>g, <1>2, <1>t, TickEffect DEF LatestReq
<1>3. ASSUME NEW t \in Stacks, UserRequest(t)  PROVE Asked(stack'[s], run'[s])
  <2>1. CASE stack'[s].req.by = "user"
    BY <2>1 DEF Asked
  <2>2. CASE stack'[s].req = stack[s].req
    BY <1>g, <1>3, <1>t, <2>2, UserRequestEffect DEF SameRun, LatestReq
  <2> QED
    BY <1>3, <1>t, <2>1, <2>2, UserRequestEffect
<1>4. ASSUME NEW t \in Stacks, UpdateSucceeds(t) \/ UpdateFails(t)
      PROVE  Asked(stack'[s], run'[s])
  <2>1. stack'[s].names = stack[s].names /\ stack'[s].req = stack[s].req
    BY <1>4, <1>t, UpdateEndsEffect
  <2>2. LatestReq(stack'[s]) = LatestReq(stack[s])
    BY <1>4, <1>t, UpdateEndsEffect DEF LatestReq
  <2> QED
    BY <1>g, <1>4, <1>t, <2>1, <2>2, UpdateEndsEffect DEF SameRun
<1>5. ASSUME NEW t \in Stacks,
             WaitForUpdate(t) \/ BeginCheck(t) \/ CheckPrerequisite(t) \/ TouchFails(t)
      PROVE  Asked(stack'[s], run'[s])
  <2>1. SameStack(stack'[s], stack[s])
    BY <1>5, <1>t, WaitForUpdateEffect, BeginCheckEffect, CheckEffect, TouchFailsEffect
       DEF SameStack
  <2>2. \/ run'[s].pc = "idle" \/ run'[s].req = stack[s].req
        \/ run[s].pc # "idle" /\ run'[s].req = run[s].req
        \/ SameRun(run'[s], run[s])
    BY <1>5, <1>t, WaitForUpdateEffect, BeginCheckEffect, CheckEffect, TouchFailsEffect
       DEF SameRun
  <2> QED
    BY <1>g, <2>1, <2>2 DEF SameStack, SameRun, LatestReq
<1>6. ASSUME NEW t \in Stacks, KeepSynced(t)  PROVE Asked(stack'[s], run'[s])
  <2>1. CASE s # t
    BY <1>g, <1>6, <1>t, <2>1, KeepSyncedEffect DEF SameRun
  <2>2. CASE s = t
    <3>1. LatestReq(stack'[s]) = LatestReq(stack[s])
      BY <1>6, <1>l, <1>t, <2>2, KeepSyncedEffect DEF LatestReq
    <3> QED
      BY <1>g, <1>6, <1>t, <2>2, <3>1, KeepSyncedEffect
  <2> QED
    BY <2>1, <2>2
<1>7. ASSUME NEW t \in Stacks, AwaitPrerequisites(t) \/ BeginUpdate(t)
      PROVE  Asked(stack'[s], run'[s])
  <2>1. CASE s # t
    BY <1>g, <1>7, <1>t, <2>1, EndEffect DEF SameRun
  <2>2. CASE s = t
    <3>1. /\ run[s].pc # "idle" /\ run'[s].pc = "idle" /\ stack'[s].last = run[s].last
          /\ stack'[s].req = stack[s].req
      BY <1>7, <1>t, <2>2, EndEffect
    <3>2. run[s].last.req = LatestReq(stack[s])
      BY <1>l, <1>t, <3>1 DEF Attended
    <3>3. CASE stack'[s].names = stack[s].names /\ stack'[s].cur = NoCurrent
      BY <1>g, <1>t, <3>1, <3>2, <3>3 DEF LatestReq
    <3>4. CASE /\ stack'[s].names = stack[s].names + 1 /\ stack'[s].cur.state = "running"
               /\ stack'[s].cur.req = run[s].req
      <4>1. LatestReq(stack'[s]) = run[s].req
        BY <3>4 DEF LatestReq
      <4> QED
        BY <1>t, <3>1, <3>4, <4>1 DEF Asked
    <3> QED
      BY <1>7, <1>t, <2>2, <3>3, <3>4, EndEffect
  <2> QED
    BY <2>1, <2>2
<1>8. ASSUME NEW t \in Stacks, Touch(t)  PROVE Asked(stack'[s], run'[s])
  <2>1. /\ stack'[s].names = stack[s].names /\ LatestReq(stack'[s]) = LatestReq(stack[s])
        /\ run[t].pc = "touch" /\ run'[s].req = run[s].req
        /\ run'[s].pc # "idle" => run[s].pc # "idle"
    BY <1>8, <1>t, TouchEffect DEF SameRun, LatestReq
  <2>2. CASE stack'[s].req = stack[s].req
    BY <1>g, <2>1, <2>2
  <2>3. CASE s \in run[t].target /\ stack'[s].req = After(run[t].n)
    <3>1. Touching(stack[s], run[t].n) /\ stack'[s].req.n = run[t].n /\ run[t].n \in Nat
      BY <1>t, <2>1, <2>3, RunFields DEF Touches, After
    <3>2. CASE stack[s].names <= run[t].n + 1
      BY <2>1, <3>1, <3>2 DEF Asked
    <3>3. CASE stack[s].names = run[t].n + 2 /\ stack[s].cur.state = "running"
      <4>1. run[s].pc = "idle"
        BY <1>t, <3>3 DEF Attended
      <4> QED
        BY <1>t, <2>1, <3>1, <3>3, <4>1 DEF Asked
    <3> QED
      BY <3>1, <3>2, <3>3 DEF Touching
  <2> QED
    BY <1>8, <1>t, <2>2, <2>3, TouchEffect
<1> QED
  BY <1>1, <1>2, <1>3, <1>4, <1>5, <1>6, <1>7, <1>8, StepCases

LEMMA ReadsStep ==
    ASSUME TouchInv, [Next]_vars
    PROVE  Reads'
<1> SUFFICES ASSUME NEW s \in Stacks, run'[s].pc # "idle", run'[s].req.by = "after",
                    run'[s].req # run'[s].last.req
             PROVE  run'[s].last.n <= run'[s].req.n + 2
  BY DEF Reads
<1>t. TypeOK /\ Attended /\ Numbered /\ Requests /\ Reads
  BY DEF TouchInv
<1>1. CASE run[s].pc # "idle" /\ run'[s].req = run[s].req /\ run'[s].last = run[s].last
  BY <1>t, <1>1 DEF Reads
<1>2. CASE BeginCheck(s)
  <2>1. /\ run[s].pc = "idle" /\ stack[s].cur.state # "running"
        /\ run'[s].req = stack[s].req /\ run'[s].last = Absorbed(s)
    BY <1>2, <1>t, BeginCheckEffect
  <2>2. Absorbed(s).n = stack[s].names /\ Absorbed(s).req = LatestReq(stack[s])
    BY <1>t, <2>1 DEF Absorbed, LatestReq, Numbered
  <2>3. stack[s].names \in Nat /\ stack[s].req.n \in Nat /\ Asked(stack[s], run[s])
    BY <1>t, RunFields DEF Requests
  <2> QED
    BY <2>1, <2>2, <2>3 DEF Asked
<1>3. ASSUME ~BeginCheck(s)
      PROVE  run[s].pc # "idle" /\ run'[s].req = run[s].req /\ run'[s].last = run[s].last
  <2>1. CASE Quiet \/ UNCHANGED vars \/ Tick
    BY <1>t, <2>1, QuietEffect, TickEffect DEF SameRun
  <2>2. ASSUME NEW t \in Stacks,
               \/ UserRequest(t) \/ UpdateSucceeds(t) \/ UpdateFails(t)
               \/ WaitForUpdate(t) \/ KeepSynced(t) \/ CheckPrerequisite(t)
               \/ Touch(t) \/ TouchFails(t) \/ AwaitPrerequisites(t) \/ BeginUpdate(t)
        PROVE  run[s].pc # "idle" /\ run'[s].req = run[s].req /\ run'[s].last = run[s].last
    <3>1. CASE SameRun(run'[s], run[s]) \/ run'[s] = run[s]
      BY <3>1 DEF SameRun
    <3>2. CASE s = t
      BY <1>t, <2>2, <3>2, UserRequestEffect, UpdateEndsEffect, WaitForUpdateEffect,
         KeepSyncedEffect, CheckEffect, TouchEffect, TouchFailsEffect, EndEffect DEF SameRun
    <3>3. CASE s # t
      BY <1>t, <2>2, <3>1, <3>3, UserRequestEffect, UpdateEndsEffect, WaitForUpdateEffect,
         KeepSyncedEffect, CheckEffect, TouchEffect, TouchFailsEffect, EndEffect
    <3> QED
      BY <3>2, <3>3
  <2>3. ASSUME NEW t \in Stacks, BeginCheck(t)
        PROVE  run[s].pc # "idle" /\ run'[s].req = run[s].req /\ run'[s].last = run[s].last
    <3>1. run'[s] = run[s]
      BY <1>3, <1>t, <2>3, BeginCheckEffect
    <3> QED
      BY <3>1
  <2> QED
    BY <2>1, <2>2, <2>3, StepCases
<1> QED
  BY <1>1, <1>2, <1>3

\* However many Stacks share a prerequisite, and whatever their durations, a touch does
\* not make it run over and over: the annotation "after-n" that starts an update names a
\* run not older than the three latest, because time does not pass from the moment at
\* which the cached LastUpdate.Name was the latest until the patch of the annotation.
THEOREM TouchesDoNotThrash == Spec => NoThrashing
<1>1. Init => TouchInv
  BY TypeInit, InitFields, InitCache
     DEF TouchInv, Attended, Numbered, Touches, Lookups, Touching, Requests, Asked, Reads
<1>2. TouchInv /\ [Next]_vars => TouchInv'
  <2> SUFFICES ASSUME TouchInv, [Next]_vars PROVE TouchInv'
    OBVIOUS
  <2>1. TypeOK' /\ Attended' /\ Numbered'
    BY TypeStep, AttendedStep, NumberedStep DEF TouchInv
  <2> QED
    BY <2>1, TouchesStep, LookupsStep, RequestsStep, ReadsStep DEF TouchInv
<1>3. TouchInv /\ [Next]_vars =>
          [\A p \in Stacks :
             LET cur == stack'[p].cur  last == stack'[p].last
             IN Starts(p) /\ cur.req.by = "after" /\ cur.req # last.req
                    => cur.req.n + 2 >= last.n]_vars
  <2> SUFFICES ASSUME TouchInv, [Next]_vars, NEW p \in Stacks, Starts(p),
                      stack'[p].cur.req.by = "after", stack'[p].cur.req # stack'[p].last.req
               PROVE  stack'[p].cur.req.n + 2 >= stack'[p].last.n
    OBVIOUS
  <2>1. run[p].pc # "idle" /\ stack'[p].last = run[p].last /\ stack'[p].cur.req = run[p].req
    BY StartsUpdate DEF TouchInv
  <2>2. run[p].last.n \in Nat /\ run[p].req.n \in Nat /\ run[p].last.n <= run[p].req.n + 2
    BY <2>1, RunFields DEF TouchInv, Reads
  <2> QED
    BY <2>1, <2>2
<1> QED
  BY <1>1, <1>2, <1>3, PTL DEF Spec, NoThrashing

=============================================================================
