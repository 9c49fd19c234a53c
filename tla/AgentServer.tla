------------------------------ MODULE AgentServer ------------------------------
(***************************************************************************)
(* The agent in a workspace pod: the automation service of                 *)
(* agent/pkg/server/server.go, its gRPC server (grpc.go), the diagnostics  *)
(* of a failed operation (diagnostics.go) and the serve command            *)
(* (agent/cmd/serve.go).                                                   *)
(*                                                                         *)
(* A client is a reconcile of the Workspace or of the Update controller:   *)
(* it selects a stack and then calls a method, which works on whatever     *)
(* stack is selected by then.  A call is served by a goroutine of its own; *)
(* an operation has a second one that forwards the engine's events.  One   *)
(* action is a stretch of one goroutine between two commands, channel      *)
(* operations or lock operations.                                          *)
(***************************************************************************)
EXTENDS Naturals, FiniteSets

CONSTANTS
    Initializers,    \* reconciles of the Workspace controller
    Updates,         \* reconciles of the Update controller
    Stacks,
    None,
    Existing,        \* the stacks that the backend has when the pod starts
    Named,           \* the stacks that Updates name
    WorkspaceStack,  \* the one in the spec of the Workspace
    InitialStack,    \* the --stack flag of the serve command, or None
    MaxDiagnostics,  \* how many diagnostics a failure message holds
    MaxEvents,       \* bound: engine events, of all operations together
    MaxRounds,       \* bound: SelectStack requests of a client
    MaxStarts        \* bound: starts of the process

Clients == Initializers \cup Updates

ASSUME ConstantAssumption ==
    /\ None \notin Stacks /\ None \notin Clients
    /\ Initializers \cap Updates = {}
    /\ WorkspaceStack \in Named /\ Named \subseteq Stacks /\ Existing \subseteq Stacks
    /\ InitialStack \in Stacks \cup {None}
    /\ MaxDiagnostics \in Nat /\ MaxEvents \in Nat
    /\ MaxRounds \in Nat /\ MaxStarts \in Nat

VARIABLES
    phase,     \* of the process: "down", "serving", "draining" or "stopped"
    starts,    \* how often it was started
    exists,    \* the stacks that the Pulumi backend has
    selected,  \* the stack that the Pulumi CLI has selected in the workspace
    stack,     \* Server.stack
    stackLock, \* the client whose call holds it, or None
    target,    \* the stack that each client names
    client,    \* where each client is, and its rounds so far
    call,      \* the handler of its call
    stream,    \* the event stream of its operation
    events,    \* how many engine events there were
    reply,     \* the failure message that the client's last call ended with
    taken      \* history: the clients whose selection another one changed since

procVars  == <<phase, starts>>
stackVars == <<exists, selected, stack, stackLock, taken>>
callVars  == <<client, call, reply>>
vars == <<procVars, stackVars, target, callVars, stream, events>>

\* Preview and Refresh are served just as Up is, which stands for all three.
Operations == {"up", "destroy"}
\* Info, which no reconcile calls, uses the stack in the same way.
Unary      == {"SetAllConfig", "AddEnvironments"}

\* What a client is up to after a method that succeeded: a stack is selected,
\* then configured, then environments are added to it.
Stages == {"new", "selected", "configured"}
After(method) ==
    IF method = "SelectStack" THEN "selected"
    ELSE IF method = "SetAllConfig" THEN "configured" ELSE "new"

\* boundedLines: how many lines are held and how many were left out.
NoLines == [lines |-> 0, omitted |-> 0]
Lines   == [lines : Nat, omitted : Nat]

\* The diagnostics by severity, and an error that is too long for the message.
\* Other events leave no trace.
Events == {"error", "long error", "info#err"}

NoCall == [pc |-> "idle", method |-> "none", create |-> FALSE, remove |-> FALSE,
           local |-> None, interrupted |-> FALSE, live |-> TRUE]
Calls == [pc : {"idle", "select", "selectNew", "cache", "ensure", "reselect", "act",
                "run", "drain", "clear", "result"},
          method : {"none", "SelectStack"} \cup Unary \cup Operations,
          create : BOOLEAN, remove : BOOLEAN, local : Stacks \cup {None},
          interrupted : BOOLEAN, live : BOOLEAN]

\* The channels of an operation, its forwarding goroutine with the event in
\* its hands, the diagnostics it observed, and (history) those the engine sent.
NoStream == [closed |-> FALSE, stop |-> FALSE, forwarder |-> "none", event |-> "none",
             errs |-> NoLines, stderr |-> NoLines, sent |-> FALSE,
             sentErrs |-> 0, sentStderr |-> 0]
Streams == [closed : BOOLEAN, stop : BOOLEAN,
            forwarder : {"none", "waiting", "holding", "done"},
            event : {"none"} \cup Events, errs : Lines, stderr : Lines,
            sent : BOOLEAN, sentErrs : Nat, sentStderr : Nat]

Messages == [failed : BOOLEAN,
            about : {"none", "errs", "stderr"}, shown : Nat, omitted : Nat]
NoMessage == [failed |-> FALSE, about |-> "none", shown |-> 0, omitted |-> 0]

\* Every variable keeps its type: a selected or cached stack is one of the stacks or
\* None, and every handler and forwarder is at one of its steps.
TypeOK ==
    /\ phase \in {"down", "serving", "draining", "stopped"}
    /\ starts \in Nat
    /\ exists \subseteq Stacks
    /\ selected \in Stacks \cup {None}
    /\ stack \in Stacks \cup {None}
    /\ stackLock \in Clients \cup {None}
    /\ target \in [Clients -> Stacks]
    /\ client \in [Clients -> [at : Stages, rounds : Nat]]
    /\ call \in [Clients -> Calls]
    /\ stream \in [Clients -> Streams]
    /\ events \in Nat
    /\ reply \in [Clients -> Messages]
    /\ taken \subseteq Clients

Init ==
    /\ phase = "down" /\ starts = 0
    /\ exists = Existing
    /\ selected = None /\ stack = None /\ stackLock = None
    /\ target \in [Clients -> Named]
    /\ \A w \in Initializers : target[w] = WorkspaceStack
    /\ client = [c \in Clients |-> [at |-> "new", rounds |-> 0]]
    /\ call = [c \in Clients |-> NoCall]
    /\ stream = [c \in Clients |-> NoStream] /\ events = 0
    /\ reply = [c \in Clients |-> NoMessage]
    /\ taken = {}

-----------------------------------------------------------------------------
(* The process.                                                            *)

\* serve: NewServer selects (or creates) the stack of the --stack flag.
Start ==
    /\ phase = "down" /\ starts < MaxStarts
    /\ phase' = "serving" /\ starts' = starts + 1
    /\ stack' = InitialStack
    /\ IF InitialStack = None
         THEN UNCHANGED <<exists, selected>>
         ELSE exists' = exists \cup {InitialStack} /\ selected' = InitialStack
    /\ UNCHANGED <<stackLock, taken, target, events, callVars, stream>>

\* NewServer fails and the process exits, for the kubelet to start it again.
StartFails ==
    /\ phase = "down" /\ starts < MaxStarts
    /\ starts' = starts + 1
    /\ UNCHANGED <<phase, stackVars, target, events, callVars, stream>>

\* The first signal: Cancel interrupts the CLI processes there are, and
\* GracefulStop refuses new calls.
Cancel ==
    /\ phase = "serving"
    /\ phase' = "draining"
    /\ call' = [c \in Clients |->
                 [call[c] EXCEPT !.interrupted = @ \/ call[c].pc = "run"]]
    /\ UNCHANGED <<starts, stackVars, target, events, client, reply, stream>>

\* GracefulStop returns when no call is left.
GracefulStop ==
    /\ phase = "draining"
    /\ \A c \in Clients : call[c].pc = "idle"
    /\ phase' = "stopped"
    /\ UNCHANGED <<starts, stackVars, target, events, callVars, stream>>

\* The second signal, or the end of the pod's grace period: every call is lost.
Kill ==
    /\ phase \in {"serving", "draining"}
    /\ phase' = "stopped"
    /\ call' = [c \in Clients |-> NoCall]
    /\ stream' = [c \in Clients |-> [stream[c] EXCEPT !.forwarder = "none"]]
    /\ reply' = [c \in Clients |-> IF call[c].pc = "idle" THEN reply[c] ELSE NoMessage]
    /\ client' = [c \in Clients |->
                   IF call[c].pc = "idle" THEN client[c] ELSE [client[c] EXCEPT !.at = "new"]]
    /\ stackLock' = None
    /\ UNCHANGED <<starts, exists, selected, stack, taken, target, events>>

\* The kubelet starts the container again; what the CLI selected is kept in
\* the workspace directory.
Restart ==
    /\ phase = "stopped"
    /\ phase' = "down"
    /\ UNCHANGED <<starts, stackVars, target, events, callVars, stream>>

-----------------------------------------------------------------------------
(* Calls.                                                                  *)

\* The handler of c returns, with message m.
ReturnWith(c, ok, m) ==
    /\ reply' = [reply EXCEPT ![c] = m]
    /\ call' = [call EXCEPT ![c] = NoCall]
    /\ client' = [client EXCEPT ![c].at = IF ok THEN After(call[c].method) ELSE "new"]
Return(c, ok) == ReturnWith(c, ok, NoMessage)

Goto(c, pc) ==
    /\ call' = [call EXCEPT ![c].pc = pc]
    /\ UNCHANGED <<client, reply>>

\* SelectStack, and then what it is for: the methods that configure the stack
\* or the operation of an Update, which always lets SelectStack create it.
Request(c) ==
    /\ phase = "serving" /\ call[c].pc = "idle"
    /\ \/ /\ client[c].rounds < MaxRounds
          /\ client' = [client EXCEPT ![c].rounds = @ + 1]
          /\ \E create \in IF c \in Updates THEN {TRUE} ELSE BOOLEAN :
               call' = [call EXCEPT ![c] = [NoCall EXCEPT !.pc = "select",
                                             !.method = "SelectStack", !.create = create]]
       \/ /\ client[c].at # "new"
          /\ \E m \in IF c \in Updates THEN Operations ELSE Unary, remove \in BOOLEAN :
               /\ remove => m = "destroy"
               /\ client[c].at = "configured" => m = "AddEnvironments"
               /\ call' = [call EXCEPT ![c] = [NoCall EXCEPT !.pc = "ensure",
                                                !.method = m, !.remove = remove]]
          /\ UNCHANGED client
    /\ reply' = [reply EXCEPT ![c] = NoMessage]
    /\ stream' = [stream EXCEPT ![c] = NoStream]
    /\ UNCHANGED <<procVars, stackVars, target, events>>

\* The client goes away (an operator restart, a closed connection): the
\* context of the call is cancelled, and its handler is left to finish.
Disconnect(c) ==
    /\ call[c].pc # "idle" /\ call[c].live
    /\ call' = [call EXCEPT ![c].live = FALSE]
    /\ UNCHANGED <<procVars, stackVars, target, events, client, reply, stream>>

\* A call of c makes the CLI select s: not what some of the other clients selected.
Select(c, s) ==
    /\ selected' = s
    /\ taken' = (taken \cup {d \in Clients \ {c} : target[d] # s}) \ (IF target[c] = s THEN {c} ELSE {})

\* SelectStack, first part: `pulumi stack select', without the lock.  A stack
\* that is missing is created by initStack, which then selects it.
SelectByCli(c) ==
    /\ call[c].pc \in {"select", "selectNew"}
    /\ \/ /\ target[c] \in exists
          /\ Select(c, target[c])
          /\ Goto(c, "cache")
          /\ UNCHANGED exists
       \/ /\ call[c].pc = "select" /\ target[c] \notin exists /\ call[c].create
          /\ exists' = exists \cup {target[c]}
          /\ Select(c, target[c])
          /\ Goto(c, "selectNew")
       \/ /\ call[c].pc = "select" => ~call[c].create
          /\ target[c] \notin exists
          /\ Return(c, FALSE)
          /\ UNCHANGED <<exists, selected, taken>>
    /\ UNCHANGED <<procVars, stack, stackLock, target, events, stream>>

\* SelectStack, second part: the cached stack and its summary, under the lock.
CacheStack(c) ==
    /\ call[c].pc = "cache" /\ stackLock = None
    /\ stack' = target[c]
    /\ \E ok \in BOOLEAN :
         Return(c, ok /\ call[c].live)
    /\ UNCHANGED <<procVars, exists, selected, stackLock, taken, target, events, stream>>

\* Mutant: the cached stack is used without asking the CLI.
EnsureStackFromCache(c) ==
    /\ call[c].pc = "ensure" /\ stackLock = None
    /\ IF stack = None
         THEN Return(c, FALSE)
         ELSE /\ call' = [call EXCEPT ![c].pc = "act", ![c].local = stack]
              /\ UNCHANGED <<client, reply>>
    /\ UNCHANGED <<procVars, stackVars, target, events, stream>>

\* ensureStack: the lock is taken, and the CLI asked which stack is selected.
EnsureStack(c) ==
    /\ call[c].pc = "ensure" /\ stackLock = None
    /\ IF selected = None
         THEN Return(c, FALSE) /\ UNCHANGED stackLock
         ELSE /\ UNCHANGED <<client, reply>>
              /\ IF stack = selected
                   THEN /\ call' = [call EXCEPT ![c].pc = "act", ![c].local = selected]
                        /\ UNCHANGED stackLock
                   ELSE /\ call' = [call EXCEPT ![c].pc = "reselect", ![c].local = selected]
                        /\ stackLock' = c
    /\ UNCHANGED <<procVars, exists, selected, stack, taken, target, events, stream>>

\* ensureStack, when the cached stack is another one: the one that was read is
\* selected once more.  The cache is left alone.
Reselect(c) ==
    /\ call[c].pc = "reselect"
    /\ stackLock' = None
    /\ IF call[c].local \in exists
         THEN Select(c, call[c].local) /\ Goto(c, "act")
         ELSE Return(c, FALSE) /\ UNCHANGED <<selected, taken>>
    /\ UNCHANGED <<procVars, exists, stack, target, events, stream>>

\* Any CLI command of a handler that runs outside an operation may fail.
CommandFails(c) ==
    /\ call[c].pc \in {"select", "selectNew", "ensure", "reselect"}
    /\ call[c].pc = "ensure" => stackLock = None
    /\ stackLock' = IF stackLock = c THEN None ELSE stackLock
    /\ Return(c, FALSE)
    /\ UNCHANGED <<procVars, exists, selected, stack, taken, target, events, stream>>

\* SetAllConfig and AddEnvironments on the stack of ensureStack.
Method(c) ==
    /\ call[c].pc = "act" /\ call[c].method \in Unary
    /\ \E ok \in BOOLEAN : Return(c, ok)
    /\ UNCHANGED <<procVars, stackVars, target, events, stream>>

-----------------------------------------------------------------------------
(* Operations.                                                             *)

\* The channels are made, the forwarder started and the CLI run.
StartOperation(c) ==
    /\ call[c].pc = "act" /\ call[c].method \in Operations
    /\ stream' = [stream EXCEPT ![c] = [NoStream EXCEPT !.forwarder = "waiting"]]
    /\ Goto(c, "run")
    /\ UNCHANGED <<procVars, stackVars, target, events>>

\* The engine hands an event to the forwarder: the channel has no buffer.
EngineEvent(c) ==
    /\ call[c].pc = "run" /\ stream[c].forwarder = "waiting" /\ events < MaxEvents
    /\ events' = events + 1
    /\ \E e \in Events :
         stream' = [stream EXCEPT ![c].forwarder = "holding", ![c].event = e, ![c].sent = TRUE,
                     ![c].sentErrs = IF e \in {"error", "long error"} THEN @ + 1 ELSE @,
                     ![c].sentStderr = IF e = "info#err" THEN @ + 1 ELSE @]
    /\ UNCHANGED <<procVars, stackVars, target, callVars>>

\* boundedLines.add.
AddLine(b, long) ==
    IF b.lines >= MaxDiagnostics \/ long
      THEN [b EXCEPT !.omitted = @ + 1]
      ELSE [b EXCEPT !.lines = @ + 1]

\* errorDiagnostics.observe.
Observe(s) ==
    IF s.event \in {"error", "long error"}
      THEN [s EXCEPT !.errs = AddLine(@, s.event = "long error")]
      ELSE [s EXCEPT !.stderr = AddLine(@, FALSE)]

\* The forwarder observes the event and sends it; a Send that fails is logged.
Forward(c) ==
    /\ stream[c].forwarder = "holding"
    /\ stream' = [stream EXCEPT ![c] =
                   [Observe(stream[c]) EXCEPT !.forwarder = "waiting", !.event = "none"]]
    /\ UNCHANGED <<procVars, stackVars, target, events, callVars>>

\* Mutant: the forwarder waits for the event channel alone.
ForwarderAwaitsClose(c) ==
    /\ stream[c].forwarder = "waiting" /\ stream[c].closed
    /\ stream' = [stream EXCEPT ![c].forwarder = "done"]
    /\ UNCHANGED <<procVars, stackVars, target, events, callVars>>

\* The forwarder finds the stop channel or the event channel closed.
ForwarderStops(c) ==
    /\ stream[c].forwarder = "waiting"
    /\ stream[c].stop \/ stream[c].closed
    /\ stream' = [stream EXCEPT ![c].forwarder = "done"]
    /\ UNCHANGED <<procVars, stackVars, target, events, callVars>>

\* Mutant: the stop channel is left open.
OperationFailsUnstopped(c) ==
    /\ call[c].pc = "run"
    /\ \E ran \in BOOLEAN :
         /\ stream[c].sent => ran
         /\ stream' = [stream EXCEPT ![c].closed = ran]
    /\ Goto(c, "drain")
    /\ UNCHANGED <<procVars, stackVars, target, events>>

\* The operation fails: stop is closed and the forwarder waited for.  The
\* event channel is closed if the CLI ran, and only after its last event was
\* taken; it stays open if the CLI could not be run.
OperationFails(c) ==
    /\ call[c].pc = "run"
    /\ \E ran \in BOOLEAN :
         /\ stream[c].sent => ran
         /\ stream' = [stream EXCEPT ![c].closed = ran, ![c].stop = TRUE]
    /\ Goto(c, "drain")
    /\ UNCHANGED <<procVars, stackVars, target, events>>

\* errorDiagnostics.failureMessage.
FailureMessage(s) ==
    LET reported == IF s.errs = NoLines THEN s.stderr ELSE s.errs
    IN  [failed  |-> TRUE,
         about   |-> IF s.errs # NoLines THEN "errs"
                     ELSE IF s.stderr # NoLines THEN "stderr" ELSE "none",
         shown   |-> reported.lines,
         omitted |-> reported.omitted]

\* Mutant: the message is made without waiting for the forwarder.
ReturnFailureAtOnce(c) ==
    /\ call[c].pc = "drain"
    /\ ReturnWith(c, FALSE, FailureMessage(stream[c]))
    /\ UNCHANGED <<procVars, stackVars, target, events, stream>>

ReturnFailure(c) ==
    /\ call[c].pc = "drain" /\ stream[c].forwarder = "done"
    /\ ReturnWith(c, FALSE, FailureMessage(stream[c]))
    /\ UNCHANGED <<procVars, stackVars, target, events, stream>>

\* The operation succeeds: not when it was interrupted or its client is gone.
\* A destroy with the remove option also removes the stack.  What was observed
\* is of no more use.
OperationSucceeds(c) ==
    /\ call[c].pc = "run" /\ ~call[c].interrupted /\ call[c].live
    /\ stream' = [stream EXCEPT ![c] = [NoStream EXCEPT !.closed = TRUE, !.event = stream[c].event,
                     !.forwarder = stream[c].forwarder]]
    /\ IF call[c].remove
         THEN /\ exists' = exists \ {call[c].local}
              /\ selected' = IF selected = call[c].local THEN None ELSE selected
              /\ \/ Goto(c, "clear")
                 \/ Goto(c, "result")
         ELSE Goto(c, "result") /\ UNCHANGED <<exists, selected>>
    /\ UNCHANGED <<procVars, stack, stackLock, taken, target, events>>

\* Mutant: the stack is emptied where the pointer should be cleared.
EmptyStack(c) ==
    /\ call[c].pc = "clear" /\ stackLock = None
    /\ stack' = "empty"
    /\ Goto(c, "result")
    /\ UNCHANGED <<procVars, exists, selected, stackLock, taken, target, events, stream>>

\* clearStack, after a destroy that removed its stack.
ClearStack(c) ==
    /\ call[c].pc = "clear" /\ stackLock = None
    /\ stack' = None
    /\ Goto(c, "result")
    /\ UNCHANGED <<procVars, exists, selected, stackLock, taken, target, events, stream>>

\* The result is sent, without waiting for the forwarder.  The outputs or the
\* permalink may be unreadable, and the Send fails when the client is gone.
SendResult(c) ==
    /\ call[c].pc = "result"
    /\ \E ok \in BOOLEAN :
         Return(c, ok /\ call[c].live)
    /\ UNCHANGED <<procVars, stackVars, target, events, stream>>

\* The streaming methods.
Operation(c) ==
    \/ StartOperation(c) \/ OperationFails(c) \/ ReturnFailure(c)
    \/ OperationSucceeds(c) \/ SendResult(c)
Up(c)      == call[c].method = "up" /\ Operation(c)
Destroy(c) == call[c].method = "destroy" /\ (Operation(c) \/ ClearStack(c))

SelectStack(c) == SelectByCli(c) \/ CacheStack(c)

Serve(c) ==
    \/ SelectStack(c) \/ EnsureStack(c) \/ Reselect(c) \/ CommandFails(c) \/ Method(c)
    \/ Up(c) \/ Destroy(c)
Goroutine(c) == Forward(c) \/ ForwarderStops(c)

Next ==
    \/ Start \/ StartFails \/ Cancel \/ GracefulStop \/ Kill \/ Restart
    \/ \E c \in Clients :
         Request(c) \/ Disconnect(c) \/ EngineEvent(c) \/ Serve(c) \/ Goroutine(c)

Spec == Init /\ [][Next]_vars

\* Goroutines are scheduled, CLI commands end, and GracefulStop is waiting.
LiveSpec ==
    /\ Spec
    /\ \A c \in Clients : WF_vars(Serve(c)) /\ WF_vars(Goroutine(c))
    /\ WF_vars(GracefulStop)

-----------------------------------------------------------------------------
(* Properties.                                                             *)

(* An operation or a change of configuration is made to the stack that its  *)
(* client named in SelectStack, unless a call of another client made the    *)
(* CLI select another one in between: a stack that is cached, reselected    *)
(* or removed leads nobody elsewhere (server.go: SelectStack, ensureStack,  *)
(* clearStack).                                                             *)
OwnStackUnlessTaken ==
    \A c \in Clients : call[c].pc \in {"act", "run"} => call[c].local = target[c] \/ c \in taken

(* The message of a failed operation accounts for every error diagnostic    *)
(* the engine sent, or without one for every line of stderr: shown, at most *)
(* MaxDiagnostics of them, or counted as omitted (server.go: the forwarding *)
(* goroutine and the error path; diagnostics.go).                           *)
FailureReported ==
    \A c \in Clients : reply[c].failed =>
        LET s == stream[c] IN
        /\ reply[c].shown <= MaxDiagnostics
        /\ IF s.sentErrs > 0
             THEN reply[c].about = "errs" /\ reply[c].shown + reply[c].omitted = s.sentErrs
             ELSE /\ reply[c].shown + reply[c].omitted = s.sentStderr
                  /\ reply[c].about = IF s.sentStderr > 0 THEN "stderr" ELSE "none"

(* Every call is answered, also when the CLI could not be run at all and    *)
(* nobody closes the event channel (server.go: close(stop), <-drained).     *)
HandlersReturn == \A c \in Clients : call[c].pc # "idle" ~> call[c].pc = "idle"

(* A server that was told to stop, stops (grpc.go: Serve).                  *)
ServerStops == phase = "draining" ~> phase = "stopped"

=============================================================================
