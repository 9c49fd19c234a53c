-------------------------- MODULE AgentServer_proofs --------------------------
(***************************************************************************)
(* Proofs about the agent's automation service, for any number of clients, *)
(* stacks, engine events and restarts.                                     *)
(***************************************************************************)
EXTENDS AgentServer, TLAPS

-----------------------------------------------------------------------------
(* Type correctness.                                                       *)

ClientType == [at : Stages, rounds : Nat]

LEMMA Initial ==
    /\ NoCall \in Calls /\ NoStream \in Streams /\ NoMessage \in Messages /\ NoLines \in Lines
    /\ Named \subseteq Stacks
<1>1. NoLines \in Lines
  BY DEF NoLines, Lines
<1> QED
  BY <1>1, ConstantAssumption DEF NoCall, Calls, NoStream, Streams, NoMessage, Messages

LEMMA InitType == Init => TypeOK
<1> SUFFICES ASSUME Init PROVE TypeOK
  OBVIOUS
<1>1. client \in [Clients -> ClientType]
  BY DEF Init, ClientType, Stages
<1>2. target \in [Clients -> Stacks]
  BY Initial DEF Init
<1> QED
  BY <1>1, <1>2, Initial, ConstantAssumption DEF Init, TypeOK, ClientType

\* Steps that change the call of one client.
LEMMA CallChange ==
    ASSUME TypeOK, NEW c \in Clients, NEW k \in Calls, call' = [call EXCEPT ![c] = k]
    PROVE  call' \in [Clients -> Calls]
BY DEF TypeOK

LEMMA StreamChange ==
    ASSUME TypeOK, NEW c \in Clients, NEW k \in Streams, stream' = [stream EXCEPT ![c] = k]
    PROVE  stream' \in [Clients -> Streams]
BY DEF TypeOK

LEMMA Fields ==
    /\ \A k \in Calls :
         \A pc \in {"selectNew", "cache", "act", "run", "drain", "clear", "result"} :
            [k EXCEPT !.pc = pc] \in Calls
    /\ \A k \in Calls, b \in BOOLEAN : [k EXCEPT !.interrupted = b] \in Calls
    /\ \A k \in Calls : [k EXCEPT !.live = FALSE] \in Calls
    /\ \A k \in Streams : [k EXCEPT !.forwarder = "none"] \in Streams
    /\ \A k \in Streams : [k EXCEPT !.forwarder = "done"] \in Streams
<1>1. ASSUME NEW k \in Calls, NEW pc \in {"selectNew", "cache", "act", "run", "drain", "clear", "result"}
      PROVE  [k EXCEPT !.pc = pc] \in Calls
  BY DEF Calls
<1>2. ASSUME NEW k \in Calls, NEW b \in BOOLEAN PROVE [k EXCEPT !.interrupted = b] \in Calls
  BY DEF Calls
<1>3. ASSUME NEW k \in Calls PROVE [k EXCEPT !.live = FALSE] \in Calls
  BY DEF Calls
<1>4. ASSUME NEW k \in Streams PROVE [k EXCEPT !.forwarder = "none"] \in Streams
  BY DEF Streams
<1>5. ASSUME NEW k \in Streams PROVE [k EXCEPT !.forwarder = "done"] \in Streams
  BY DEF Streams
<1> QED
  BY <1>1, <1>2, <1>3, <1>4, <1>5

LEMMA ReturnType ==
    ASSUME TypeOK, NEW c \in Clients, NEW ok, NEW m \in Messages, ReturnWith(c, ok, m)
    PROVE  /\ call' \in [Clients -> Calls] /\ client' \in [Clients -> ClientType]
           /\ reply' \in [Clients -> Messages]
<1>1. call' \in [Clients -> Calls]
  BY Initial, CallChange DEF ReturnWith
<1>2. reply' \in [Clients -> Messages]
  BY DEF ReturnWith, TypeOK
<1>3. client' \in [Clients -> ClientType]
  <2>1. \E at \in Stages : client' = [client EXCEPT ![c].at = at]
    BY DEF ReturnWith, After, Stages
  <2> QED
    BY <2>1 DEF TypeOK, ClientType
<1> QED
  BY <1>1, <1>2, <1>3

LEMMA PlainReturnType ==
    ASSUME TypeOK, NEW c \in Clients, NEW ok, Return(c, ok)
    PROVE  /\ call' \in [Clients -> Calls] /\ client' \in [Clients -> ClientType]
           /\ reply' \in [Clients -> Messages]
BY ReturnType, Initial DEF Return

LEMMA GotoType ==
    ASSUME TypeOK, NEW c \in Clients,
           NEW pc \in {"selectNew", "cache", "act", "run", "drain", "clear", "result"}, Goto(c, pc)
    PROVE  /\ call' \in [Clients -> Calls] /\ client' \in [Clients -> ClientType]
           /\ reply' \in [Clients -> Messages]
<1>1. call' \in [Clients -> Calls]
  BY Fields DEF Goto, TypeOK
<1> QED
  BY <1>1 DEF Goto, TypeOK, ClientType

LEMMA LocalType ==
    ASSUME TypeOK, NEW c \in Clients, NEW pc \in {"act", "reselect"}, NEW s \in Stacks,
           call' = [call EXCEPT ![c].pc = pc, ![c].local = s]
    PROVE  call' \in [Clients -> Calls]
<1> DEFINE k == [call[c] EXCEPT !.pc = pc, !.local = s]
<1>1. k \in Calls
  BY ZenonT(30) DEF TypeOK, Calls
<1>2. call' = [call EXCEPT ![c] = k]
  BY DEF TypeOK, Calls
<1> QED
  BY <1>1, <1>2, CallChange

LEMMA SelectType ==
    ASSUME TypeOK, NEW c \in Clients, NEW s \in Stacks, Select(c, s)
    PROVE  selected' \in Stacks \cup {None} /\ taken' \subseteq Clients
BY DEF Select, TypeOK

LEMMA ObserveType ==
    ASSUME NEW s \in Streams PROVE Observe(s) \in Streams
<1>1. \A b \in Lines : \A long : AddLine(b, long) \in Lines
  BY DEF AddLine, Lines
<1>2. AddLine(s.errs, s.event = "long error") \in Lines /\ AddLine(s.stderr, FALSE) \in Lines
  BY <1>1 DEF Streams
<1>3. \A l \in Lines : [s EXCEPT !.errs = l] \in Streams /\ [s EXCEPT !.stderr = l] \in Streams
  BY DEF Streams
<1> QED
  BY <1>2, <1>3 DEF Observe

LEMMA MessageType ==
    ASSUME NEW s \in Streams PROVE FailureMessage(s) \in Messages
<1> DEFINE reported == IF s.errs = NoLines THEN s.stderr ELSE s.errs
           about == IF s.errs # NoLines THEN "errs" ELSE IF s.stderr # NoLines THEN "stderr" ELSE "none"
<1>1. reported.lines \in Nat /\ reported.omitted \in Nat
  BY DEF Streams, Lines
<1>2. about \in {"none", "errs", "stderr"}
  OBVIOUS
<1>3. FailureMessage(s) = [failed |-> TRUE, about |-> about, shown |-> reported.lines,
                           omitted |-> reported.omitted]
  BY DEF FailureMessage
<1> HIDE DEF reported, about
<1> QED
  BY <1>1, <1>2, <1>3 DEF Messages

LEMMA TypeStep == TypeOK /\ [Next]_vars => TypeOK'
<1> SUFFICES ASSUME TypeOK, [Next]_vars PROVE TypeOK'
  OBVIOUS
<1> USE DEF procVars, stackVars, callVars, ClientType
<1>1. CASE UNCHANGED vars
  BY <1>1 DEF vars, TypeOK
<1>2. CASE Start
  BY <1>2, ConstantAssumption DEF Start, TypeOK
<1>3. CASE StartFails
  BY <1>3 DEF StartFails, TypeOK
<1>4. CASE Cancel
  <2>1. call' \in [Clients -> Calls]
    <3>1. \A c \in Clients : (call[c].interrupted \/ call[c].pc = "run") \in BOOLEAN
      OBVIOUS
    <3>2. \A c \in Clients, b \in BOOLEAN : [call[c] EXCEPT !.interrupted = b] \in Calls
      BY Fields DEF TypeOK
    <3>3. \A c \in Clients : [call[c] EXCEPT !.interrupted = @ \/ call[c].pc = "run"] \in Calls
      BY <3>1, <3>2
    <3> QED
      BY <1>4, <3>3 DEF Cancel
  <2> QED
    BY <1>4, <2>1 DEF Cancel, TypeOK
<1>5. CASE GracefulStop
  BY <1>5 DEF GracefulStop, TypeOK
<1>6. CASE Kill
  <2>1. call' \in [Clients -> Calls]
    BY <1>6, Initial DEF Kill
  <2>2. stream' \in [Clients -> Streams]
    BY <1>6, Fields DEF Kill, TypeOK
  <2>3. reply' \in [Clients -> Messages]
    BY <1>6, Initial DEF Kill, TypeOK
  <2>4. client' \in [Clients -> ClientType]
    BY <1>6 DEF Kill, TypeOK, ClientType, Stages
  <2> QED
    BY <1>6, <2>1, <2>2, <2>3, <2>4 DEF Kill, TypeOK
<1>7. CASE Restart
  BY <1>7 DEF Restart, TypeOK
<1>8. ASSUME NEW c \in Clients, Request(c) PROVE TypeOK'
  <2>1. client' \in [Clients -> ClientType]
    <3>1. client' = client \/ client' = [client EXCEPT ![c].rounds = @ + 1]
      BY <1>8 DEF Request
    <3> QED
      BY <3>1 DEF TypeOK
  <2>2. call' \in [Clients -> Calls]
    <3>1. \A b \in BOOLEAN :
            [NoCall EXCEPT !.pc = "select", !.method = "SelectStack", !.create = b] \in Calls
      BY Initial DEF Calls
    <3>2. \A m \in Operations \cup Unary, b \in BOOLEAN :
            [NoCall EXCEPT !.pc = "ensure", !.method = m, !.remove = b] \in Calls
      BY Initial DEF Calls
    <3>3. PICK k \in Calls : call' = [call EXCEPT ![c] = k]
      BY <1>8, <3>1, <3>2 DEF Request
    <3> QED
      BY <3>3, CallChange
  <2>3. stream' \in [Clients -> Streams] /\ reply' \in [Clients -> Messages]
    BY <1>8, Initial DEF Request, TypeOK
  <2> QED
    BY <1>8, <2>1, <2>2, <2>3 DEF Request, TypeOK
<1>9. ASSUME NEW c \in Clients, Disconnect(c) PROVE TypeOK'
  <2>1. call' \in [Clients -> Calls]
    BY <1>9, Fields DEF Disconnect, TypeOK
  <2> QED
    BY <1>9, <2>1 DEF Disconnect, TypeOK
<1>10. ASSUME NEW c \in Clients, EngineEvent(c) PROVE TypeOK'
  <2>1. PICK e \in Events :
         stream' = [stream EXCEPT ![c].forwarder = "holding", ![c].event = e, ![c].sent = TRUE,
                     ![c].sentErrs = IF e \in {"error", "long error"} THEN @ + 1 ELSE @,
                     ![c].sentStderr = IF e = "info#err" THEN @ + 1 ELSE @]
    BY <1>10 DEF EngineEvent
  <2> DEFINE a == IF e \in {"error", "long error"} THEN stream[c].sentErrs + 1 ELSE stream[c].sentErrs
             b == IF e = "info#err" THEN stream[c].sentStderr + 1 ELSE stream[c].sentStderr
             k == [stream[c] EXCEPT !.forwarder = "holding", !.event = e, !.sent = TRUE,
                                    !.sentErrs = a, !.sentStderr = b]
  <2>2. a \in Nat /\ b \in Nat
    <3>1. stream[c] \in Streams
      BY DEF TypeOK
    <3>2. stream[c].sentErrs \in Nat /\ stream[c].sentStderr \in Nat
      BY <3>1 DEF Streams
    <3>3. \A n \in Nat : n + 1 \in Nat
      OBVIOUS
    <3> QED
      BY <3>2, <3>3, Zenon
  <2>3. stream' = [stream EXCEPT ![c] = k]
    BY <2>1 DEF TypeOK, Streams
  <2> HIDE DEF a, b
  <2>4. k \in Streams
    BY <2>2, ZenonT(30) DEF TypeOK, Streams
  <2> HIDE DEF k
  <2>5. stream' \in [Clients -> Streams]
    BY <2>3, <2>4, StreamChange
  <2>6. events' \in Nat
    <3>1. events \in Nat /\ events' = events + 1
      BY <1>10, Zenon DEF EngineEvent, TypeOK
    <3> QED
      BY <3>1
  <2> QED
    BY <1>10, <2>5, <2>6 DEF EngineEvent, TypeOK
<1>11. ASSUME NEW c \in Clients, SelectByCli(c) PROVE TypeOK'
  <2>1. target[c] \in Stacks
    BY DEF TypeOK
  <2>2. /\ call' \in [Clients -> Calls] /\ client' \in [Clients -> ClientType]
        /\ reply' \in [Clients -> Messages]
    <3>1. Goto(c, "cache") \/ Goto(c, "selectNew") \/ Return(c, FALSE)
      BY <1>11 DEF SelectByCli
    <3> QED
      BY <3>1, GotoType, PlainReturnType
  <2>3. selected' \in Stacks \cup {None} /\ taken' \subseteq Clients
    <3>1. Select(c, target[c]) \/ UNCHANGED <<selected, taken>>
      BY <1>11 DEF SelectByCli
    <3> QED
      BY <2>1, <3>1, SelectType DEF TypeOK
  <2>4. exists' \subseteq Stacks
    BY <1>11, <2>1 DEF SelectByCli, TypeOK
  <2> QED
    BY <1>11, <2>2, <2>3, <2>4 DEF SelectByCli, TypeOK
<1>12. ASSUME NEW c \in Clients, CacheStack(c) PROVE TypeOK'
  <2>1. \E ok : Return(c, ok)
    BY <1>12 DEF CacheStack
  <2> QED
    BY <1>12, <2>1, PlainReturnType DEF CacheStack, TypeOK
<1>13. ASSUME NEW c \in Clients, EnsureStack(c) PROVE TypeOK'
  <2>1. CASE selected = None
    BY <1>13, <2>1, PlainReturnType DEF EnsureStack, TypeOK
  <2>2. CASE selected # None
    <3>1. selected \in Stacks
      BY <2>2 DEF TypeOK
    <3>2. \E pc \in {"act", "reselect"} : call' = [call EXCEPT ![c].pc = pc, ![c].local = selected]
      BY <1>13, <2>2 DEF EnsureStack
    <3>3. call' \in [Clients -> Calls]
      BY <3>1, <3>2, LocalType
    <3>4. stackLock' \in {stackLock, c} /\ UNCHANGED <<client, reply>>
      BY <1>13, <2>2 DEF EnsureStack
    <3> QED
      BY <1>13, <3>3, <3>4 DEF EnsureStack, TypeOK
  <2> QED
    BY <2>1, <2>2
<1>14. ASSUME NEW c \in Clients, Reselect(c) PROVE TypeOK'
  <2>1. CASE call[c].local \in exists
    <3>1. call[c].local \in Stacks /\ Select(c, call[c].local) /\ Goto(c, "act")
      BY <1>14, <2>1 DEF Reselect, TypeOK
    <3> QED
      BY <1>14, <3>1, SelectType, GotoType DEF Reselect, TypeOK
  <2>2. CASE call[c].local \notin exists
    BY <1>14, <2>2, PlainReturnType DEF Reselect, TypeOK
  <2> QED
    BY <2>1, <2>2
<1>15. ASSUME NEW c \in Clients, CommandFails(c) PROVE TypeOK'
  BY <1>15, PlainReturnType DEF CommandFails, TypeOK
<1>16. ASSUME NEW c \in Clients, Method(c) PROVE TypeOK'
  BY <1>16, PlainReturnType DEF Method, TypeOK
<1>17. ASSUME NEW c \in Clients, StartOperation(c) PROVE TypeOK'
  <2>1. [NoStream EXCEPT !.forwarder = "waiting"] \in Streams
    BY Initial DEF Streams
  <2>2. stream' \in [Clients -> Streams]
    BY <1>17, <2>1, StreamChange DEF StartOperation
  <2> QED
    BY <1>17, <2>2, GotoType DEF StartOperation, TypeOK
<1>18. ASSUME NEW c \in Clients, Forward(c) PROVE TypeOK'
  <2> DEFINE o == Observe(stream[c])
             k == [o EXCEPT !.forwarder = "waiting", !.event = "none"]
  <2>1. o \in Streams
    BY ObserveType DEF TypeOK
  <2>2. stream' = [stream EXCEPT ![c] = k]
    BY <1>18 DEF Forward
  <2> HIDE DEF o
  <2>3. k \in Streams
    BY <2>1 DEF Streams
  <2> HIDE DEF k
  <2>4. stream' \in [Clients -> Streams]
    BY <2>2, <2>3, StreamChange
  <2> QED
    BY <1>18, <2>4 DEF Forward, TypeOK
<1>19. ASSUME NEW c \in Clients, ForwarderStops(c) PROVE TypeOK'
  <2>1. stream' \in [Clients -> Streams]
    BY <1>19, Fields DEF ForwarderStops, TypeOK
  <2> QED
    BY <1>19, <2>1 DEF ForwarderStops, TypeOK
<1>20. ASSUME NEW c \in Clients, OperationFails(c) PROVE TypeOK'
  <2>1. PICK ran \in BOOLEAN : stream' = [stream EXCEPT ![c].closed = ran, ![c].stop = TRUE]
    BY <1>20 DEF OperationFails
  <2> DEFINE k == [stream[c] EXCEPT !.closed = ran, !.stop = TRUE]
  <2>2. k \in Streams
    BY ZenonT(30) DEF TypeOK, Streams
  <2>3. stream' = [stream EXCEPT ![c] = k]
    BY <2>1 DEF TypeOK, Streams
  <2>4. stream' \in [Clients -> Streams]
    BY <2>2, <2>3, StreamChange
  <2> QED
    BY <1>20, <2>4, GotoType DEF OperationFails, TypeOK
<1>21. ASSUME NEW c \in Clients, ReturnFailure(c) PROVE TypeOK'
  <2>1. FailureMessage(stream[c]) \in Messages
    BY MessageType DEF TypeOK
  <2> QED
    BY <1>21, <2>1, ReturnType DEF ReturnFailure, TypeOK
<1>22. ASSUME NEW c \in Clients, OperationSucceeds(c) PROVE TypeOK'
  <2> DEFINE k == [NoStream EXCEPT !.closed = TRUE, !.event = stream[c].event,
                                   !.forwarder = stream[c].forwarder]
  <2>1. k \in Streams
    BY Initial DEF TypeOK, Streams
  <2>2. stream' = [stream EXCEPT ![c] = k]
    BY <1>22 DEF OperationSucceeds
  <2> HIDE DEF k
  <2>3. stream' \in [Clients -> Streams]
    BY <2>1, <2>2, StreamChange
  <2>4. \E pc \in {"clear", "result"} : Goto(c, pc)
    BY <1>22 DEF OperationSucceeds
  <2>5. exists' \subseteq Stacks /\ selected' \in Stacks \cup {None}
    BY <1>22 DEF OperationSucceeds, TypeOK
  <2> QED
    BY <1>22, <2>3, <2>4, <2>5, GotoType DEF OperationSucceeds, TypeOK
<1>23. ASSUME NEW c \in Clients, ClearStack(c) PROVE TypeOK'
  BY <1>23, GotoType DEF ClearStack, TypeOK
<1>24. ASSUME NEW c \in Clients, SendResult(c) PROVE TypeOK'
  <2>1. \E ok : Return(c, ok)
    BY <1>24 DEF SendResult
  <2> QED
    BY <1>24, <2>1, PlainReturnType DEF SendResult, TypeOK
<1> QED
  BY <1>1, <1>2, <1>3, <1>4, <1>5, <1>6, <1>7, <1>8, <1>9, <1>10, <1>11, <1>12, <1>13, <1>14,
     <1>15, <1>16, <1>17, <1>18, <1>19, <1>20, <1>21, <1>22, <1>23, <1>24
     DEF Next, Serve, SelectStack, Goroutine, Up, Destroy, Operation

(* The calls, their streams and replies, and the stacks keep their types.  *)
THEOREM TypeCorrect == Spec => []TypeOK
BY InitType, TypeStep, PTL DEF Spec

-----------------------------------------------------------------------------
(* What a handler's step does to its call and to the others.               *)

Others(c) == \A d \in Clients \ {c} : call'[d] = call[d] /\ reply'[d] = reply[d]

LEMMA ReturnEffect ==
    ASSUME TypeOK, NEW c \in Clients, NEW ok, NEW m, ReturnWith(c, ok, m)
    PROVE  call'[c].pc = "idle" /\ reply'[c] = m /\ Others(c)
BY DEF ReturnWith, NoCall, TypeOK, Others

LEMMA PlainReturnEffect ==
    ASSUME TypeOK, NEW c \in Clients, NEW ok, Return(c, ok)
    PROVE  call'[c].pc = "idle" /\ reply'[c] = NoMessage /\ Others(c)
BY ReturnEffect DEF Return

LEMMA GotoEffect ==
    ASSUME TypeOK, NEW c \in Clients, NEW pc, Goto(c, pc)
    PROVE  /\ call'[c].pc = pc /\ call'[c].local = call[c].local
           /\ Others(c) /\ reply' = reply
<1>1. call' = [call EXCEPT ![c].pc = pc] /\ reply' = reply
  BY DEF Goto
<1>2. \A d \in Clients \ {c} : call'[d] = call[d]
  BY <1>1 DEF TypeOK
<1>3. call'[c] = [call[c] EXCEPT !.pc = pc] /\ call[c] \in Calls
  BY <1>1 DEF TypeOK
<1>4. call'[c].pc = pc /\ call'[c].local = call[c].local
  BY <1>3 DEF Calls
<1> QED
  BY <1>1, <1>2, <1>4 DEF Others

LEMMA CancelEffect ==
    ASSUME TypeOK, Cancel
    PROVE  /\ \A c \in Clients : call'[c].pc = call[c].pc /\ call'[c].local = call[c].local
           /\ UNCHANGED <<reply, stream>>
<1>1. SUFFICES ASSUME NEW c \in Clients
               PROVE  call'[c].pc = call[c].pc /\ call'[c].local = call[c].local
  BY DEF Cancel
<1>2. PICK b : call'[c] = [call[c] EXCEPT !.interrupted = b]
  BY DEF Cancel
<1>3. call[c] \in Calls
  BY DEF TypeOK
<1> QED
  BY <1>2, <1>3 DEF Calls

LEMMA DisconnectEffect ==
    ASSUME TypeOK, NEW c \in Clients, Disconnect(c)
    PROVE  /\ \A d \in Clients : call'[d].pc = call[d].pc /\ call'[d].local = call[d].local
           /\ UNCHANGED <<reply, stream>>
<1>1. call' = [call EXCEPT ![c].live = FALSE] /\ UNCHANGED <<reply, stream>>
  BY DEF Disconnect
<1>2. \A d \in Clients \ {c} : call'[d] = call[d]
  BY <1>1 DEF TypeOK
<1>3. call'[c] = [call[c] EXCEPT !.live = FALSE] /\ call[c] \in Calls
  BY <1>1 DEF TypeOK
<1>4. call'[c].pc = call[c].pc /\ call'[c].local = call[c].local
  BY <1>3 DEF Calls
<1> QED
  BY <1>1, <1>2, <1>4

LEMMA RequestEffect ==
    ASSUME TypeOK, NEW c \in Clients, Request(c)
    PROVE  /\ call'[c].pc \in {"select", "ensure"} /\ reply'[c] = NoMessage /\ stream'[c] = NoStream
           /\ \A d \in Clients \ {c} : stream'[d] = stream[d]
           /\ Others(c) /\ UNCHANGED stackVars /\ UNCHANGED target
<1>1. PICK k : call' = [call EXCEPT ![c] = k] /\ k.pc \in {"select", "ensure"}
  <2>1. CASE \E v : call' = [call EXCEPT ![c] =
             [NoCall EXCEPT !.pc = "select", !.method = "SelectStack", !.create = v]]
    <3>1. PICK v : call' = [call EXCEPT ![c] =
             [NoCall EXCEPT !.pc = "select", !.method = "SelectStack", !.create = v]]
      BY <2>1
    <3> DEFINE k == [NoCall EXCEPT !.pc = "select", !.method = "SelectStack", !.create = v]
    <3>2. k.pc = "select"
      BY DEF NoCall
    <3> QED
      BY <3>1, <3>2
  <2>2. CASE \E m, v : call' = [call EXCEPT ![c] =
             [NoCall EXCEPT !.pc = "ensure", !.method = m, !.remove = v]]
    <3>1. PICK m, v : call' = [call EXCEPT ![c] =
             [NoCall EXCEPT !.pc = "ensure", !.method = m, !.remove = v]]
      BY <2>2
    <3> DEFINE k == [NoCall EXCEPT !.pc = "ensure", !.method = m, !.remove = v]
    <3>2. k.pc = "ensure"
      BY DEF NoCall
    <3> QED
      BY <3>1, <3>2
  <2> QED
    BY <2>1, <2>2 DEF Request
<1>2. call'[c].pc \in {"select", "ensure"} /\ \A d \in Clients \ {c} : call'[d] = call[d]
  BY <1>1 DEF TypeOK
<1>3. reply' = [reply EXCEPT ![c] = NoMessage] /\ stream' = [stream EXCEPT ![c] = NoStream]
  BY DEF Request
<1> QED
  BY <1>2, <1>3 DEF Request, Others, TypeOK

-----------------------------------------------------------------------------
(* The stack that a call works on.                                         *)

AtStack == {"reselect", "act", "run"}

\* The CLI has selected what a client selected, or nothing, unless it was taken
\* from the client; and so has a handler that read it.
Own ==
    \A c \in Clients :
        /\ selected \in {None, target[c]} \/ c \in taken
        /\ call[c].pc \in AtStack => call[c].local = target[c] \/ c \in taken

LEMMA OwnKept ==
    ASSUME Own, UNCHANGED <<selected, taken, target>>,
           \A c \in Clients : call'[c].pc \in AtStack =>
              call[c].pc \in AtStack /\ call'[c].local = call[c].local
    PROVE  Own'
BY DEF Own

\* A selection by c takes the selection of the clients that have another stack.
LEMMA SelectOwn ==
    ASSUME TypeOK, Own, NEW c \in Clients, NEW s \in Stacks, Select(c, s), target' = target,
           target[c] = s \/ c \in taken
    PROVE  \A d \in Clients :
              /\ selected' \in {None, target[d]} \/ d \in taken'
              /\ d \in taken => d \in taken' \/ (d = c /\ s = target[c])
BY DEF Select

LEMMA OwnStep == ASSUME InitialStack = None, TypeOK, Own, [Next]_vars PROVE Own'
<1> USE DEF stackVars
<1>1. CASE \/ UNCHANGED vars \/ Start \/ StartFails \/ GracefulStop \/ Restart
           \/ \E c \in Clients : EngineEvent(c) \/ Goroutine(c)
  <2>1. UNCHANGED <<selected, taken, target, call>>
    BY <1>1 DEF vars, Start, StartFails, GracefulStop, Restart, EngineEvent, Goroutine, Forward,
                ForwarderStops, callVars
  <2> QED
    BY <2>1, OwnKept
<1>2. CASE Cancel
  BY <1>2, CancelEffect, OwnKept DEF Cancel
<1>3. CASE Kill
  BY <1>3, OwnKept DEF Kill, NoCall, AtStack
<1>4. ASSUME NEW c \in Clients, Request(c) PROVE Own'
  BY <1>4, RequestEffect, OwnKept DEF Others, AtStack
<1>5. ASSUME NEW c \in Clients, Disconnect(c) PROVE Own'
  BY <1>5, DisconnectEffect, OwnKept DEF Disconnect
<1>6. ASSUME NEW c \in Clients,
             CacheStack(c) \/ CommandFails(c) \/ Method(c) \/ SendResult(c) \/ ReturnFailure(c)
      PROVE  Own'
  <2>1. \E ok, m : ReturnWith(c, ok, m)
    BY <1>6 DEF CacheStack, CommandFails, Method, SendResult, ReturnFailure, Return
  <2>2. UNCHANGED <<selected, taken, target>>
    BY <1>6 DEF CacheStack, CommandFails, Method, SendResult, ReturnFailure
  <2> QED
    BY <2>1, <2>2, ReturnEffect, OwnKept DEF Others, AtStack
<1>7. ASSUME NEW c \in Clients, StartOperation(c) \/ OperationFails(c) \/ ClearStack(c)
      PROVE  Own'
  <2>1. UNCHANGED <<selected, taken, target>>
    BY <1>7 DEF StartOperation, OperationFails, ClearStack
  <2>2. \/ call[c].pc = "act" /\ Goto(c, "run")
        \/ Goto(c, "drain")
        \/ Goto(c, "result")
    BY <1>7 DEF StartOperation, OperationFails, ClearStack
  <2> QED
    BY <2>1, <2>2, GotoEffect, OwnKept DEF Others, AtStack
<1>8. ASSUME NEW c \in Clients, OperationSucceeds(c) PROVE Own'
  <2>1. selected' \in {None, selected} /\ UNCHANGED <<taken, target>>
    BY <1>8 DEF OperationSucceeds
  <2>2. \E pc \in {"clear", "result"} : Goto(c, pc)
    BY <1>8 DEF OperationSucceeds
  <2>3. \A d \in Clients : call'[d].pc \in AtStack =>
          call[d].pc \in AtStack /\ call'[d].local = call[d].local
    BY <2>2, GotoEffect DEF Others, AtStack
  <2> QED
    BY <2>1, <2>3 DEF Own
<1>9. ASSUME NEW c \in Clients, SelectByCli(c) PROVE Own'
  <2>1. target' = target /\ target[c] \in Stacks
    BY <1>9 DEF SelectByCli, TypeOK
  <2>2. CASE Return(c, FALSE) /\ UNCHANGED <<selected, taken>>
    BY <2>1, <2>2, PlainReturnEffect, OwnKept DEF Others, AtStack
  <2>3. CASE Select(c, target[c]) /\ \E pc \in {"cache", "selectNew"} : Goto(c, pc)
    <3>1. call'[c].pc \notin AtStack /\ \A d \in Clients \ {c} : call'[d] = call[d]
      BY <2>3, GotoEffect DEF Others, AtStack
    <3> QED
      BY <2>1, <2>3, <3>1, SelectOwn DEF Own
  <2> QED
    BY <1>9, <2>2, <2>3 DEF SelectByCli
<1>10. ASSUME NEW c \in Clients, EnsureStack(c) PROVE Own'
  <2>1. UNCHANGED <<selected, taken, target>>
    BY <1>10 DEF EnsureStack
  <2>2. CASE Return(c, FALSE)
    BY <2>1, <2>2, PlainReturnEffect, OwnKept DEF Others, AtStack
  <2>3. CASE selected # None /\ \E pc \in {"act", "reselect"} :
                call' = [call EXCEPT ![c].pc = pc, ![c].local = selected]
    <3>1. \A d \in Clients \ {c} : call'[d] = call[d]
      BY <2>3 DEF TypeOK
    <3>2. call'[c].local = selected
      <4>1. PICK pc : call'[c] = [call[c] EXCEPT !.pc = pc, !.local = selected]
        BY <2>3 DEF TypeOK
      <4> QED
        BY <4>1 DEF TypeOK, Calls
    <3> QED
      BY <2>1, <2>3, <3>1, <3>2 DEF Own
  <2> QED
    BY <1>10, <2>2, <2>3 DEF EnsureStack
<1>11. ASSUME NEW c \in Clients, Reselect(c) PROVE Own'
  <2>1. target' = target
    BY <1>11 DEF Reselect
  <2>2. CASE Return(c, FALSE) /\ UNCHANGED <<selected, taken>>
    BY <2>1, <2>2, PlainReturnEffect, OwnKept DEF Others, AtStack
  <2>3. CASE call[c].local \in exists /\ Select(c, call[c].local) /\ Goto(c, "act")
    <3>1. call'[c].local = call[c].local /\ \A d \in Clients \ {c} : call'[d] = call[d]
      BY <2>3, GotoEffect DEF Others
    <3>2. call[c].local \in Stacks
      BY <2>3 DEF TypeOK
    <3>3. call[c].local = target[c] \/ c \in taken
      BY <1>11 DEF Reselect, Own, AtStack
    <3> QED
      BY <2>1, <2>3, <3>1, <3>2, <3>3, SelectOwn DEF Own
  <2> QED
    BY <1>11, <2>2, <2>3 DEF Reselect
<1> QED
  BY <1>1, <1>2, <1>3, <1>4, <1>5, <1>6, <1>7, <1>8, <1>9, <1>10, <1>11
     DEF Next, Serve, SelectStack, Up, Destroy, Operation

(* An agent that is started as the operator does, without a --stack flag,   *)
(* works on the stack that a client named in SelectStack, unless the call   *)
(* of another client made the CLI select another one in between.            *)
THEOREM WorksOnOwnStack ==
    ASSUME InitialStack = None PROVE Spec => []OwnStackUnlessTaken
<1>1. Init => Own
  BY DEF Init, Own, NoCall, AtStack
<1>2. TypeOK /\ Own /\ [Next]_vars => Own'
  BY OwnStep
<1>3. Own => OwnStackUnlessTaken
  BY DEF Own, OwnStackUnlessTaken, AtStack
<1> QED
  BY <1>1, <1>2, <1>3, TypeCorrect, PTL DEF Spec

-----------------------------------------------------------------------------
(* The message of a failed operation.                                      *)

Errors == {"error", "long error"}

\* The event in the forwarder's hands is one of the kind.
Held(s, kinds) == IF s.forwarder = "holding" /\ s.event \in kinds THEN 1 ELSE 0

\* Every diagnostic that was sent is shown, omitted, or in the forwarder's hands.
Accounted(s) ==
    /\ s.errs.lines <= MaxDiagnostics /\ s.stderr.lines <= MaxDiagnostics
    /\ s.errs.lines + s.errs.omitted + Held(s, Errors) = s.sentErrs
    /\ s.stderr.lines + s.stderr.omitted + Held(s, {"info#err"}) = s.sentStderr
    /\ s.forwarder = "holding" => s.event \in Events

\* While an operation runs or fails, and after it failed.
Reported ==
    \A c \in Clients :
        /\ call[c].pc \in {"run", "drain"} => Accounted(stream[c])
        /\ call[c].pc # "idle" => ~reply[c].failed
        /\ reply[c].failed =>
             /\ stream[c].forwarder \in {"none", "done"}
             /\ Accounted(stream[c])
             /\ reply[c] = FailureMessage(stream[c])

\* The facts about a stream that Accounted is made of.
LEMMA StreamType ==
    ASSUME NEW s \in Streams
    PROVE  /\ s.errs.lines \in Nat /\ s.errs.omitted \in Nat
           /\ s.stderr.lines \in Nat /\ s.stderr.omitted \in Nat
           /\ s.sentErrs \in Nat /\ s.sentStderr \in Nat
           /\ s.errs \in Lines /\ s.stderr \in Lines
BY DEF Streams, Lines

LEMMA FreshAccounted == Accounted([NoStream EXCEPT !.forwarder = "waiting"])
BY ConstantAssumption DEF Accounted, Held, NoStream, NoLines

\* The engine sends e, and the forwarder takes it.
LEMMA SentAccounted ==
    ASSUME NEW s \in Streams, Accounted(s), s.forwarder = "waiting", NEW e \in Events, NEW t,
           t.forwarder = "holding", t.event = e, t.errs = s.errs, t.stderr = s.stderr,
           t.sentErrs = IF e \in Errors THEN s.sentErrs + 1 ELSE s.sentErrs,
           t.sentStderr = IF e = "info#err" THEN s.sentStderr + 1 ELSE s.sentStderr
    PROVE  Accounted(t)
<1>1. s.errs.lines + s.errs.omitted = s.sentErrs /\ s.stderr.lines + s.stderr.omitted = s.sentStderr
  BY StreamType DEF Accounted, Held
<1>2. CASE e \in Errors
  <2>1. Held(t, Errors) = 1 /\ Held(t, {"info#err"}) = 0 /\ e # "info#err"
    BY <1>2 DEF Held, Errors
  <2> QED
    BY <1>1, <1>2, <2>1, StreamType DEF Accounted
<1>3. CASE e = "info#err"
  <2>1. Held(t, Errors) = 0 /\ Held(t, {"info#err"}) = 1 /\ e \notin Errors
    BY <1>3 DEF Held, Errors
  <2> QED
    BY <1>1, <1>3, <2>1, StreamType DEF Accounted
<1> QED
  BY <1>2, <1>3 DEF Events, Errors

LEMMA AddLineEffect ==
    ASSUME NEW b \in Lines, NEW long \in BOOLEAN, b.lines <= MaxDiagnostics
    PROVE  /\ AddLine(b, long) \in Lines
           /\ AddLine(b, long).lines <= MaxDiagnostics
           /\ AddLine(b, long).lines + AddLine(b, long).omitted = b.lines + b.omitted + 1
<1>0. b.lines \in Nat /\ b.omitted \in Nat /\ MaxDiagnostics \in Nat
  BY ConstantAssumption DEF Lines
<1>1. CASE b.lines >= MaxDiagnostics \/ long
  <2>1. AddLine(b, long) = [b EXCEPT !.omitted = @ + 1]
    BY <1>1 DEF AddLine
  <2> QED
    BY <1>0, <2>1 DEF Lines
<1>2. CASE ~(b.lines >= MaxDiagnostics \/ long)
  <2>1. AddLine(b, long) = [b EXCEPT !.lines = @ + 1] /\ b.lines < MaxDiagnostics
    BY <1>0, <1>2 DEF AddLine
  <2> QED
    BY <1>0, <2>1 DEF Lines
<1> QED
  BY <1>1, <1>2

\* The forwarder observes what it holds.
LEMMA ObservedAccounted ==
    ASSUME NEW s \in Streams, Accounted(s), s.forwarder = "holding"
    PROVE  Accounted([Observe(s) EXCEPT !.forwarder = "waiting", !.event = "none"])
<1> DEFINE o == Observe(s)
           t == [o EXCEPT !.forwarder = "waiting", !.event = "none"]
<1>1. o \in Streams
  BY ObserveType
<1>2. /\ t.errs = o.errs /\ t.stderr = o.stderr /\ t.sentErrs = o.sentErrs
      /\ t.sentStderr = o.sentStderr /\ t.forwarder = "waiting"
  BY <1>1 DEF Streams
<1>3. Held(t, Errors) = 0 /\ Held(t, {"info#err"}) = 0
  BY <1>2 DEF Held
<1>4. s.event \in Events
  BY DEF Accounted
<1>5. CASE s.event \in Errors
  <2>1. o = [s EXCEPT !.errs = AddLine(@, s.event = "long error")]
    BY <1>5 DEF Observe, Errors
  <2>2. /\ o.errs = AddLine(s.errs, s.event = "long error") /\ o.stderr = s.stderr
        /\ o.sentErrs = s.sentErrs /\ o.sentStderr = s.sentStderr
    BY <2>1 DEF Streams
  <2>3. Held(s, Errors) = 1 /\ Held(s, {"info#err"}) = 0
    BY <1>5 DEF Held, Errors
  <2>4. /\ o.errs.lines <= MaxDiagnostics
        /\ o.errs.lines + o.errs.omitted = s.errs.lines + s.errs.omitted + 1
    BY <2>2, AddLineEffect, StreamType DEF Accounted
  <2>5. /\ o.errs.lines + o.errs.omitted = s.sentErrs
        /\ s.stderr.lines + s.stderr.omitted = s.sentStderr
    BY <2>3, <2>4, StreamType DEF Accounted
  <2>6. o.errs.lines \in Nat /\ o.errs.omitted \in Nat /\ s.stderr.lines <= MaxDiagnostics
    BY <1>1, StreamType DEF Accounted
  <2> HIDE DEF o, t
  <2>7. t.errs.lines <= MaxDiagnostics /\ t.stderr.lines <= MaxDiagnostics
    BY <1>2, <2>2, <2>4, <2>6
  <2>8. t.errs.lines + t.errs.omitted = t.sentErrs /\ t.stderr.lines + t.stderr.omitted = t.sentStderr
    BY <1>2, <2>2, <2>5
  <2>9. /\ t.errs.lines \in Nat /\ t.errs.omitted \in Nat
        /\ t.stderr.lines \in Nat /\ t.stderr.omitted \in Nat
    BY <1>1, <1>2, StreamType
  <2>10. /\ t.errs.lines + t.errs.omitted + Held(t, Errors) = t.sentErrs
         /\ t.stderr.lines + t.stderr.omitted + Held(t, {"info#err"}) = t.sentStderr
    BY <1>3, <2>8, <2>9
  <2>11. Accounted(t)
    BY <1>2, <2>7, <2>10 DEF Accounted
  <2> QED
    BY <2>11 DEF t, o
<1>6. CASE s.event \notin Errors
  <2>1. o = [s EXCEPT !.stderr = AddLine(@, FALSE)]
    BY <1>6 DEF Observe, Errors
  <2>2. /\ o.stderr = AddLine(s.stderr, FALSE) /\ o.errs = s.errs
        /\ o.sentErrs = s.sentErrs /\ o.sentStderr = s.sentStderr
    BY <2>1 DEF Streams
  <2>3. Held(s, Errors) = 0 /\ Held(s, {"info#err"}) = 1
    BY <1>4, <1>6 DEF Held, Errors, Events
  <2>4. /\ o.stderr.lines <= MaxDiagnostics
        /\ o.stderr.lines + o.stderr.omitted = s.stderr.lines + s.stderr.omitted + 1
    BY <2>2, AddLineEffect, StreamType DEF Accounted
  <2>5. /\ o.stderr.lines + o.stderr.omitted = s.sentStderr
        /\ s.errs.lines + s.errs.omitted = s.sentErrs
    BY <2>3, <2>4, StreamType DEF Accounted
  <2>6. o.stderr.lines \in Nat /\ o.stderr.omitted \in Nat /\ s.errs.lines <= MaxDiagnostics
    BY <1>1, StreamType DEF Accounted
  <2> HIDE DEF o, t
  <2>7. t.errs.lines <= MaxDiagnostics /\ t.stderr.lines <= MaxDiagnostics
    BY <1>2, <2>2, <2>4, <2>6
  <2>8. t.errs.lines + t.errs.omitted = t.sentErrs /\ t.stderr.lines + t.stderr.omitted = t.sentStderr
    BY <1>2, <2>2, <2>5
  <2>9. /\ t.errs.lines \in Nat /\ t.errs.omitted \in Nat
        /\ t.stderr.lines \in Nat /\ t.stderr.omitted \in Nat
    BY <1>1, <1>2, StreamType
  <2>10. /\ t.errs.lines + t.errs.omitted + Held(t, Errors) = t.sentErrs
         /\ t.stderr.lines + t.stderr.omitted + Held(t, {"info#err"}) = t.sentStderr
    BY <1>3, <2>8, <2>9
  <2>11. Accounted(t)
    BY <1>2, <2>7, <2>10 DEF Accounted
  <2> QED
    BY <2>11 DEF t, o
<1> QED
  BY <1>5, <1>6

\* Nothing is held once the forwarder has stopped.
LEMMA StoppedAccounted ==
    ASSUME NEW s \in Streams, Accounted(s), s.forwarder \in {"waiting", "none", "done"},
           NEW f \in {"none", "done"}
    PROVE  Accounted([s EXCEPT !.forwarder = f])
<1> DEFINE t == [s EXCEPT !.forwarder = f]
<1>1. /\ t.errs = s.errs /\ t.stderr = s.stderr /\ t.sentErrs = s.sentErrs
      /\ t.sentStderr = s.sentStderr /\ t.forwarder = f
  BY DEF Streams
<1>2. Held(s, Errors) = 0 /\ Held(s, {"info#err"}) = 0 /\ Held(t, Errors) = 0 /\ Held(t, {"info#err"}) = 0
  BY <1>1 DEF Held
<1> HIDE DEF t
<1>3. Accounted(t)
  BY <1>1, <1>2 DEF Accounted
<1> QED
  BY <1>3 DEF t

\* The channels play no part.
LEMMA ClosedAccounted ==
    ASSUME NEW s \in Streams, Accounted(s), NEW b
    PROVE  Accounted([s EXCEPT !.closed = b, !.stop = TRUE])
<1> DEFINE t == [s EXCEPT !.closed = b, !.stop = TRUE]
<1>1. /\ t.errs = s.errs /\ t.stderr = s.stderr /\ t.sentErrs = s.sentErrs
      /\ t.sentStderr = s.sentStderr /\ t.forwarder = s.forwarder /\ t.event = s.event
  BY DEF Streams
<1>2. Held(t, Errors) = Held(s, Errors) /\ Held(t, {"info#err"}) = Held(s, {"info#err"})
  BY <1>1 DEF Held
<1> HIDE DEF t
<1>3. Accounted(t)
  BY <1>1, <1>2 DEF Accounted
<1> QED
  BY <1>3 DEF t

\* The message is made of what was observed.
LEMMA MessageKept ==
    ASSUME NEW s, NEW t, t.errs = s.errs, t.stderr = s.stderr
    PROVE  FailureMessage(t) = FailureMessage(s)
BY DEF FailureMessage

LEMMA ReportedKept ==
    ASSUME Reported,
           \A c \in Clients :
              /\ stream'[c] = stream[c]
              /\ call'[c].pc \in {"run", "drain"} => call[c].pc \in {"run", "drain"}
              /\ reply'[c].failed =>
                   reply'[c] = reply[c] /\ (call'[c].pc = "idle" \/ call[c].pc # "idle")
    PROVE  Reported'
<1> SUFFICES ASSUME NEW c \in Clients
             PROVE  /\ call'[c].pc \in {"run", "drain"} => Accounted(stream'[c])
                    /\ call'[c].pc # "idle" => ~reply'[c].failed
                    /\ reply'[c].failed =>
                         /\ stream'[c].forwarder \in {"none", "done"}
                         /\ Accounted(stream'[c])
                         /\ reply'[c] = FailureMessage(stream'[c])
  BY DEF Reported, Accounted, Held, FailureMessage
<1> QED
  BY DEF Reported

\* A step of one operation.
LEMMA ReportedChange ==
    ASSUME Reported, NEW c \in Clients,
           \A d \in Clients \ {c} :
              call'[d] = call[d] /\ reply'[d] = reply[d] /\ stream'[d] = stream[d],
           call'[c].pc \in {"run", "drain"} => Accounted(stream'[c]),
           ~reply'[c].failed
    PROVE  Reported'
<1> SUFFICES ASSUME NEW d \in Clients
             PROVE  /\ call'[d].pc \in {"run", "drain"} => Accounted(stream'[d])
                    /\ call'[d].pc # "idle" => ~reply'[d].failed
                    /\ reply'[d].failed =>
                         /\ stream'[d].forwarder \in {"none", "done"}
                         /\ Accounted(stream'[d])
                         /\ reply'[d] = FailureMessage(stream'[d])
  BY DEF Reported, Accounted, Held, FailureMessage
<1>1. CASE d = c
  BY <1>1
<1>2. CASE d # c
  BY <1>2 DEF Reported
<1> QED
  BY <1>1, <1>2

LEMMA ReportedStep == ASSUME TypeOK, Reported, [Next]_vars PROVE Reported'
<1> USE DEF callVars
<1>0. NoMessage.failed = FALSE
  BY DEF NoMessage
<1>1. CASE UNCHANGED vars \/ Start \/ StartFails \/ GracefulStop \/ Restart
  <2>1. UNCHANGED <<call, reply, stream>>
    BY <1>1 DEF vars, Start, StartFails, GracefulStop, Restart
  <2> QED
    BY <2>1, ReportedKept
<1>2. CASE Cancel
  BY <1>2, CancelEffect, ReportedKept
<1>3. CASE Kill
  <2> SUFFICES ASSUME NEW c \in Clients
               PROVE  /\ call'[c].pc = "idle"
                      /\ reply'[c].failed =>
                           /\ stream'[c].forwarder \in {"none", "done"}
                           /\ Accounted(stream'[c])
                           /\ reply'[c] = FailureMessage(stream'[c])
    BY DEF Reported, Accounted, Held, FailureMessage
  <2>1. call'[c].pc = "idle"
    BY <1>3 DEF Kill, NoCall
  <2>2. stream'[c] = [stream[c] EXCEPT !.forwarder = "none"] /\ stream[c] \in Streams
    BY <1>3 DEF Kill, TypeOK
  <2>3. ASSUME reply'[c].failed
        PROVE  reply'[c] = reply[c]
    BY <1>0, <1>3, <2>3 DEF Kill
  <2>4. /\ stream'[c].errs = stream[c].errs /\ stream'[c].stderr = stream[c].stderr
        /\ stream'[c].forwarder = "none"
    BY <2>2 DEF Streams
  <2>5. ASSUME reply'[c].failed
        PROVE  Accounted(stream'[c]) /\ reply'[c] = FailureMessage(stream'[c])
    <3>1. /\ stream[c].forwarder \in {"none", "done"} /\ Accounted(stream[c])
          /\ reply[c] = FailureMessage(stream[c])
      BY <2>3, <2>5 DEF Reported
    <3>2. Accounted(stream'[c])
      BY <2>2, <3>1, StoppedAccounted
    <3> QED
      BY <2>3, <2>4, <2>5, <3>1, <3>2, MessageKept
  <2> QED
    BY <2>1, <2>4, <2>5
<1>4. ASSUME NEW c \in Clients, Request(c) PROVE Reported'
  BY <1>0, <1>4, RequestEffect, ReportedChange DEF Others
<1>5. ASSUME NEW c \in Clients, Disconnect(c) PROVE Reported'
  BY <1>5, DisconnectEffect, ReportedKept
<1>6. ASSUME NEW c \in Clients, CacheStack(c) \/ CommandFails(c) \/ Method(c) \/ SendResult(c)
      PROVE  Reported'
  <2>1. \E ok : Return(c, ok)
    BY <1>6 DEF CacheStack, CommandFails, Method, SendResult
  <2>2. stream' = stream
    BY <1>6 DEF CacheStack, CommandFails, Method, SendResult
  <2> QED
    BY <1>0, <2>1, <2>2, PlainReturnEffect, ReportedKept DEF Others
<1>7. ASSUME NEW c \in Clients, SelectByCli(c) \/ Reselect(c) PROVE Reported'
  <2>1. call[c].pc # "idle" /\ stream' = stream
    BY <1>7 DEF SelectByCli, Reselect
  <2>2. Return(c, FALSE) \/ \E pc \in {"cache", "selectNew", "act"} : Goto(c, pc)
    BY <1>7 DEF SelectByCli, Reselect
  <2> QED
    BY <1>0, <2>1, <2>2, PlainReturnEffect, GotoEffect, ReportedKept DEF Others
<1>8. ASSUME NEW c \in Clients, EnsureStack(c) PROVE Reported'
  <2>1. call[c].pc = "ensure" /\ stream' = stream
    BY <1>8 DEF EnsureStack
  <2>2. CASE Return(c, FALSE)
    BY <1>0, <2>1, <2>2, PlainReturnEffect, ReportedKept DEF Others
  <2>3. CASE \E pc \in {"act", "reselect"} :
               call' = [call EXCEPT ![c].pc = pc, ![c].local = selected] /\ UNCHANGED reply
    <3>1. \A d \in Clients \ {c} : call'[d] = call[d]
      BY <2>3 DEF TypeOK
    <3>2. call'[c].pc \in {"act", "reselect"}
      <4>1. PICK pc \in {"act", "reselect"} : call'[c] = [call[c] EXCEPT !.pc = pc, !.local = selected]
        BY <2>3 DEF TypeOK
      <4> QED
        BY <4>1 DEF TypeOK, Calls
    <3> QED
      BY <2>1, <2>3, <3>1, <3>2, ReportedKept
  <2> QED
    BY <1>8, <2>2, <2>3 DEF EnsureStack
<1>9. ASSUME NEW c \in Clients, ClearStack(c) PROVE Reported'
  <2>1. call[c].pc = "clear" /\ stream' = stream /\ Goto(c, "result")
    BY <1>9 DEF ClearStack
  <2> QED
    BY <2>1, GotoEffect, ReportedKept DEF Others
<1>10. ASSUME NEW c \in Clients, StartOperation(c) PROVE Reported'
  <2>1. /\ call[c].pc = "act" /\ Goto(c, "run")
        /\ stream' = [stream EXCEPT ![c] = [NoStream EXCEPT !.forwarder = "waiting"]]
    BY <1>10 DEF StartOperation
  <2>2. Accounted(stream'[c]) /\ \A d \in Clients \ {c} : stream'[d] = stream[d]
    BY <2>1, FreshAccounted DEF TypeOK
  <2>3. ~reply'[c].failed
    BY <2>1, GotoEffect DEF Reported
  <2> QED
    BY <2>1, <2>2, <2>3, GotoEffect, ReportedChange DEF Others
<1>11. ASSUME NEW c \in Clients, EngineEvent(c) PROVE Reported'
  <2>1. call[c].pc = "run" /\ stream[c].forwarder = "waiting" /\ UNCHANGED <<call, reply>>
    BY <1>11 DEF EngineEvent
  <2>2. PICK e \in Events :
         stream' = [stream EXCEPT ![c].forwarder = "holding", ![c].event = e, ![c].sent = TRUE,
                     ![c].sentErrs = IF e \in {"error", "long error"} THEN @ + 1 ELSE @,
                     ![c].sentStderr = IF e = "info#err" THEN @ + 1 ELSE @]
    BY <1>11 DEF EngineEvent
  <2> DEFINE a == IF e \in Errors THEN stream[c].sentErrs + 1 ELSE stream[c].sentErrs
             b == IF e = "info#err" THEN stream[c].sentStderr + 1 ELSE stream[c].sentStderr
             k == [stream[c] EXCEPT !.forwarder = "holding", !.event = e, !.sent = TRUE,
                                    !.sentErrs = a, !.sentStderr = b]
  <2>3. stream' = [stream EXCEPT ![c] = k]
    BY <2>2 DEF TypeOK, Streams, Errors
  <2>4. stream'[c] = k /\ \A d \in Clients \ {c} : stream'[d] = stream[d]
    BY <2>3 DEF TypeOK
  <2>5. /\ k.forwarder = "holding" /\ k.event = e /\ k.errs = stream[c].errs
        /\ k.stderr = stream[c].stderr /\ k.sentErrs = a /\ k.sentStderr = b
    BY DEF TypeOK, Streams
  <2>6. Accounted(stream[c]) /\ stream[c] \in Streams /\ ~reply[c].failed
    BY <2>1 DEF Reported, TypeOK
  <2> HIDE DEF k
  <2>7. Accounted(k)
    BY <2>1, <2>5, <2>6, SentAccounted
  <2> QED
    BY <2>1, <2>4, <2>6, <2>7, ReportedChange
<1>12. ASSUME NEW c \in Clients, Forward(c) PROVE Reported'
  <2>1. /\ stream[c].forwarder = "holding" /\ UNCHANGED <<call, reply>>
        /\ stream' = [stream EXCEPT ![c] =
                       [Observe(stream[c]) EXCEPT !.forwarder = "waiting", !.event = "none"]]
    BY <1>12 DEF Forward
  <2>2. \A d \in Clients \ {c} : stream'[d] = stream[d]
    BY <2>1 DEF TypeOK
  <2>3. stream'[c] = [Observe(stream[c]) EXCEPT !.forwarder = "waiting", !.event = "none"]
    BY <2>1 DEF TypeOK
  <2>4. call'[c].pc \in {"run", "drain"} => Accounted(stream'[c])
    BY <2>1, <2>3, ObservedAccounted DEF Reported, TypeOK
  <2>5. ~reply[c].failed
    BY <2>1 DEF Reported
  <2> QED
    BY <2>1, <2>2, <2>4, <2>5, ReportedChange
<1>13. ASSUME NEW c \in Clients, ForwarderStops(c) PROVE Reported'
  <2>1. /\ stream[c].forwarder = "waiting" /\ UNCHANGED <<call, reply>>
        /\ stream' = [stream EXCEPT ![c].forwarder = "done"]
    BY <1>13 DEF ForwarderStops
  <2>2. /\ \A d \in Clients \ {c} : stream'[d] = stream[d]
        /\ stream'[c] = [stream[c] EXCEPT !.forwarder = "done"]
    BY <2>1 DEF TypeOK
  <2>3. call'[c].pc \in {"run", "drain"} => Accounted(stream'[c])
    BY <2>1, <2>2, StoppedAccounted DEF Reported, TypeOK
  <2>4. ~reply[c].failed
    BY <2>1 DEF Reported
  <2> QED
    BY <2>1, <2>2, <2>3, <2>4, ReportedChange
<1>14. ASSUME NEW c \in Clients, OperationFails(c) PROVE Reported'
  <2>1. call[c].pc = "run" /\ Goto(c, "drain")
    BY <1>14 DEF OperationFails
  <2>2. PICK ran \in BOOLEAN : stream' = [stream EXCEPT ![c].closed = ran, ![c].stop = TRUE]
    BY <1>14 DEF OperationFails
  <2>3. \A d \in Clients \ {c} : stream'[d] = stream[d]
    BY <2>2 DEF TypeOK
  <2>4. stream'[c] = [stream[c] EXCEPT !.closed = ran, !.stop = TRUE]
    BY <2>2 DEF TypeOK, Streams
  <2>5. Accounted(stream'[c])
    <3>1. Accounted(stream[c]) /\ stream[c] \in Streams
      BY <2>1 DEF Reported, TypeOK
    <3>2. Accounted([stream[c] EXCEPT !.closed = ran, !.stop = TRUE])
      BY <3>1, ClosedAccounted
    <3> QED
      BY <2>4, <3>2
  <2>6. ~reply'[c].failed
    BY <2>1, GotoEffect DEF Reported
  <2> QED
    BY <2>1, <2>3, <2>5, <2>6, GotoEffect, ReportedChange DEF Others
<1>15. ASSUME NEW c \in Clients, OperationSucceeds(c) PROVE Reported'
  <2>1. call[c].pc = "run" /\ \E pc \in {"clear", "result"} : Goto(c, pc)
    BY <1>15 DEF OperationSucceeds
  <2>2. \A d \in Clients \ {c} : stream'[d] = stream[d]
    BY <1>15 DEF OperationSucceeds, TypeOK
  <2>3. ~reply'[c].failed /\ call'[c].pc \notin {"run", "drain"}
    BY <2>1, GotoEffect DEF Reported
  <2> QED
    BY <2>1, <2>2, <2>3, GotoEffect, ReportedChange DEF Others
<1>16. ASSUME NEW c \in Clients, ReturnFailure(c) PROVE Reported'
  <2>1. /\ call[c].pc = "drain" /\ stream[c].forwarder = "done" /\ stream' = stream
        /\ ReturnWith(c, FALSE, FailureMessage(stream[c]))
    BY <1>16 DEF ReturnFailure
  <2>2. call'[c].pc = "idle" /\ reply'[c] = FailureMessage(stream[c]) /\ Others(c)
    BY <2>1, ReturnEffect
  <2> SUFFICES ASSUME NEW d \in Clients
               PROVE  /\ call'[d].pc \in {"run", "drain"} => Accounted(stream[d])
                      /\ call'[d].pc # "idle" => ~reply'[d].failed
                      /\ reply'[d].failed =>
                           /\ stream[d].forwarder \in {"none", "done"}
                           /\ Accounted(stream[d])
                           /\ reply'[d] = FailureMessage(stream[d])
    BY <2>1 DEF Reported, Accounted, Held, FailureMessage
  <2>3. CASE d = c
    BY <2>1, <2>2, <2>3 DEF Reported
  <2>4. CASE d # c
    BY <2>2, <2>4 DEF Reported, Others
  <2> QED
    BY <2>3, <2>4
<1> QED
  BY <1>1, <1>2, <1>3, <1>4, <1>5, <1>6, <1>7, <1>8, <1>9, <1>10, <1>11, <1>12, <1>13, <1>14,
     <1>15, <1>16
     DEF Next, Serve, SelectStack, Goroutine, Up, Destroy, Operation

(* The message of a failed operation accounts for every error diagnostic   *)
(* that the engine sent, whatever the interleaving of the engine, the      *)
(* forwarding goroutine and the handler.                                   *)
THEOREM ReportsFailure == Spec => []FailureReported
<1>1. Init => Reported
  BY DEF Init, Reported, NoCall, NoMessage
<1>2. TypeOK /\ Reported /\ [Next]_vars => Reported'
  BY ReportedStep
<1>3. TypeOK /\ Reported => FailureReported
  <2> SUFFICES ASSUME TypeOK, Reported, NEW c \in Clients, reply[c].failed
               PROVE  LET s == stream[c] IN
                      /\ reply[c].shown <= MaxDiagnostics
                      /\ IF s.sentErrs > 0
                           THEN reply[c].about = "errs" /\ reply[c].shown + reply[c].omitted = s.sentErrs
                           ELSE /\ reply[c].shown + reply[c].omitted = s.sentStderr
                                /\ reply[c].about = IF s.sentStderr > 0 THEN "stderr" ELSE "none"
    BY DEF FailureReported
  <2> DEFINE s == stream[c]
  <2>1. Accounted(s) /\ s.forwarder \in {"none", "done"} /\ reply[c] = FailureMessage(s) /\ s \in Streams
    BY DEF Reported, TypeOK
  <2>2. s.errs.lines + s.errs.omitted = s.sentErrs /\ s.stderr.lines + s.stderr.omitted = s.sentStderr
    BY <2>1, StreamType DEF Accounted, Held
  <2>3. \A l \in Lines : l = NoLines <=> l.lines + l.omitted = 0
    <3>1. SUFFICES ASSUME NEW l \in Lines PROVE l = NoLines <=> l.lines + l.omitted = 0
      OBVIOUS
    <3>2. l.lines \in Nat /\ l.omitted \in Nat /\ l = [lines |-> l.lines, omitted |-> l.omitted]
      BY DEF Lines
    <3>3. l.lines + l.omitted = 0 <=> l.lines = 0 /\ l.omitted = 0
      BY <3>2
    <3> QED
      BY <3>2, <3>3 DEF NoLines
  <2>4. (s.errs = NoLines <=> s.sentErrs = 0) /\ (s.stderr = NoLines <=> s.sentStderr = 0)
    BY <2>1, <2>2, <2>3, StreamType
  <2>5. s.sentErrs \in Nat /\ s.sentStderr \in Nat
    BY <2>1, StreamType
  <2>6. s.errs.lines <= MaxDiagnostics /\ s.stderr.lines <= MaxDiagnostics
    BY <2>1 DEF Accounted
  <2>7. CASE s.sentErrs > 0
    <3>1. s.errs # NoLines
      BY <2>4, <2>5, <2>7
    <3>2. reply[c].about = "errs" /\ reply[c].shown = s.errs.lines /\ reply[c].omitted = s.errs.omitted
      BY <2>1, <3>1 DEF FailureMessage
    <3> QED
      BY <2>2, <2>6, <2>7, <3>2
  <2>8. CASE ~(s.sentErrs > 0)
    <3>1. s.errs = NoLines
      BY <2>4, <2>5, <2>8
    <3>2. reply[c].shown = s.stderr.lines /\ reply[c].omitted = s.stderr.omitted
      BY <2>1, <3>1 DEF FailureMessage
    <3>3. reply[c].about = IF s.sentStderr > 0 THEN "stderr" ELSE "none"
      <4>1. s.sentStderr > 0 <=> s.stderr # NoLines
        BY <2>4, <2>5
      <4>2. reply[c].about = IF s.stderr # NoLines THEN "stderr" ELSE "none"
        BY <2>1, <3>1 DEF FailureMessage
      <4> QED
        BY <4>1, <4>2
    <3> QED
      BY <2>2, <2>6, <2>8, <3>2, <3>3
  <2> QED
    BY <2>7, <2>8
<1> QED
  BY <1>1, <1>2, <1>3, TypeCorrect, PTL DEF Spec

=============================================================================
