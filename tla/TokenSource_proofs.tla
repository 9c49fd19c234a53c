-------------------------- MODULE TokenSource_proofs --------------------------
(***************************************************************************)
(* Proofs about the token source and the agent's authentication: for any   *)
(* number of callers, tokens and sources, and any lifetimes.               *)
(***************************************************************************)
EXTENDS TokenSource, TLAPS

-----------------------------------------------------------------------------
(* Type correctness.                                                       *)

\* A caller that is connected has a source, and one that stores a token, sends
\* it or sees it rejected has one.
Connected ==
    \A p \in Callers :
        /\ conn[p].pc # "closed" => conn[p].source \in SourceId
        /\ conn[p].pc \in {"store", "sent", "reviewed", "rejected"} => conn[p].token \in TokenId

TypeInv == TypeOK /\ Connected

LEMMA InitType == Init => TypeInv
<1> SUFFICES ASSUME Init PROVE TypeInv
  OBVIOUS
<1>1. NewSource \in Sources
  BY DEF NewSource, Sources
<1>2. Closed \in Connections
  BY DEF Closed, Connections
<1>3. NoReview \in Reviews
  BY DEF NoReview, Reviews
<1>4. TypeOK
  BY <1>1, <1>2, <1>3, ConstantAssumption DEF Init, TypeOK
<1>5. Connected
  BY DEF Init, Connected, Closed
<1> QED
  BY <1>4, <1>5 DEF TypeInv

\* The types of what one caller has and sees.
LEMMA CallerType ==
    ASSUME TypeInv, NEW p \in Callers
    PROVE  /\ conn[p] \in Connections
           /\ conn[p].pc # "closed" => /\ conn[p].source \in SourceId
                                       /\ source[conn[p].source] \in Sources
           /\ conn[p].pc \in {"store", "sent", "reviewed", "rejected"} => conn[p].token \in TokenId
BY DEF TypeInv, TypeOK, Connected

\* A step that changes the connection of one caller to a typed one.
LEMMA ConnType ==
    ASSUME TypeInv, NEW p \in Callers, NEW c \in Connections,
           conn' = [conn EXCEPT ![p] = c],
           c.pc # "closed" => c.source \in SourceId,
           c.pc \in {"store", "sent", "reviewed", "rejected"} => c.token \in TokenId
    PROVE  conn' \in [Callers -> Connections] /\ Connected'
BY DEF TypeInv, TypeOK, Connected

LEMMA HandType ==
    ASSUME TypeInv, NEW p \in Callers, NEW i \in TokenId, conn[p].pc # "closed", Hand(p, i)
    PROVE  conn' \in [Callers -> Connections] /\ Connected'
<1> DEFINE c == [conn[p] EXCEPT !.token = i, !.pc = "sent"]
<1>1. c \in Connections /\ c.source = conn[p].source /\ c.pc = "sent" /\ c.token = i
  BY CallerType DEF Connections
<1>2. conn' = [conn EXCEPT ![p] = c]
  BY CallerType DEF Hand, TypeInv, TypeOK, Connections
<1> HIDE DEF c
<1> QED
  BY <1>1, <1>2, CallerType, ConnType

\* A step to another pc, without a token to send.
LEMMA GotoType ==
    ASSUME TypeInv, NEW p \in Callers, conn[p].pc # "closed",
           NEW pc \in {"open", "token", "lock", "create", "sent", "reviewed", "rejected"},
           pc \in {"sent", "reviewed", "rejected"} => conn[p].token \in TokenId,
           conn' = [conn EXCEPT ![p].pc = pc]
    PROVE  conn' \in [Callers -> Connections] /\ Connected'
<1> DEFINE c == [conn[p] EXCEPT !.pc = pc]
<1>1. c \in Connections /\ c.source = conn[p].source /\ c.pc = pc /\ c.token = conn[p].token
  BY CallerType DEF Connections
<1>2. conn' = [conn EXCEPT ![p] = c]
  BY CallerType DEF TypeInv, TypeOK, Connections
<1> HIDE DEF c
<1> QED
  BY <1>1, <1>2, CallerType, ConnType

LEMMA CloseType ==
    ASSUME TypeInv, NEW p \in Callers, conn' = [conn EXCEPT ![p] = Closed]
    PROVE  conn' \in [Callers -> Connections] /\ Connected'
BY ConnType DEF Closed, Connections

LEMMA SourceChange ==
    ASSUME TypeInv, NEW i \in SourceId, NEW s \in Sources, source' = [source EXCEPT ![i] = s]
    PROVE  source' \in [SourceId -> Sources]
BY DEF TypeInv, TypeOK

LEMMA TypeStep == TypeInv /\ [Next]_vars => TypeInv'
<1> SUFFICES ASSUME TypeInv, [Next]_vars PROVE TypeInv'
  OBVIOUS
<1> USE DEF TypeInv
<1>1. CASE UNCHANGED vars
  BY <1>1 DEF vars, tokenVars, clientVars, agentVars, rbacVars, TypeOK, Connected
<1>2. CASE Tick
  <2>1. now' \in Nat /\ lastPermitted' \in Nat
    BY <1>2 DEF Tick, TypeOK
  <2> QED
    BY <1>2, <2>1 DEF Tick, TypeOK, Connected, tokenVars, clientVars, agentVars
<1>3. CASE RevokeRights
  BY <1>3 DEF RevokeRights, TypeOK, Connected, tokenVars, clientVars, agentVars
<1>4. CASE Prune
  BY <1>4 DEF Prune, TypeOK, Connected, tokenVars, agentVars, rbacVars
<1>5. ASSUME NEW p \in Callers, Caller(p) PROVE TypeInv'
  <2> USE CallerType
  <2> DEFINE src == conn[p].source
  <2>1. CASE Connect(p)
    <3> DEFINE s == IF entry.source = None THEN entry.made + 1 ELSE entry.source
               c == [Closed EXCEPT !.pc = "open", !.source = s]
    <3>0. entry.source \in SourceId \cup {None} /\ entry.made \in 0..MaxSources /\ MaxSources \in Nat
      BY ConstantAssumption DEF TypeOK
    <3>1. s \in SourceId
      <4>1. CASE entry.source = None
        <5>1. entry.made < MaxSources
          BY <2>1, <4>1 DEF Connect
        <5> QED
          BY <3>0, <4>1, <5>1 DEF SourceId
      <4>2. CASE entry.source # None
        BY <3>0, <4>2
      <4> QED
        BY <4>1, <4>2
    <3>2. entry' \in [source : SourceId \cup {None}, made : 0..MaxSources, lastUsed : Nat]
      BY <2>1, <3>1 DEF Connect, TypeOK, SourceId
    <3>3. c \in Connections /\ c.source = s /\ c.pc = "open"
      BY <3>1 DEF Closed, Connections
    <3>4. conn' = [conn EXCEPT ![p] = c]
      BY <2>1 DEF Connect
    <3> HIDE DEF s, c
    <3>5. conn' \in [Callers -> Connections] /\ Connected'
      BY <3>1, <3>3, <3>4, ConnType
    <3> QED
      BY <2>1, <3>2, <3>5 DEF Connect, TypeOK, tokenVars, agentVars, rbacVars
  <2>2. CASE Close(p)
    BY <2>2, CloseType DEF Close, TypeOK, tokenVars, agentVars, rbacVars
  <2>3. CASE Call(p)
    <3>1. CASE Valid(conn[p].token)
      <4>1. conn[p].token \in TokenId
        BY <3>1 DEF Valid, Connections
      <4>2. conn' \in [Callers -> Connections] /\ Connected'
        BY <2>3, <3>1, <4>1, GotoType DEF Call
      <4> QED
        BY <2>3, <4>2 DEF Call, TypeOK, tokenVars, agentVars, rbacVars
    <3>2. CASE ~Valid(conn[p].token)
      <4> DEFINE c == [conn[p] EXCEPT !.pc = "token", !.start = now]
      <4>1. c \in Connections /\ c.source = src /\ c.pc = "token"
        BY DEF Connections, TypeOK
      <4>2. conn' = [conn EXCEPT ![p] = c]
        BY <2>3, <3>2 DEF Call, Connections, TypeOK
      <4>3. src \in SourceId
        BY <2>3 DEF Call
      <4> HIDE DEF c
      <4>4. conn' \in [Callers -> Connections] /\ Connected'
        BY <4>1, <4>2, <4>3, ConnType
      <4> QED
        BY <2>3, <4>4 DEF Call, TypeOK, tokenVars, agentVars, rbacVars
    <3> QED
      BY <3>1, <3>2
  <2>4. CASE FastPath(p)
    <3>1. conn' \in [Callers -> Connections] /\ Connected'
      <4>1. CASE Fresh(source[src].token, conn[p].start)
        <5>1. source[src].token \in TokenId
          BY <2>4, <4>1 DEF FastPath, Fresh, Sources
        <5> QED
          BY <2>4, <4>1, <5>1, HandType DEF FastPath
      <4>2. CASE ~Fresh(source[src].token, conn[p].start)
        BY <2>4, <4>2, GotoType DEF FastPath
      <4> QED
        BY <4>1, <4>2
    <3> QED
      BY <2>4, <3>1 DEF FastPath, TypeOK, tokenVars, agentVars, rbacVars
  <2>5. CASE SlowPath(p)
    <3>1. conn' \in [Callers -> Connections] /\ Connected' /\ source' \in [SourceId -> Sources]
      <4>1. CASE Fresh(source[src].token, conn[p].start)
        <5>1. source[src].token \in TokenId
          BY <2>5, <4>1 DEF SlowPath, Fresh, Sources
        <5> QED
          BY <2>5, <4>1, <5>1, HandType DEF SlowPath, TypeOK
      <4>2. CASE ~Fresh(source[src].token, conn[p].start)
        <5> DEFINE s == [source[src] EXCEPT !.lock = p]
        <5>1. src \in SourceId /\ s \in Sources
          BY <2>5 DEF SlowPath, Sources
        <5>2. source' = [source EXCEPT ![src] = s]
          BY <2>5, <4>2, <5>1 DEF SlowPath, TypeOK, Sources
        <5> HIDE DEF s
        <5> QED
          BY <2>5, <4>2, <5>1, <5>2, GotoType, SourceChange DEF SlowPath
      <4> QED
        BY <4>1, <4>2
    <3> QED
      BY <2>5, <3>1 DEF SlowPath, TypeOK, tokenVars, agentVars, rbacVars
  <2>6. CASE CreateToken(p)
    <3> DEFINE c == [conn[p] EXCEPT !.pc = "store", !.token = issued + 1]
    <3>0. issued \in 0..MaxTokens /\ MaxTokens \in Nat /\ issued < MaxTokens
      BY <2>6, ConstantAssumption DEF CreateToken, TypeOK
    <3>1. issued + 1 \in TokenId /\ issued' \in 0..MaxTokens /\ src \in SourceId
      <4>1. issued' = issued + 1 /\ src \in SourceId
        BY <2>6 DEF CreateToken
      <4> QED
        BY <3>0, <4>1 DEF TokenId
    <3>2. expiry' \in [TokenId -> Nat]
      BY <2>6, <3>1, ConstantAssumption DEF CreateToken, TypeOK
    <3>3. c \in Connections /\ c.source = src /\ c.pc = "store" /\ c.token = issued + 1
      BY <3>1 DEF Connections
    <3>4. conn' = [conn EXCEPT ![p] = c]
      BY <2>6 DEF CreateToken, TypeOK, Connections
    <3> HIDE DEF c
    <3>5. conn' \in [Callers -> Connections] /\ Connected'
      BY <3>1, <3>3, <3>4, ConnType
    <3> QED
      BY <2>6, <3>1, <3>2, <3>5 DEF CreateToken, TypeOK, agentVars, rbacVars
  <2>7. CASE StoreToken(p)
    <3> DEFINE s == [token |-> conn[p].token, t |-> now, lock |-> None]
    <3>1. src \in SourceId /\ s \in Sources /\ conn[p].token \in TokenId
      BY <2>7 DEF StoreToken, Sources, TypeOK
    <3>2. source' = [source EXCEPT ![src] = s]
      BY <2>7 DEF StoreToken
    <3> HIDE DEF s
    <3>3. conn' \in [Callers -> Connections] /\ Connected' /\ source' \in [SourceId -> Sources]
      BY <2>7, <3>1, <3>2, HandType, SourceChange DEF StoreToken
    <3> QED
      BY <2>7, <3>3 DEF StoreToken, TypeOK, tokenVars, agentVars, rbacVars
  <2>8. CASE CreateTokenFails(p)
    <3> DEFINE s == [source[src] EXCEPT !.lock = None]
    <3>1. src \in SourceId /\ s \in Sources
      BY <2>8 DEF CreateTokenFails, Sources
    <3>2. source' = [source EXCEPT ![src] = s]
      BY <2>8, <3>1 DEF CreateTokenFails, TypeOK, Sources
    <3> HIDE DEF s
    <3>3. source' \in [SourceId -> Sources]
      BY <3>1, <3>2, SourceChange
    <3>4. conn' \in [Callers -> Connections] /\ Connected'
      <4>1. CASE source[src].token = None
        BY <2>8, <4>1, CloseType DEF CreateTokenFails
      <4>2. CASE source[src].token # None
        <5>1. source[src].token \in TokenId
          BY <2>8, <4>2 DEF CreateTokenFails, Sources
        <5> QED
          BY <2>8, <4>2, <5>1, HandType DEF CreateTokenFails
      <4> QED
        BY <4>1, <4>2
    <3> QED
      BY <2>8, <3>3, <3>4 DEF CreateTokenFails, TypeOK, tokenVars, agentVars, rbacVars
  <2>9. CASE ResetTokenOlderThan(p)
    <3>1. src \in SourceId /\ NewSource \in Sources
      BY <2>9 DEF ResetTokenOlderThan, NewSource, Sources
    <3>2. source' \in [SourceId -> Sources]
      <4>1. source' = [source EXCEPT ![src] = NewSource] \/ source' = source
        BY <2>9 DEF ResetTokenOlderThan
      <4> QED
        BY <3>1, <4>1, SourceChange DEF TypeOK
    <3> QED
      BY <2>9, <3>2, CloseType DEF ResetTokenOlderThan, TypeOK, tokenVars, agentVars, rbacVars
  <2>10. CASE AuthenticateToken(p)
    <3> DEFINE i == conn[p].token
    <3>1. i \in TokenId
      BY <2>10 DEF AuthenticateToken
    <3>2. TokenReview(i) \in Reviews
      BY <3>1 DEF TypeOK, Reviews, TokenReview
    <3>3. reviews' \in [TokenId -> Reviews]
      BY <2>10, <3>2 DEF AuthenticateToken, TypeOK
    <3>4. conn' \in [Callers -> Connections] /\ Connected'
      BY <2>10, GotoType DEF AuthenticateToken, Goes
    <3> QED
      BY <2>10, <3>3, <3>4 DEF AuthenticateToken, TypeOK, tokenVars, rbacVars
  <2>12. CASE Authorize(p)
    <3>1. access' \in Reviews
      BY <2>12 DEF Authorize, TypeOK, Reviews, AccessReview
    <3>2. conn' \in [Callers -> Connections] /\ Connected'
      BY <2>12, GotoType DEF Authorize, Goes
    <3> QED
      BY <2>12, <3>1, <3>2 DEF Authorize, TypeOK, tokenVars, rbacVars
  <2>11. CASE ReviewFails(p)
    <3>1. conn' \in [Callers -> Connections] /\ Connected'
      BY <2>11, GotoType DEF ReviewFails, Goes
    <3> QED
      BY <2>11, <3>1 DEF ReviewFails, TypeOK, tokenVars, agentVars, rbacVars
  <2> QED
    BY <1>5, <2>1, <2>2, <2>3, <2>4, <2>5, <2>6, <2>7, <2>8, <2>9, <2>10, <2>11, <2>12 DEF Caller
<1> QED
  BY <1>1, <1>2, <1>3, <1>4, <1>5 DEF Next

LEMMA TypeInvariant == Spec => []TypeInv
BY InitType, TypeStep, PTL DEF Spec

(* Every reachable state of the token source and of the agent's caches is  *)
(* well typed.                                                             *)
THEOREM TypeCorrect == Spec => []TypeOK
<1>1. TypeInv => TypeOK
  BY DEF TypeInv
<1> QED
  BY <1>1, TypeInvariant, PTL

-----------------------------------------------------------------------------
(* The lock.                                                               *)

\* What a caller's step does to connections, one by one.
Others(p) == \A q \in Callers \ {p} : conn'[q] = conn[q]

LEMMA AuthenticateTokenEffect ==
    ASSUME TypeInv, NEW p \in Callers, AuthenticateToken(p)
    PROVE  /\ now' = now /\ issued' = issued /\ expiry' = expiry /\ source' = source
           /\ Others(p) /\ conn[p].pc = "sent" /\ conn'[p].pc \in {"reviewed", "rejected"}
           /\ conn'[p].source = conn[p].source /\ conn'[p].start = conn[p].start
           /\ conn'[p].token = conn[p].token /\ conn[p].token \in TokenId
           /\ \A i \in TokenId : i # conn[p].token => reviews'[i] = reviews[i]
<1>1. conn[p].pc = "sent" /\ conn[p].token \in TokenId
  BY CallerType DEF AuthenticateToken
<1>2. conn' = [conn EXCEPT ![p].pc = "reviewed"] \/ conn' = [conn EXCEPT ![p].pc = "rejected"]
  BY DEF AuthenticateToken, Goes
<1>3. \A i \in TokenId : i # conn[p].token => reviews'[i] = reviews[i]
  BY DEF AuthenticateToken, TypeInv, TypeOK
<1> QED
  BY <1>1, <1>2, <1>3 DEF AuthenticateToken, tokenVars, Others, TypeInv, TypeOK, Connections

LEMMA AuthorizeEffect ==
    ASSUME TypeInv, NEW p \in Callers, Authorize(p)
    PROVE  /\ now' = now /\ issued' = issued /\ expiry' = expiry /\ source' = source
           /\ reviews' = reviews
           /\ Others(p) /\ conn[p].pc = "reviewed" /\ conn'[p].pc \in {"open", "rejected"}
           /\ conn'[p].source = conn[p].source /\ conn'[p].start = conn[p].start
           /\ conn'[p].token = conn[p].token
<1>1. conn' = [conn EXCEPT ![p].pc = "open"] \/ conn' = [conn EXCEPT ![p].pc = "rejected"]
  BY DEF Authorize, Goes
<1> QED
  BY <1>1 DEF Authorize, tokenVars, Others, TypeInv, TypeOK, Connections

LEMMA LockStep == TypeInv /\ LockHeldByFetcher /\ [Next]_vars => LockHeldByFetcher'
<1> SUFFICES ASSUME TypeInv, LockHeldByFetcher, [Next]_vars PROVE LockHeldByFetcher'
  OBVIOUS
<1> USE DEF LockHeldByFetcher
<1>1. CASE UNCHANGED vars \/ Tick \/ RevokeRights \/ Prune
  BY <1>1 DEF vars, clientVars, Tick, RevokeRights, Prune
<1>2. ASSUME NEW p \in Callers, Caller(p) PROVE LockHeldByFetcher'
  <2>1. CASE Connect(p)
    BY <2>1, CallerType, ConstantAssumption DEF Connect, Closed, TypeInv, TypeOK, Sources, Connections
  <2>2. CASE Close(p)
    BY <2>2, CallerType, ConstantAssumption DEF Close, Closed, TypeInv, TypeOK, Sources, Connections
  <2>3. CASE Call(p)
    BY <2>3, CallerType, ConstantAssumption DEF Call, TypeInv, TypeOK, Sources, Connections
  <2>4. CASE FastPath(p)
    <3>1. \/ Hand(p, source[conn[p].source].token)
          \/ conn' = [conn EXCEPT ![p].pc = "lock"]
      BY <2>4 DEF FastPath
    <3>2. /\ source' = source /\ conn[p].pc = "token" /\ conn'[p].pc \in {"sent", "lock"}
          /\ \A q \in Callers \ {p} : conn'[q] = conn[q]
      BY <2>4, <3>1 DEF FastPath, Hand, TypeInv, TypeOK, Connections
    <3> QED
      BY <3>2
  <2>5. CASE SlowPath(p)
    <3>1. CASE Fresh(source[conn[p].source].token, conn[p].start)
      BY <2>5, <3>1, CallerType DEF SlowPath, Hand, TypeInv, TypeOK, Sources, Connections
    <3>2. CASE ~Fresh(source[conn[p].source].token, conn[p].start)
      <4>1. /\ conn[p].source \in SourceId /\ source[conn[p].source].lock = None
            /\ source' = [source EXCEPT ![conn[p].source].lock = p]
            /\ conn' = [conn EXCEPT ![p].pc = "create"]
        BY <2>5, <3>2, CallerType DEF SlowPath
      <4> QED
        BY <4>1, ConstantAssumption DEF TypeInv, TypeOK, Sources, Connections
    <3> QED
      BY <3>1, <3>2
  <2>6. CASE CreateToken(p)
    BY <2>6, CallerType, ConstantAssumption DEF CreateToken, TypeInv, TypeOK, Sources, Connections
  <2>7. CASE StoreToken(p)
    BY <2>7, CallerType, ConstantAssumption DEF StoreToken, Hand, TypeInv, TypeOK, Sources, Connections
  <2>8. CASE CreateTokenFails(p)
    BY <2>8, CallerType, ConstantAssumption DEF CreateTokenFails, Hand, Closed, TypeInv, TypeOK, Sources, Connections
  <2>9. CASE ResetTokenOlderThan(p)
    BY <2>9, CallerType, ConstantAssumption DEF ResetTokenOlderThan, Closed, NewSource, TypeInv, TypeOK, Sources, Connections
  <2>10. CASE AuthenticateToken(p)
    BY <2>10, AuthenticateTokenEffect DEF Others, TypeInv, TypeOK
  <2>12. CASE Authorize(p)
    BY <2>12, AuthorizeEffect DEF Others, TypeInv, TypeOK
  <2>11. CASE ReviewFails(p)
    BY <2>11, CallerType, ConstantAssumption DEF ReviewFails, Goes, TypeInv, TypeOK, Sources, Connections
  <2> QED
    BY <1>2, <2>1, <2>2, <2>3, <2>4, <2>5, <2>6, <2>7, <2>8, <2>9, <2>10, <2>11, <2>12 DEF Caller
<1> QED
  BY <1>1, <1>2 DEF Next

LEMMA InitLock == Init => LockHeldByFetcher
<1> SUFFICES ASSUME Init, NEW s \in SourceId, NEW p \in Callers
             PROVE  source[s].lock # p /\ conn[p].pc = "closed"
  BY DEF LockHeldByFetcher
<1> QED
  BY ConstantAssumption DEF Init, NewSource, Closed

(* However many callers rotate a token at once, and whatever way their     *)
(* requests end, the lock of a token source is held by one of its callers, *)
(* who is fetching a token, or by nobody.                                  *)
THEOREM LockHeld == Spec => []LockHeldByFetcher
BY InitLock, LockStep, TypeInvariant, PTL DEF Spec

-----------------------------------------------------------------------------
(* What the callers know.                                                  *)

\* Tokens and reviews are of tokens that were issued, and no caller read a
\* time that has not come.
Issued ==
    /\ \A s \in SourceId : source[s].token # None => source[s].token <= issued
    /\ \A p \in Callers : conn[p].token # None => conn[p].token <= issued
    /\ \A i \in TokenId : reviews[i].known => i <= issued
    /\ \A p \in Callers : conn[p].start <= now

\* The fetcher found no token that was fresh, and the lock kept it so.
Due ==
    \A p \in Callers : conn[p].pc \in {"create", "store"} =>
        ~Fresh(source[conn[p].source].token, conn[p].start)

\* A caller's source has the caller's token, none, or one that was cached after
\* the caller asked.
Handed ==
    \A p \in Callers : conn[p].pc \in {"open", "sent", "reviewed", "rejected"} /\ conn[p].token # None =>
        \/ source[conn[p].source].t >= conn[p].start
        \/ source[conn[p].source].token \in {None, conn[p].token}


LEMMA CallEffect ==
    ASSUME TypeInv, NEW p \in Callers, Call(p)
    PROVE  /\ now' = now /\ issued' = issued /\ expiry' = expiry /\ source' = source /\ reviews' = reviews
           /\ Others(p) /\ conn[p].pc = "open"
           /\ conn'[p].source = conn[p].source /\ conn'[p].token = conn[p].token
           /\ \/ conn'[p].pc = "sent" /\ conn'[p].start = conn[p].start
              \/ conn'[p].pc = "token" /\ conn'[p].start = now
<1> SUFFICES \/ conn' = [conn EXCEPT ![p].pc = "sent"]
             \/ conn' = [conn EXCEPT ![p].pc = "token", ![p].start = now]
  BY DEF Others, Call, tokenVars, agentVars, TypeInv, TypeOK, Connections
<1> QED
  BY DEF Call

LEMMA FastPathEffect ==
    ASSUME TypeInv, NEW p \in Callers, FastPath(p)
    PROVE  /\ now' = now /\ issued' = issued /\ expiry' = expiry /\ source' = source /\ reviews' = reviews
           /\ Others(p) /\ conn[p].pc = "token"
           /\ conn'[p].source = conn[p].source /\ conn'[p].start = conn[p].start
           /\ \/ conn'[p].pc = "sent" /\ conn'[p].token = source[conn[p].source].token
              \/ conn'[p].pc = "lock" /\ conn'[p].token = conn[p].token
<1> SUFFICES \/ Hand(p, source[conn[p].source].token)
             \/ conn' = [conn EXCEPT ![p].pc = "lock"]
  BY DEF Others, Hand, FastPath, tokenVars, agentVars, TypeInv, TypeOK, Connections
<1> QED
  BY DEF FastPath

LEMMA SlowPathEffect ==
    ASSUME TypeInv, NEW p \in Callers, SlowPath(p)
    PROVE  LET s == conn[p].source IN
           /\ now' = now /\ issued' = issued /\ expiry' = expiry /\ reviews' = reviews
           /\ Others(p) /\ conn[p].pc = "lock" /\ source[s].lock = None
           /\ conn'[p].source = s /\ conn'[p].start = conn[p].start
           /\ \A r \in SourceId : source'[r].token = source[r].token /\ source'[r].t = source[r].t
           /\ \/ conn'[p].pc = "sent" /\ conn'[p].token = source[s].token
              \/ /\ conn'[p].pc = "create" /\ conn'[p].token = conn[p].token
                 /\ ~Fresh(source[s].token, conn[p].start)
<1> DEFINE s == conn[p].source
<1>1. CASE Fresh(source[s].token, conn[p].start)
  <2>1. Hand(p, source[s].token) /\ source' = source
    BY <1>1 DEF SlowPath
  <2> QED
    BY <2>1 DEF Others, Hand, SlowPath, tokenVars, agentVars, TypeInv, TypeOK, Connections
<1>2. CASE ~Fresh(source[s].token, conn[p].start)
  <2>1. /\ conn' = [conn EXCEPT ![p].pc = "create"]
        /\ source' = [source EXCEPT ![s].lock = p]
    BY <1>2 DEF SlowPath
  <2>2. \A r \in SourceId : source'[r].token = source[r].token /\ source'[r].t = source[r].t
    BY <2>1 DEF TypeInv, TypeOK, Sources
  <2> QED
    BY <1>2, <2>1, <2>2 DEF Others, SlowPath, tokenVars, agentVars, TypeInv, TypeOK, Connections
<1> QED
  BY <1>1, <1>2

LEMMA CreateTokenFailsEffect ==
    ASSUME TypeInv, NEW p \in Callers, CreateTokenFails(p)
    PROVE  LET s == conn[p].source IN
           /\ now' = now /\ issued' = issued /\ expiry' = expiry /\ reviews' = reviews
           /\ Others(p) /\ conn[p].pc = "create"
           /\ \A r \in SourceId : source'[r].token = source[r].token /\ source'[r].t = source[r].t
           /\ \/ conn'[p] = Closed
              \/ /\ conn'[p].pc = "sent" /\ conn'[p].token = source[s].token
                 /\ conn'[p].source = s /\ conn'[p].start = conn[p].start
<1> DEFINE s == conn[p].source
<1>1. \A r \in SourceId : source'[r].token = source[r].token /\ source'[r].t = source[r].t
  <2>1. source' = [source EXCEPT ![s].lock = None]
    BY DEF CreateTokenFails
  <2> QED
    BY <2>1 DEF TypeInv, TypeOK, Sources
<1>2. conn' = [conn EXCEPT ![p] = Closed] \/ Hand(p, source[s].token)
  BY DEF CreateTokenFails
<1> QED
  BY <1>1, <1>2 DEF Others, Hand, CreateTokenFails, tokenVars, agentVars, TypeInv, TypeOK, Connections

LEMMA IssuedStep ==
    ASSUME TypeInv, Issued, [Next]_vars PROVE Issued'
<1> USE DEF Issued
<1>1. CASE UNCHANGED vars \/ Tick \/ RevokeRights \/ Prune
  BY <1>1 DEF vars, clientVars, tokenVars, agentVars, rbacVars, Tick, RevokeRights, Prune, TypeInv, TypeOK, Sources, Connections
<1>2. ASSUME NEW p \in Callers, Caller(p) PROVE Issued'
  <2>1. CASE Connect(p)
    BY <2>1, CallerType, ConstantAssumption DEF Connect, Closed, tokenVars, agentVars, rbacVars, TypeInv, TypeOK, Sources, Connections
  <2>2. CASE Close(p)
    BY <2>2, CallerType, ConstantAssumption DEF Close, Closed, tokenVars, agentVars, rbacVars, TypeInv, TypeOK, Sources, Connections
  <2>3. CASE Call(p)
    <3>1. conn'[p].start <= now'
      BY <2>3, CallEffect DEF TypeInv, TypeOK
    <3> QED
      BY <2>3, <3>1, CallEffect DEF Others
  <2>4. CASE FastPath(p)
    <3>1. conn[p].source \in SourceId
      BY <2>4, FastPathEffect, CallerType
    <3> QED
      BY <3>1, <2>4, FastPathEffect DEF Others, TypeInv, TypeOK
  <2>5. CASE SlowPath(p)
    <3>1. conn[p].source \in SourceId
      BY <2>5, SlowPathEffect, CallerType
    <3> QED
      BY <3>1, <2>5, SlowPathEffect DEF Others, TypeInv, TypeOK
  <2>6. CASE CreateToken(p)
    BY <2>6, CallerType, ConstantAssumption DEF CreateToken, tokenVars, agentVars, rbacVars, TypeInv, TypeOK, Sources, Connections
  <2>7. CASE StoreToken(p)
    BY <2>7, CallerType, ConstantAssumption DEF StoreToken, Hand, tokenVars, agentVars, rbacVars, TypeInv, TypeOK, Sources, Connections
  <2>8. CASE CreateTokenFails(p)
    BY <2>8, CreateTokenFailsEffect, CallerType, ConstantAssumption, SMTT(20) DEF Others, Closed, TypeInv, TypeOK, Sources, Connections
  <2>9. CASE ResetTokenOlderThan(p)
    BY <2>9, CallerType, ConstantAssumption DEF ResetTokenOlderThan, Closed, NewSource, tokenVars, agentVars, rbacVars, TypeInv, TypeOK, Sources, Connections
  <2>10. CASE AuthenticateToken(p)
    <3>1. conn[p].token # None /\ conn[p].token \in TokenId
      BY <2>10, AuthenticateTokenEffect, ConstantAssumption DEF TokenId
    <3>2. conn[p].token <= issued
      BY <3>1
    <3> QED
      BY <3>1, <3>2, <2>10, AuthenticateTokenEffect DEF Others, TypeInv, TypeOK
  <2>12. CASE Authorize(p)
    BY <2>12, AuthorizeEffect DEF Others, TypeInv, TypeOK
  <2>11. CASE ReviewFails(p)
    BY <2>11, CallerType, ConstantAssumption DEF ReviewFails, Goes, tokenVars, agentVars, rbacVars, TypeInv, TypeOK, Sources, Connections
  <2> QED
    BY <1>2, <2>1, <2>2, <2>3, <2>4, <2>5, <2>6, <2>7, <2>8, <2>9, <2>10, <2>11, <2>12 DEF Caller
<1> QED
  BY <1>1, <1>2 DEF Next

LEMMA DueStep ==
    ASSUME TypeInv, LockHeldByFetcher, Issued, Due, [Next]_vars PROVE Due'
<1> USE DEF Due
<1>1. CASE UNCHANGED vars \/ Tick \/ RevokeRights \/ Prune
  BY <1>1 DEF vars, clientVars, tokenVars, agentVars, rbacVars, Tick, RevokeRights, Prune, TypeInv, TypeOK, Sources, Connections, LockHeldByFetcher, Issued, Fresh
<1>2. ASSUME NEW p \in Callers, Caller(p) PROVE Due'
  <2>1. CASE Connect(p)
    BY <2>1, CallerType, ConstantAssumption DEF Connect, Closed, tokenVars, agentVars, rbacVars, TypeInv, TypeOK, Sources, Connections, LockHeldByFetcher, Issued, Fresh
  <2>2. CASE Close(p)
    BY <2>2, CallerType, ConstantAssumption DEF Close, Closed, tokenVars, agentVars, rbacVars, TypeInv, TypeOK, Sources, Connections, LockHeldByFetcher, Issued, Fresh
  <2>3. CASE Call(p)
    BY <2>3, CallEffect, CallerType, ConstantAssumption, SMTT(20) DEF Others, Closed, TypeInv, TypeOK, Sources, Connections, LockHeldByFetcher, Fresh
  <2>4. CASE FastPath(p)
    BY <2>4, FastPathEffect, CallerType, ConstantAssumption DEF Others, Closed, TypeInv, TypeOK, Sources, Connections, LockHeldByFetcher, Fresh
  <2>5. CASE SlowPath(p)
    <3>1. \A q \in Callers : conn'[q].pc \in {"create", "store"} =>
            /\ conn'[q].source = conn[q].source /\ conn'[q].start = conn[q].start
            /\ conn[q].source \in SourceId
            /\ ~Fresh(source[conn[q].source].token, conn[q].start)
      BY <2>5, SlowPathEffect, CallerType DEF Others
    <3>2. \A r \in SourceId : source'[r].token = source[r].token
      BY <2>5, SlowPathEffect
    <3>3. expiry' = expiry
      BY <2>5, SlowPathEffect
    <3> QED
      BY <3>1, <3>2, <3>3 DEF Fresh
  <2>6. CASE CreateToken(p)
    BY <2>6, CallerType, ConstantAssumption DEF CreateToken, tokenVars, agentVars, rbacVars, TypeInv, TypeOK, Sources, Connections, LockHeldByFetcher, Issued, Fresh
  <2>7. CASE StoreToken(p)
    BY <2>7, CallerType, ConstantAssumption DEF StoreToken, Hand, tokenVars, agentVars, rbacVars, TypeInv, TypeOK, Sources, Connections, LockHeldByFetcher, Issued, Fresh
  <2>8. CASE CreateTokenFails(p)
    BY <2>8, CreateTokenFailsEffect, CallerType, ConstantAssumption DEF Others, Closed, TypeInv, TypeOK, Sources, Connections, LockHeldByFetcher, Fresh
  <2>9. CASE ResetTokenOlderThan(p)
    BY <2>9, CallerType, ConstantAssumption DEF ResetTokenOlderThan, Closed, NewSource, tokenVars, agentVars, rbacVars, TypeInv, TypeOK, Sources, Connections, LockHeldByFetcher, Issued, Fresh
  <2>10. CASE AuthenticateToken(p)
    BY <2>10, AuthenticateTokenEffect, CallerType, ConstantAssumption DEF Others, Closed, TypeInv, TypeOK, Sources, Connections, LockHeldByFetcher, Fresh
  <2>12. CASE Authorize(p)
    BY <2>12, AuthorizeEffect, CallerType, ConstantAssumption DEF Others, Closed, TypeInv, TypeOK, Sources, Connections, LockHeldByFetcher, Fresh
  <2>11. CASE ReviewFails(p)
    BY <2>11, CallerType, ConstantAssumption DEF ReviewFails, Goes, tokenVars, agentVars, rbacVars, TypeInv, TypeOK, Sources, Connections, LockHeldByFetcher, Issued, Fresh
  <2> QED
    BY <1>2, <2>1, <2>2, <2>3, <2>4, <2>5, <2>6, <2>7, <2>8, <2>9, <2>10, <2>11, <2>12 DEF Caller
<1> QED
  BY <1>1, <1>2 DEF Next

LEMMA HandedStep ==
    ASSUME TypeInv, LockHeldByFetcher, Issued, Handed, [Next]_vars PROVE Handed'
<1> USE DEF Handed
<1>1. CASE UNCHANGED vars \/ Tick \/ RevokeRights \/ Prune
  BY <1>1 DEF vars, clientVars, tokenVars, agentVars, rbacVars, Tick, RevokeRights, Prune, TypeInv, TypeOK, Sources, Connections, LockHeldByFetcher, Issued
<1>2. ASSUME NEW p \in Callers, Caller(p) PROVE Handed'
  <2>1. CASE Connect(p)
    BY <2>1, CallerType, ConstantAssumption DEF Connect, Closed, tokenVars, agentVars, rbacVars, TypeInv, TypeOK, Sources, Connections, LockHeldByFetcher, Issued
  <2>2. CASE Close(p)
    BY <2>2, CallerType, ConstantAssumption DEF Close, Closed, tokenVars, agentVars, rbacVars, TypeInv, TypeOK, Sources, Connections, LockHeldByFetcher, Issued
  <2>3. CASE Call(p)
    BY <2>3, CallEffect, CallerType, ConstantAssumption DEF Others, Closed, TypeInv, TypeOK, Sources, Connections
  <2>4. CASE FastPath(p)
    BY <2>4, FastPathEffect, CallerType, ConstantAssumption DEF Others, Closed, TypeInv, TypeOK, Sources, Connections
  <2>5. CASE SlowPath(p)
    BY <2>5, SlowPathEffect, CallerType, ConstantAssumption DEF Others, Closed, TypeInv, TypeOK, Sources, Connections
  <2>6. CASE CreateToken(p)
    BY <2>6, CallerType, ConstantAssumption DEF CreateToken, tokenVars, agentVars, rbacVars, TypeInv, TypeOK, Sources, Connections, LockHeldByFetcher, Issued
  <2>7. CASE StoreToken(p)
    BY <2>7, CallerType, ConstantAssumption DEF StoreToken, Hand, tokenVars, agentVars, rbacVars, TypeInv, TypeOK, Sources, Connections, LockHeldByFetcher, Issued
  <2>8. CASE CreateTokenFails(p)
    BY <2>8, CreateTokenFailsEffect, CallerType, ConstantAssumption DEF Others, Closed, TypeInv, TypeOK, Sources, Connections
  <2>9. CASE ResetTokenOlderThan(p)
    BY <2>9, CallerType, ConstantAssumption DEF ResetTokenOlderThan, Closed, NewSource, tokenVars, agentVars, rbacVars, TypeInv, TypeOK, Sources, Connections, LockHeldByFetcher, Issued
  <2>10. CASE AuthenticateToken(p)
    BY <2>10, AuthenticateTokenEffect, CallerType, ConstantAssumption, SMTT(20) DEF Others, Closed, TypeInv, TypeOK, Sources, Connections
  <2>12. CASE Authorize(p)
    BY <2>12, AuthorizeEffect, CallerType, ConstantAssumption, SMTT(20) DEF Others, Closed, TypeInv, TypeOK, Sources, Connections
  <2>11. CASE ReviewFails(p)
    BY <2>11, CallerType, ConstantAssumption DEF ReviewFails, Goes, tokenVars, agentVars, rbacVars, TypeInv, TypeOK, Sources, Connections, LockHeldByFetcher, Issued
  <2> QED
    BY <1>2, <2>1, <2>2, <2>3, <2>4, <2>5, <2>6, <2>7, <2>8, <2>9, <2>10, <2>11, <2>12 DEF Caller
<1> QED
  BY <1>1, <1>2 DEF Next

LEMMA InitFacts == Init => Issued /\ Due /\ Handed
BY ConstantAssumption DEF Init, Issued, Due, Handed, NewSource, Closed, NoReview

Facts == Issued /\ Due /\ Handed

LEMMA FactsInvariant == Spec => [](TypeInv /\ LockHeldByFetcher /\ Facts)
<1>1. TypeInv /\ LockHeldByFetcher /\ Facts /\ [Next]_vars => Facts'
  BY IssuedStep, DueStep, HandedStep DEF Facts
<1>2. Init => Facts
  BY InitFacts DEF Facts
<1> QED
  BY <1>1, <1>2, TypeInvariant, LockHeld, PTL DEF Spec

-----------------------------------------------------------------------------
(* The token source.                                                       *)

(* A reset after an unauthenticated response never throws away a token that *)
(* another caller fetched meanwhile, whatever the order of the fetches.     *)
THEOREM ResetSpares == Spec => ResetTakesTheRejected
<1> DEFINE Step == \A p \in Callers :
              (conn[p].pc = "rejected" /\ conn'[p].pc = "closed"
                 /\ source'[conn[p].source] # source[conn[p].source])
              => source[conn[p].source].token \in {None, conn[p].token}
<1>1. TypeInv /\ LockHeldByFetcher /\ Facts /\ [Next]_vars => [Step]_vars
  <2> SUFFICES ASSUME TypeInv, Facts, [Next]_vars, NEW p \in Callers,
                      conn[p].pc = "rejected", conn'[p].pc = "closed",
                      source'[conn[p].source] # source[conn[p].source]
               PROVE  source[conn[p].source].token \in {None, conn[p].token}
    OBVIOUS
  <2>1. source' # source
    OBVIOUS
  <2>2. PICK q \in Callers : SlowPath(q) \/ StoreToken(q) \/ CreateTokenFails(q)
                               \/ ResetTokenOlderThan(q)
    BY <2>1 DEF Next, Caller, vars, clientVars, Tick, RevokeRights, Prune, Connect, Close, Call,
                FastPath, CreateToken, AuthenticateToken, Authorize, ReviewFails
  <2>3. q = p
    <3>1. q # p => conn'[p] = conn[p]
      BY <2>2 DEF SlowPath, StoreToken, CreateTokenFails, ResetTokenOlderThan, Hand, TypeInv, TypeOK
    <3> QED
      BY <3>1
  <2>4. ResetTokenOlderThan(p)
    BY <2>2, <2>3 DEF SlowPath, StoreToken, CreateTokenFails
  <2>5. source[conn[p].source].t < conn[p].start
    BY <2>1, <2>4 DEF ResetTokenOlderThan
  <2>6. conn[p].start \in Nat /\ source[conn[p].source].t \in Nat
    BY CallerType DEF Connections, Sources
  <2>7. conn[p].token \in TokenId /\ conn[p].token # None
    BY CallerType, ConstantAssumption DEF TokenId
  <2> QED
    BY <2>5, <2>6, <2>7 DEF Facts, Handed
<1>2. [][Step]_vars => ResetTakesTheRejected
  BY DEF ResetTakesTheRejected
<1> QED
  BY <1>1, <1>2, FactsInvariant, PTL DEF Spec

(* However many callers find a token near its expiry, and however long each *)
(* of them waits for the lock, only one replaces it, and never a token that  *)
(* is still fresh.                                                           *)
THEOREM Rotates == Spec => RotatedWhenDue
<1> DEFINE Step == \A s \in SourceId :
              (source[s].token # None /\ source'[s].token \notin {None, source[s].token})
              => ~Fresh(source[s].token, now)
<1>1. TypeInv /\ LockHeldByFetcher /\ Facts /\ [Next]_vars => [Step]_vars
  <2> SUFFICES ASSUME TypeInv, Facts, [Next]_vars, NEW s \in SourceId,
                      source[s].token # None, source'[s].token \notin {None, source[s].token}
               PROVE  ~Fresh(source[s].token, now)
    OBVIOUS
  <2>1. source' # source
    OBVIOUS
  <2>2. PICK p \in Callers : SlowPath(p) \/ StoreToken(p) \/ CreateTokenFails(p)
                               \/ ResetTokenOlderThan(p)
    BY <2>1 DEF Next, Caller, vars, clientVars, Tick, RevokeRights, Prune, Connect, Close, Call,
                FastPath, CreateToken, AuthenticateToken, Authorize, ReviewFails
  <2>3. ~SlowPath(p) /\ ~CreateTokenFails(p)
    BY SlowPathEffect, CreateTokenFailsEffect
  <2>4. ~ResetTokenOlderThan(p)
    BY <2>1 DEF ResetTokenOlderThan, NewSource, TypeInv, TypeOK
  <2>5. conn[p].pc = "store" /\ conn[p].source = s
    BY <2>2, <2>3, <2>4 DEF StoreToken, TypeInv, TypeOK
  <2>6. ~Fresh(source[s].token, conn[p].start) /\ conn[p].start <= now
    BY <2>5 DEF Facts, Due, Issued
  <2>7. /\ source[s].token \in TokenId /\ expiry[source[s].token] \in Nat
        /\ conn[p].start \in Nat /\ now \in Nat /\ Leeway \in Nat
    BY ConstantAssumption DEF TypeInv, TypeOK, Sources, Connections
  <2> QED
    BY <2>6, <2>7 DEF Fresh
<1>2. [][Step]_vars => RotatedWhenDue
  BY DEF RotatedWhenDue
<1> QED
  BY <1>1, <1>2, FactsInvariant, PTL DEF Spec

-----------------------------------------------------------------------------
(* The agent's caches.                                                     *)

\* What is cached was true when it was asked for.
Evidence ==
    /\ permitted => lastPermitted = now
    /\ access.known /\ access.ok => access.at <= lastPermitted
    /\ \A i \in TokenId : reviews[i].known /\ reviews[i].ok => reviews[i].at < expiry[i]

LEMMA EvidenceStep ==
    ASSUME TypeInv, Issued, Evidence, [Next]_vars PROVE Evidence'
<1> USE DEF Evidence
<1>1. CASE Tick
  BY <1>1 DEF Tick, tokenVars, agentVars, TypeInv, TypeOK, Reviews
<1>2. CASE RevokeRights
  BY <1>2 DEF RevokeRights, tokenVars, agentVars, TypeInv, TypeOK, Reviews
<1>3. ASSUME NEW p \in Callers, CreateToken(p) PROVE Evidence'
  <2>1. /\ now' = now /\ access' = access /\ reviews' = reviews
        /\ permitted' = permitted /\ lastPermitted' = lastPermitted
        /\ expiry' = [expiry EXCEPT ![issued + 1] = now + Lifetime]
    BY <1>3 DEF CreateToken, agentVars, rbacVars
  <2>2. \A i \in TokenId : reviews[i].known => expiry'[i] = expiry[i]
    <3>1. SUFFICES ASSUME NEW i \in TokenId, reviews[i].known PROVE expiry'[i] = expiry[i]
      OBVIOUS
    <3>2. i <= issued /\ i \in Nat /\ issued \in Nat
      BY <3>1, ConstantAssumption DEF Issued, TokenId, TypeInv, TypeOK
    <3>3. i # issued + 1
      BY <3>2
    <3> QED
      BY <2>1, <3>3 DEF TypeInv, TypeOK
  <2> QED
    BY <2>1, <2>2
<1>6. ASSUME NEW p \in Callers, Authorize(p) PROVE Evidence'
  <2>1. /\ now' = now /\ expiry' = expiry /\ permitted' = permitted /\ lastPermitted' = lastPermitted
        /\ reviews' = reviews /\ access' = AccessReview
    BY <1>6 DEF Authorize, rbacVars, tokenVars
  <2>2. AccessReview.known /\ AccessReview.ok => AccessReview.at <= lastPermitted
    BY DEF AccessReview, TypeInv, TypeOK
  <2> QED
    BY <2>1, <2>2
<1>4. ASSUME NEW p \in Callers, AuthenticateToken(p) PROVE Evidence'
  <2> DEFINE i == conn[p].token
  <2>1. /\ now' = now /\ expiry' = expiry /\ permitted' = permitted /\ lastPermitted' = lastPermitted
        /\ i \in TokenId /\ reviews' = [reviews EXCEPT ![i] = TokenReview(i)]
        /\ access' = access
    BY <1>4, AuthenticateTokenEffect DEF AuthenticateToken, rbacVars, tokenVars
  <2>2. TokenReview(i).ok /\ TokenReview(i).known => TokenReview(i).at < expiry[i]
    BY <2>1 DEF TokenReview
  <2>3. \A j \in TokenId : reviews'[j].known /\ reviews'[j].ok => reviews'[j].at < expiry[j]
    BY <2>1, <2>2 DEF TypeInv, TypeOK
  <2> QED
    BY <2>1, <2>3
<1>5. CASE \/ UNCHANGED vars
           \/ Prune
           \/ \E p \in Callers : \/ Connect(p) \/ Close(p) \/ Call(p) \/ FastPath(p) \/ SlowPath(p)
                                 \/ StoreToken(p) \/ CreateTokenFails(p)
                                 \/ ResetTokenOlderThan(p) \/ ReviewFails(p)
  <2>1. UNCHANGED <<now, tokenVars, agentVars, rbacVars>>
    BY <1>5 DEF vars, Prune, Connect, Close, Call, FastPath, SlowPath, StoreToken, CreateTokenFails,
                ResetTokenOlderThan, ReviewFails
  <2> QED
    BY <2>1 DEF tokenVars, agentVars, rbacVars
<1> QED
  BY <1>1, <1>2, <1>3, <1>4, <1>5, <1>6 DEF Next, Caller

LEMMA EvidenceInvariant == Spec => [](TypeInv /\ Evidence)
<1>1. Init => Evidence
  BY DEF Init, Evidence, NoReview
<1>2. TypeInv /\ Facts /\ Evidence /\ [Next]_vars => Evidence'
  BY EvidenceStep DEF Facts
<1> QED
  BY <1>1, <1>2, FactsInvariant, PTL DEF Spec

\* Only its own steps move a caller.
LEMMA OwnStep ==
    ASSUME TypeInv, [Next]_vars, NEW p \in Callers, conn'[p] # conn[p]
    PROVE  Caller(p)
<1>1. PICK q \in Callers : Caller(q)
  BY DEF Next, vars, clientVars, Tick, RevokeRights, Prune
<1>2. q # p => conn'[p] = conn[p]
  BY <1>1 DEF Caller, Connect, Close, Call, FastPath, SlowPath, CreateToken, StoreToken,
              CreateTokenFails, ResetTokenOlderThan, AuthenticateToken, Authorize, ReviewFails,
              Hand, Goes, TypeInv, TypeOK
<1> QED
  BY <1>1, <1>2

(* A request passes the review of its token only on proof no older than    *)
(* the agent's caches keep it, and so the review of its rights: a token    *)
(* that expires and a right that is revoked stop working at most the TTL   *)
(* of the cache later, however often the cached answer is used meanwhile.  *)
THEOREM LetsInOnProof == Spec => LetInOnRecentProof
<1> DEFINE Step == \A p \in Callers :
              /\ (conn[p].pc = "sent" /\ conn'[p].pc = "reviewed")
                   => now < expiry[conn[p].token] + SuccessTTL
              /\ (conn[p].pc = "reviewed" /\ conn'[p].pc = "open")
                   => permitted \/ now < lastPermitted + AllowCacheTTL
<1>1. ASSUME TypeInv, Evidence, [Next]_vars, NEW p \in Callers,
             conn[p].pc = "sent", conn'[p].pc = "reviewed"
      PROVE  now < expiry[conn[p].token] + SuccessTTL
  <2> DEFINE i == conn[p].token
  <2>1. AuthenticateToken(p)
    <3>1. Caller(p)
      BY <1>1, OwnStep
    <3>2. ~ReviewFails(p)
      BY <1>1 DEF ReviewFails, Goes, TypeInv, TypeOK, Connections
    <3> QED
      BY <1>1, <3>1, <3>2 DEF Caller, Connect, Close, Call, FastPath, SlowPath, CreateToken, StoreToken,
                    CreateTokenFails, ResetTokenOlderThan, Authorize
  <2>2. i \in TokenId /\ TokenReview(i).ok
    <3>1. i \in TokenId
      BY <1>1, CallerType
    <3>2. conn' # [conn EXCEPT ![p].pc = "rejected"]
      BY <1>1 DEF TypeInv, TypeOK, Connections
    <3> QED
      BY <2>1, <3>1, <3>2 DEF AuthenticateToken, Goes
  <2>3. /\ now \in Nat /\ expiry[i] \in Nat /\ reviews[i] \in Reviews /\ SuccessTTL \in Nat
    BY <1>1, <2>2, ConstantAssumption DEF TypeInv, TypeOK
  <2>4. CASE Hit(reviews[i], SuccessTTL, FailureTTL)
    <3>1. reviews[i].ok /\ reviews[i].known /\ now < reviews[i].at + SuccessTTL
      BY <2>2, <2>4 DEF TokenReview, Hit
    <3> QED
      BY <1>1, <2>2, <2>3, <3>1 DEF Evidence, Reviews
  <2>5. CASE ~Hit(reviews[i], SuccessTTL, FailureTTL)
    <3>1. TokenReview(i) = [known |-> TRUE, ok |-> now < expiry[i], at |-> now]
      BY <2>5 DEF TokenReview
    <3>2. now < expiry[i]
      <4>1. TokenReview(i).ok = (now < expiry[i])
        BY <3>1
      <4> QED
        BY <2>2, <4>1, Zenon
    <3>3. \A n, e, d \in Nat : n < e => n < e + d
      OBVIOUS
    <3> QED
      BY <2>3, <3>2, <3>3
  <2> QED
    BY <2>4, <2>5
<1>2. ASSUME TypeInv, Evidence, [Next]_vars, NEW p \in Callers,
             conn[p].pc = "reviewed", conn'[p].pc = "open"
      PROVE  permitted \/ now < lastPermitted + AllowCacheTTL
  <2>1. Authorize(p)
    <3>1. Caller(p)
      BY <1>2, OwnStep
    <3>2. ~ReviewFails(p)
      BY <1>2 DEF ReviewFails, Goes, TypeInv, TypeOK, Connections
    <3> QED
      BY <1>2, <3>1, <3>2 DEF Caller, Connect, Close, Call, FastPath, SlowPath, CreateToken, StoreToken,
                    CreateTokenFails, ResetTokenOlderThan, AuthenticateToken
  <2>2. AccessReview.ok
    <3>1. conn' # [conn EXCEPT ![p].pc = "rejected"]
      BY <1>2 DEF TypeInv, TypeOK, Connections
    <3> QED
      BY <2>1, <3>1 DEF Authorize, Goes
  <2>3. CASE Hit(access, AllowCacheTTL, DenyCacheTTL)
    <3>1. access.ok /\ access.known /\ now < access.at + AllowCacheTTL
      BY <2>2, <2>3 DEF AccessReview, Hit
    <3>2. now \in Nat /\ lastPermitted \in Nat /\ access \in Reviews /\ AllowCacheTTL \in Nat
      BY <1>2, ConstantAssumption DEF TypeInv, TypeOK
    <3> QED
      BY <1>2, <3>1, <3>2 DEF Evidence, Reviews
  <2>4. CASE ~Hit(access, AllowCacheTTL, DenyCacheTTL)
    BY <2>2, <2>4 DEF AccessReview
  <2> QED
    BY <2>3, <2>4
<1>3. TypeInv /\ Evidence /\ [Next]_vars => [Step]_vars
  BY <1>1, <1>2
<1>4. [][Step]_vars => LetInOnRecentProof
  BY DEF LetInOnRecentProof
<1> QED
  BY <1>3, <1>4, EvidenceInvariant, PTL DEF Spec

=============================================================================
