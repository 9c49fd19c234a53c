------------------------------ MODULE TokenSource ------------------------------
(***************************************************************************)
(* The tokens that authenticate the operator to the agent of one           *)
(* workspace.  On the operator's side: the factory of token sources        *)
(* (ServiceAccount), the caching token source and the credentials of a     *)
(* connection, in agent/pkg/client/credentials.go, as used by the          *)
(* ConnectionManager of operator/internal/controller/auto/connect.go.  On  *)
(* the agent's side: kubeAuth.Authenticate of agent/pkg/server/auth.go,    *)
(* with its caches of TokenReviews and SubjectAccessReviews.               *)
(*                                                                         *)
(* A caller is a reconcile with a connection of its own.  Time passes      *)
(* between any two of its steps.                                           *)
(***************************************************************************)
EXTENDS Naturals

CONSTANTS
    Callers,
    None,
    Lifetime,     \* of a token
    ExpiryDelta,  \* how long before its expiry the credentials drop it
    Leeway,       \* how long before its expiry a token is rotated
    PruneAge,     \* pruneTokensOlderThan
    SuccessTTL,   \* how long the agent remembers a token that passed review,
    FailureTTL,   \* one that did not,
    AllowCacheTTL,\* an access that was allowed,
    DenyCacheTTL, \* and one that was denied
    MaxTime,      \* bound: the clock
    MaxTokens,    \* bound: tokens issued
    MaxSources    \* bound: token sources made by the factory

ASSUME ConstantAssumption ==
    /\ None \notin Callers /\ None \notin Nat
    /\ Lifetime \in Nat /\ ExpiryDelta \in Nat /\ Leeway \in Nat /\ PruneAge \in Nat
    /\ SuccessTTL \in Nat /\ FailureTTL \in Nat
    /\ AllowCacheTTL \in Nat /\ DenyCacheTTL \in Nat
    /\ MaxTime \in Nat /\ MaxTokens \in Nat /\ MaxSources \in Nat

VARIABLES
    now,
    expiry,        \* of each token issued so far
    issued,        \* how many there are
    source,        \* the cachingTokenSources: token, time t, and who holds the lock
    entry,         \* the factory's cacheEntry: the source and lastUsed
    conn,          \* the callers and their connections
    reviews,       \* the agent's cache of TokenReviews
    access,        \* the agent's cache of SubjectAccessReviews
    permitted,     \* may the operator's account use the workspace's RPCs?
    lastPermitted  \* history: when it last could

clientVars == <<source, entry, conn>>
agentVars  == <<reviews, access>>
rbacVars   == <<permitted, lastPermitted>>
tokenVars  == <<expiry, issued>>
vars == <<now, tokenVars, clientVars, agentVars, rbacVars>>

TokenId  == 1..MaxTokens
SourceId == 1..MaxSources

NewSource == [token |-> None, t |-> 0, lock |-> None]
Sources   == [token : TokenId \cup {None}, t : Nat, lock : Callers \cup {None}]

\* `start' is read when the token source is invoked, and `token' is what the
\* credentials hold.
Closed == [pc |-> "closed", source |-> None, token |-> None, start |-> 0]
Connections ==
    [pc : {"closed", "open", "token", "lock", "create", "store", "sent", "reviewed", "rejected"},
     source : SourceId \cup {None}, token : TokenId \cup {None}, start : Nat]

\* A cached answer of a review, or none.
NoReview == [known |-> FALSE, ok |-> FALSE, at |-> 0]
Reviews  == [known : BOOLEAN, ok : BOOLEAN, at : Nat]

\* Every variable keeps its type: a cached token is one that can have been issued,
\* and every time is a natural number, that of a token that was reset included.
TypeOK ==
    /\ now \in Nat
    /\ expiry \in [TokenId -> Nat]
    /\ issued \in 0..MaxTokens
    /\ source \in [SourceId -> Sources]
    /\ entry \in [source : SourceId \cup {None}, made : 0..MaxSources, lastUsed : Nat]
    /\ conn \in [Callers -> Connections]
    /\ reviews \in [TokenId -> Reviews]
    /\ access \in Reviews
    /\ permitted \in BOOLEAN
    /\ lastPermitted \in Nat

Init ==
    /\ now = 0
    /\ expiry = [i \in TokenId |-> 0] /\ issued = 0
    /\ source = [s \in SourceId |-> NewSource]
    /\ entry = [source |-> None, made |-> 0, lastUsed |-> 0]
    /\ conn = [p \in Callers |-> Closed]
    /\ reviews = [i \in TokenId |-> NoReview]
    /\ access = NoReview
    /\ permitted = TRUE /\ lastPermitted = 0

-----------------------------------------------------------------------------
(* The surroundings.                                                       *)

Tick ==
    /\ now < MaxTime
    /\ now' = now + 1
    /\ lastPermitted' = IF permitted THEN now + 1 ELSE lastPermitted
    /\ UNCHANGED <<tokenVars, clientVars, agentVars, permitted>>

\* An administrator takes away the right to use the RPCs.
RevokeRights ==
    /\ permitted
    /\ permitted' = FALSE
    /\ UNCHANGED <<now, tokenVars, clientVars, agentVars, lastPermitted>>

-----------------------------------------------------------------------------
(* The factory.                                                            *)

\* ServiceAccount.TokenSource, for a connection made by Connect.
Connect(p) ==
    /\ conn[p].pc = "closed"
    /\ entry.source = None => entry.made < MaxSources
    /\ LET s == IF entry.source = None THEN entry.made + 1 ELSE entry.source
       IN  /\ entry' = [source |-> s, lastUsed |-> now,
                        made |-> IF entry.source = None THEN s ELSE entry.made]
           /\ conn' = [conn EXCEPT ![p] = [Closed EXCEPT !.pc = "open", !.source = s]]
    /\ UNCHANGED <<now, tokenVars, source, agentVars, rbacVars>>

\* The reconcile ends and closes its connection.  It also does when a request
\* fails, maybe after a look at the token.
Close(p) ==
    /\ conn[p].pc \in {"open", "rejected"}
    /\ conn' = [conn EXCEPT ![p] = Closed]
    /\ UNCHANGED <<now, tokenVars, source, entry, agentVars, rbacVars>>

\* ConnectionManager.Start's ticker.  Connections keep the source they have.
Prune ==
    /\ entry.source # None
    /\ entry.lastUsed + PruneAge < now
    /\ entry' = [entry EXCEPT !.source = None, !.lastUsed = 0]
    /\ UNCHANGED <<now, tokenVars, source, conn, agentVars, rbacVars>>

-----------------------------------------------------------------------------
(* A request: the credentials and the caching token source.                *)

\* The token need not be rotated at time t.
Fresh(i, t) == i # None /\ t + Leeway < expiry[i]

\* Token i is handed to the credentials of p, and the request is sent.
Hand(p, i) ==
    conn' = [conn EXCEPT ![p].token = i, ![p].pc = "sent"]

\* The token that the credentials hold need not be replaced (oauth2.Token.Valid).
Valid(i) == i # None /\ now + ExpiryDelta <= expiry[i]

\* GetRequestMetadata keeps a token that is valid, and otherwise invokes the
\* token source, which first reads the time.
Call(p) ==
    /\ conn[p].pc = "open"
    /\ IF Valid(conn[p].token)
         THEN conn' = [conn EXCEPT ![p].pc = "sent"]
         ELSE conn' = [conn EXCEPT ![p].pc = "token", ![p].start = now]
    /\ UNCHANGED <<now, tokenVars, source, entry, agentVars, rbacVars>>

\* Token, fast path: under the read lock.
FastPath(p) ==
    LET s == source[conn[p].source] IN
    /\ conn[p].pc = "token" /\ s.lock = None
    /\ IF Fresh(s.token, conn[p].start)
         THEN Hand(p, s.token)
         ELSE conn' = [conn EXCEPT ![p].pc = "lock"]
    /\ UNCHANGED <<now, tokenVars, source, entry, agentVars, rbacVars>>

\* Mutant: no second look under the lock.
SlowPathUnchecked(p) ==
    /\ conn[p].pc = "lock" /\ source[conn[p].source].lock = None
    /\ source' = [source EXCEPT ![conn[p].source].lock = p]
    /\ conn' = [conn EXCEPT ![p].pc = "create"]
    /\ UNCHANGED <<now, tokenVars, entry, agentVars, rbacVars>>

\* Token, slow path: the lock is taken and the token looked at again.
SlowPath(p) ==
    LET s == source[conn[p].source] IN
    /\ conn[p].pc = "lock" /\ s.lock = None
    /\ IF Fresh(s.token, conn[p].start)
         THEN Hand(p, s.token) /\ UNCHANGED source
         ELSE /\ source' = [source EXCEPT ![conn[p].source].lock = p]
              /\ conn' = [conn EXCEPT ![p].pc = "create"]
    /\ UNCHANGED <<now, tokenVars, entry, agentVars, rbacVars>>

\* serviceAccountTokenSource.Token: the API server issues a token ...
CreateToken(p) ==
    /\ conn[p].pc = "create" /\ issued < MaxTokens
    /\ issued' = issued + 1
    /\ expiry' = [expiry EXCEPT ![issued + 1] = now + Lifetime]
    /\ conn' = [conn EXCEPT ![p].pc = "store", ![p].token = issued + 1]
    /\ UNCHANGED <<now, source, entry, agentVars, rbacVars>>

\* Mutant: the token is stored with the time read on entry.
StoreTokenAsOfStart(p) ==
    /\ conn[p].pc = "store"
    /\ source' = [source EXCEPT ![conn[p].source] =
                   [token |-> conn[p].token, t |-> conn[p].start, lock |-> None]]
    /\ Hand(p, conn[p].token)
    /\ UNCHANGED <<now, tokenVars, entry, agentVars, rbacVars>>

\* ... which is cached with the time at which it arrived ...
StoreToken(p) ==
    /\ conn[p].pc = "store"
    /\ source' = [source EXCEPT ![conn[p].source] =
                   [token |-> conn[p].token, t |-> now, lock |-> None]]
    /\ Hand(p, conn[p].token)
    /\ UNCHANGED <<now, tokenVars, entry, agentVars, rbacVars>>

\* Mutant: the error path keeps the lock.
CreateTokenFailsLocked(p) ==
    LET s == source[conn[p].source] IN
    /\ conn[p].pc = "create"
    /\ IF s.token = None
         THEN conn' = [conn EXCEPT ![p] = Closed]
         ELSE Hand(p, s.token)
    /\ UNCHANGED <<now, tokenVars, source, entry, agentVars, rbacVars>>

\* ... or it does not: the old token is handed out, if there is one.
CreateTokenFails(p) ==
    LET s == source[conn[p].source] IN
    /\ conn[p].pc = "create"
    /\ source' = [source EXCEPT ![conn[p].source].lock = None]
    /\ IF s.token = None
         THEN conn' = [conn EXCEPT ![p] = Closed]
         ELSE Hand(p, s.token)
    /\ UNCHANGED <<now, tokenVars, entry, agentVars, rbacVars>>

\* Mutant: the time of a token that was reset is nothing rather than zero.
ResetTokenAndTime(p) ==
    LET s == source[conn[p].source] IN
    /\ conn[p].pc = "rejected" /\ s.lock = None
    /\ source' = IF s.t < conn[p].start
                   THEN [source EXCEPT ![conn[p].source] = [NewSource EXCEPT !.t = None]]
                   ELSE source
    /\ conn' = [conn EXCEPT ![p] = Closed]
    /\ UNCHANGED <<now, tokenVars, entry, agentVars, rbacVars>>

\* ResetTokenOlderThan, after an unauthenticated response, with a time before
\* the token source was invoked (as its comment asks).
ResetTokenOlderThan(p) ==
    LET s == source[conn[p].source] IN
    /\ conn[p].pc = "rejected" /\ s.lock = None
    /\ source' = IF s.t < conn[p].start
                   THEN [source EXCEPT ![conn[p].source] = NewSource]
                   ELSE source
    /\ conn' = [conn EXCEPT ![p] = Closed]
    /\ UNCHANGED <<now, tokenVars, entry, agentVars, rbacVars>>

-----------------------------------------------------------------------------
(* The agent.                                                              *)

\* A cached answer that is not too old.
Hit(r, okTTL, otherTTL) == r.known /\ now < r.at + (IF r.ok THEN okTTL ELSE otherTTL)

\* Mutant: every use renews what is cached.
TokenReviewRenewed(i) ==
    IF Hit(reviews[i], SuccessTTL, FailureTTL) THEN [reviews[i] EXCEPT !.at = now]
    ELSE [known |-> TRUE, ok |-> now < expiry[i], at |-> now]

\* AuthenticateToken: the cache, or else a TokenReview, which is remembered.
TokenReview(i) ==
    IF Hit(reviews[i], SuccessTTL, FailureTTL) THEN reviews[i]
    ELSE [known |-> TRUE, ok |-> now < expiry[i], at |-> now]

\* Authorize: the cache, or else a SubjectAccessReview.
AccessReview ==
    IF Hit(access, AllowCacheTTL, DenyCacheTTL) THEN access
    ELSE [known |-> TRUE, ok |-> permitted, at |-> now]

\* Authenticate goes on with p's request, or refuses it.
Goes(p, ok, to) == conn' = [conn EXCEPT ![p].pc = IF ok THEN to ELSE "rejected"]

\* Authenticate: who asks ...
AuthenticateToken(p) ==
    LET i == conn[p].token
        r == TokenReview(i)
    IN  /\ conn[p].pc = "sent"
        /\ reviews' = [reviews EXCEPT ![i] = r]
        /\ Goes(p, r.ok, "reviewed")
        /\ UNCHANGED <<now, tokenVars, source, entry, access, rbacVars>>

\* ... and whether they may.
Authorize(p) ==
    /\ conn[p].pc = "reviewed"
    /\ access' = AccessReview
    /\ Goes(p, AccessReview.ok, "open")
    /\ UNCHANGED <<now, tokenVars, source, entry, reviews, rbacVars>>

\* A review that fails is not remembered.
ReviewFails(p) ==
    /\ conn[p].pc \in {"sent", "reviewed"}
    /\ Goes(p, FALSE, "open")
    /\ UNCHANGED <<now, tokenVars, source, entry, agentVars, rbacVars>>

-----------------------------------------------------------------------------
Caller(p) ==
    \/ Connect(p) \/ Close(p) \/ Call(p) \/ FastPath(p) \/ SlowPath(p)
    \/ CreateToken(p) \/ StoreToken(p) \/ CreateTokenFails(p)
    \/ ResetTokenOlderThan(p)
    \/ AuthenticateToken(p) \/ Authorize(p) \/ ReviewFails(p)

Next == Tick \/ RevokeRights \/ Prune \/ \E p \in Callers : Caller(p)

Spec == Init /\ [][Next]_vars

-----------------------------------------------------------------------------
(* Properties.                                                             *)

(* A reset takes away no token but the one its caller was rejected with: a  *)
(* token that another caller fetched meanwhile stays (credentials.go: the   *)
(* time t of cachingTokenSource, ResetTokenOlderThan).                      *)
ResetTakesTheRejected ==
    [][\A p \in Callers :
         (conn[p].pc = "rejected" /\ conn'[p].pc = "closed"
            /\ source'[conn[p].source] # source[conn[p].source])
         => source[conn[p].source].token \in {None, conn[p].token}]_vars

(* A cached token is replaced only when it is near its expiry, however many *)
(* callers find it so at once and however long they wait for the lock       *)
(* (credentials.go: the second look of the slow path).                      *)
RotatedWhenDue ==
    [][\A s \in SourceId :
         (source[s].token # None /\ source'[s].token \notin {None, source[s].token})
         => ~Fresh(source[s].token, now)]_vars

(* A request passes the review of its token only if that was valid, and is  *)
(* let in only if the account had the right, no longer ago than the agent's *)
(* caches remember, however often what they hold is used (auth.go: the TTLs *)
(* of NewKubeAuth, the two reviews of Authenticate).                        *)
LetInOnRecentProof ==
    [][\A p \in Callers :
         /\ (conn[p].pc = "sent" /\ conn'[p].pc = "reviewed")
              => now < expiry[conn[p].token] + SuccessTTL
         /\ (conn[p].pc = "reviewed" /\ conn'[p].pc = "open")
              => permitted \/ now < lastPermitted + AllowCacheTTL]_vars

(* The lock of a token source is held by one caller of it, who is fetching *)
(* a token: whatever way the fetch ends, the lock is free again.           *)
LockHeldByFetcher ==
    \A s \in SourceId, p \in Callers :
        source[s].lock = p <=> conn[p].source = s /\ conn[p].pc \in {"create", "store"}

=============================================================================
