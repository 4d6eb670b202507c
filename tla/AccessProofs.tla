----------------------------- MODULE AccessProofs -----------------------------
(***************************************************************************)
(* The safety of Access, for every number of sessions, every set of scopes *)
(* and every bound: the grant, the sessions that share a token and the     *)
(* start of a session each keep an inductive invariant of their own.       *)
(***************************************************************************)
EXTENDS Access, TLAPS

\* A grant begins with nothing found out and nothing sent.
LEMMA GrantBegins == GrantInit => GrantInv
BY DEF GrantInit, GrantInv, Nowhere, SecretsGoHome

\* The method that is agreed on is one the server offers.
LEMMA MethodIsOffered ==
    ASSUME NEW supported, ResolveAuthMethod(supported) # "error"
    PROVE  Supports(supported, ResolveAuthMethod(supported))
BY DEF ResolveAuthMethod

\* Every step of a grant keeps its invariant.
LEMMA GrantKeeps == GrantInv /\ [GrantStep]_grantVars => GrantInv'
<1> SUFFICES ASSUME GrantInv, [GrantStep]_grantVars PROVE GrantInv'
  OBVIOUS
<1> USE DEF GrantInv
<1>1. CASE UNCHANGED grantVars
  BY <1>1 DEF grantVars, SecretsGoHome
<1>2. CASE GrantFails
  BY <1>2 DEF GrantFails, SecretsGoHome
<1>3. CASE Probe \/ NextCandidate \/ ValidateEndpoints \/ BeginAuthorization
  BY <1>3 DEF Probe, NextCandidate, ValidateEndpoints, BeginAuthorization, SecretsGoHome
<1>4. CASE ProtectedResource \/ AuthorizationServer
  <2>1. sent = {} /\ sent' = {}
    BY <1>4 DEF ProtectedResource, AuthorizationServer
  <2>2. QED
    BY <1>4, <2>1 DEF ProtectedResource, AuthorizationServer, SecretsGoHome
<1>5. CASE Register
  BY <1>5 DEF Register, AfterRegistration, SecretsGoHome
<1>6. CASE CallbackArrives
  <2>1. sent = {} /\ sent' = {} /\ step = "callback" /\ step' = "exchange"
        /\ facts' = [facts EXCEPT !.callback = "own"]
    BY <1>6 DEF CallbackArrives, Completes
  <2>2. QED
    BY <2>1 DEF SecretsGoHome
<1>7. CASE Exchange
  <2>1. PICK supported \in SUBSET Methods :
           LET method == ResolveAuthMethod(supported)
               secrets == (IF method \in {"client_secret_basic", "client_secret_post"} THEN {"client_secret"} ELSE {})
                          \cup (IF plan.flow = "authorization_code" THEN {"code"} ELSE {}) IN
           /\ method # "error"
           /\ sent' = sent \cup {[secret |-> s, offered |-> Supports(supported, method)] : s \in secrets}
    BY <1>7 DEF Exchange
  <2>2. /\ step = "exchange" /\ step' = "answer" /\ plan' = plan /\ sent = {}
        /\ facts' = [facts EXCEPT !.address = "public"]
    BY <1>7 DEF Exchange, Dialled
  <2>3. ASSUME NEW s \in sent' PROVE s.offered /\ (s.secret = "code" => plan.flow = "authorization_code")
    <3> DEFINE method == ResolveAuthMethod(supported)
               secrets == (IF method \in {"client_secret_basic", "client_secret_post"} THEN {"client_secret"} ELSE {})
                          \cup (IF plan.flow = "authorization_code" THEN {"code"} ELSE {})
    <3>1. Supports(supported, method)
      BY <2>1, MethodIsOffered
    <3>2. PICK k \in secrets : s = [secret |-> k, offered |-> Supports(supported, method)]
      BY <2>1, <2>2, <2>3
    <3>3. k = "code" => plan.flow = "authorization_code"
      OBVIOUS
    <3>4. s.secret = k /\ s.offered = Supports(supported, method)
      BY <3>2
    <3> HIDE DEF method, secrets
    <3>5. QED
      BY <3>1, <3>3, <3>4
  <2>4. QED
    BY <2>2, <2>3 DEF SecretsGoHome
<1>8. CASE TokenArrives
  BY <1>8 DEF TokenArrives, SecretsGoHome
<1>9. QED
  BY <1>1, <1>2, <1>3, <1>4, <1>5, <1>6, <1>7, <1>8 DEF GrantStep

-----------------------------------------------------------------------------
\* A start begins without a transport.
LEMMA StartupBegins == StartupInit => StartupInv
BY DEF StartupInit, StartupInv, StartupTypeOK, ReadyIsSound, FailureIsCleanedUp, Orders

\* Every step of a start keeps its invariant.
LEMMA StartupKeeps == StartupInv /\ [StartupStep]_startupVars => StartupInv'
<1> SUFFICES ASSUME StartupInv, [StartupStep]_startupVars PROVE StartupInv'
  OBVIOUS
<1> USE DEF StartupInv, StartupTypeOK, ReadyIsSound, FailureIsCleanedUp
<1>1. CASE UNCHANGED startupVars
  BY <1>1 DEF startupVars
<1>2. CASE DeadlinePasses
  BY <1>2 DEF DeadlinePasses
<1>3. CASE PrepareOauth
  BY <1>3 DEF PrepareOauth
<1>4. CASE Connect
  BY <1>4 DEF Connect, Handshake
<1>5. CASE Probed
  <2>1. stage = "probe" /\ UNCHANGED <<order, late, bearer, schemas>>
    BY <1>5 DEF Probed
  <2>2. CASE stage' = "deadline" /\ version' = "known" /\ overrun' = late /\ UNCHANGED <<conn, told>>
    BY <2>1, <2>2
  <2>3. CASE stage' = "initialize" /\ UNCHANGED <<conn, told, version, overrun>>
    BY <2>1, <2>3
  <2>4. CASE CleanUp /\ UNCHANGED <<version, overrun>>
    BY <2>1, <2>4 DEF CleanUp, Redacted
  <2>5. QED
    BY <1>5, <2>2, <2>3, <2>4 DEF Probed
<1>6. CASE HandshakeEnds
  <2>1. stage \in {"initialize", "discover"} /\ UNCHANGED <<order, late, bearer, schemas>>
    BY <1>6 DEF HandshakeEnds
  <2>2. CASE /\ stage' = "deadline" /\ overrun' = late /\ UNCHANGED <<conn, told>>
             /\ version' \in IF stage = "initialize" THEN {"known", "other"} ELSE {"known"}
    BY <2>1, <2>2
  <2>3. CASE CleanUp /\ UNCHANGED <<version, overrun>>
    BY <2>1, <2>3 DEF CleanUp, Redacted
  <2>4. QED
    BY <1>6, <2>2, <2>3 DEF HandshakeEnds
<1>7. CASE FinishInTime
  BY <1>7 DEF FinishInTime, CleanUp, Redacted
<1>8. CASE StrictGate
  BY <1>8 DEF StrictGate, CleanUp, Redacted
<1>9. CASE ListTools
  <2>1. stage = "built" /\ UNCHANGED <<order, late, bearer, version, overrun>>
    BY <1>9 DEF ListTools
  <2>2. CASE stage' = "ready" /\ ~late /\ schemas' = order.strict /\ UNCHANGED <<conn, told>>
    BY <2>1, <2>2
  <2>3. CASE CleanUp /\ UNCHANGED schemas
    BY <2>1, <2>3 DEF CleanUp, Redacted
  <2>4. QED
    BY <1>9, <2>2, <2>3 DEF ListTools
<1>10. CASE HandOver
  BY <1>10 DEF HandOver, Lists
<1>11. QED
  BY <1>1, <1>2, <1>3, <1>4, <1>5, <1>6, <1>7, <1>8, <1>9, <1>10 DEF StartupStep, StartupMoves

-----------------------------------------------------------------------------
\* What the proofs use of the constants.
LEMMA ConstantsAre ==
    /\ "run" \notin Sessions /\ "free" \notin Sessions /\ Configured \subseteq Scope /\ Challenges \subseteq SUBSET Scope
    /\ MaxStepUp \in Nat /\ MaxReauth \in Nat /\ RefreshCap \in Nat /\ RefreshCap > 0
BY SessionsAssumption

\* A session's provider has a token set.
LEMMA ProviderIs ==
    ASSUME OAuthTypeOK, NEW s \in Sessions
    PROVE  /\ Provider(s) \in Owners
           /\ token[Provider(s)].state \in {"none", "good", "expiring"} /\ token[Provider(s)].refresh \in 0..RefreshCap
           /\ Provider(s) = s \/ Provider(s) = "run"
BY DEF OAuthTypeOK, Provider, Owners, Tokens

\* The token sets there can be.
LEMMA TokensAre ==
    /\ NoToken \in Tokens
    /\ \A state \in {"none", "good", "expiring"}, r \in 0..RefreshCap : [state |-> state, refresh |-> r] \in Tokens
BY ConstantsAre DEF NoToken, Tokens

\* The sessions begin with the run's token, which nobody refreshes yet.
LEMMA SessionsBegin == OAuthInit => SessionsInv
<1> SUFFICES ASSUME OAuthInit PROVE SessionsInv
  OBVIOUS
<1>1. PICK r \in {0, 1} : token = [o \in Owners |-> IF o = "run" THEN [state |-> "good", refresh |-> r] ELSE NoToken]
  BY DEF OAuthInit
<1>2. r \in 0..RefreshCap
  BY ConstantsAre
<1>3. token \in [Owners -> Tokens]
  BY <1>1, <1>2, TokensAre
<1>4. QED
  BY <1>3, ConstantsAre DEF OAuthInit, SessionsInv, OAuthTypeOK, RefreshedOnce, RefreshInv, ScopesInv

\* The types are kept by every step.
LEMMA SessionsTyped == SessionsInv /\ [OAuthStep]_oauthVars => OAuthTypeOK'
<1> SUFFICES ASSUME SessionsInv, [OAuthStep]_oauthVars PROVE OAuthTypeOK'
  OBVIOUS
<1> USE DEF SessionsInv, OAuthTypeOK, At
<1>1. CASE UNCHANGED oauthVars
  BY <1>1 DEF oauthVars, shared
<1>2. ASSUME NEW o \in Owners, TokenExpires(o) PROVE OAuthTypeOK'
  <2>1. token' \in [Owners -> Tokens]
    BY <1>2 DEF TokenExpires, Tokens
  <2>2. QED
    BY <1>2, <2>1 DEF TokenExpires, shared
<1>3. ASSUME NEW s \in Sessions, PostBegins(s) \/ Answered(s) \/ Granted(s) PROVE OAuthTypeOK'
  BY <1>3 DEF PostBegins, Answered, Granted, shared
<1>4. ASSUME NEW s \in Sessions, Header(s) PROVE OAuthTypeOK'
  <2>1. token' \in [Owners -> Tokens]
    <3>1. token' = token \/ token' = [token EXCEPT ![Provider(s)] = NoToken]
      BY <1>4 DEF Header
    <3>2. QED
      BY <3>1, TokensAre
  <2>2. QED
    BY <1>4, <2>1 DEF Header, shared
<1>5. ASSUME NEW s \in Sessions, TakeGuard(s) PROVE OAuthTypeOK'
  BY <1>5 DEF TakeGuard
<1>6. ASSUME NEW s \in Sessions, Refresh(s) PROVE OAuthTypeOK'
  <2>1. /\ UNCHANGED <<reauths, owner, scopes, stepUps>>
        /\ post' \in [Sessions -> {"idle", "header", "guard", "refresh", "sent", "step_up", "grant", "widen",
                                   "answered", "error"}]
    BY <1>6 DEF Refresh, SendHeld
  <2>2. token' \in [Owners -> Tokens]
    <3>1. CASE token' = token
      BY <3>1
    <3>2. CASE Refreshed(s, Provider(s))
      <4>1. PICK next \in {held[s], held[s] + 1} :
              next <= RefreshCap /\ token' = [token EXCEPT ![Provider(s)] = [state |-> "good", refresh |-> next]]
        BY <3>2 DEF Refreshed
      <4>2. next \in 0..RefreshCap
        BY <4>1, ConstantsAre DEF RefreshInv
      <4>3. QED
        BY <4>1, <4>2, TokensAre
    <3>3. QED
      BY <1>6, <3>1, <3>2 DEF Refresh
  <2>3. guard' \in [Owners -> Sessions \cup {"free"}]
    BY <1>6 DEF Refresh
  <2>4. QED
    BY <2>1, <2>2, <2>3
<1>7. ASSUME NEW s \in Sessions, NEW asked \in Challenges, Challenged(s, asked) PROVE OAuthTypeOK'
  <2>1. reauths' \in [Sessions -> 0..MaxReauth]
    <3>1. reauths' = reauths \/ (reauths[s] < MaxReauth /\ reauths' = [reauths EXCEPT ![s] = @ + 1])
      BY <1>7, ConstantsAre DEF Challenged
    <3>2. QED
      BY <3>1, ConstantsAre
  <2>2. QED
    BY <1>7, <2>1 DEF Challenged, shared
<1>8. ASSUME NEW s \in Sessions, StepUp(s) PROVE OAuthTypeOK'
  <2>1. stepUps' \in 0..MaxStepUp
    BY <1>8, ConstantsAre DEF StepUp
  <2>2. QED
    BY <1>8, <2>1 DEF StepUp
<1>9. ASSUME NEW s \in Sessions, Widen(s) PROVE OAuthTypeOK'
  <2>1. token' \in [Owners -> Tokens]
    <3>1. RefreshCap \in 0..RefreshCap
      BY ConstantsAre
    <3>2. [state |-> "good", refresh |-> RefreshCap] \in Tokens
      BY <3>1, TokensAre
    <3>3. QED
      BY <1>9, <3>2 DEF Widen
  <2>2. QED
    BY <1>9, <2>1 DEF Widen
<1>10. ASSUME NEW s \in Sessions, PostEnds(s) \/ PostDropped(s) PROVE OAuthTypeOK'
  <2>1. reauths' \in [Sessions -> 0..MaxReauth]
    BY <1>10, ConstantsAre DEF PostEnds, PostDropped, Forget
  <2>2. QED
    BY <1>10, <2>1 DEF PostEnds, PostDropped, Forget, shared
<1>11. QED
  BY <1>1, <1>2, <1>3, <1>4, <1>5, <1>6, <1>7, <1>8, <1>9, <1>10 DEF OAuthStep, SessionMoves, ReplyArrives

\* The history of the refresh tokens is kept straight: the guard lets one session at a time
\* send the token that is in the store.
LEMMA RefreshKept == SessionsInv /\ [OAuthStep]_oauthVars => RefreshInv' /\ RefreshedOnce'
<1> SUFFICES ASSUME SessionsInv, [OAuthStep]_oauthVars PROVE RefreshInv' /\ RefreshedOnce'
  OBVIOUS
<1> USE DEF SessionsInv, OAuthTypeOK, RefreshInv, RefreshedOnce, At
<1>1. CASE UNCHANGED oauthVars
  BY <1>1 DEF oauthVars, shared, locals, history, Provider
<1>2. ASSUME NEW o \in Owners, TokenExpires(o) PROVE RefreshInv' /\ RefreshedOnce'
  <2>1. \A p \in Owners : token'[p].refresh = token[p].refresh
    BY <1>2 DEF TokenExpires, Tokens
  <2>2. "run" \in Owners /\ \A s \in Sessions : Provider(s) \in Owners /\ Provider(s)' = Provider(s)
    BY <1>2, ProviderIs DEF TokenExpires, Provider, Owners
  <2>3. QED
    BY <1>2, <2>1, <2>2 DEF TokenExpires, shared, locals, history
<1>3. ASSUME NEW s \in Sessions, PostBegins(s) \/ Answered(s) \/ Granted(s) PROVE RefreshInv' /\ RefreshedOnce'
  <2>1. /\ UNCHANGED <<owner, token, guard, held, rotated, reused>>
        /\ \A t \in Sessions : post'[t] = "refresh" => post[t] = "refresh"
    BY <1>3 DEF PostBegins, Answered, Granted, shared, locals, history
  <2>2. QED
    BY <2>1 DEF Provider
<1>4. ASSUME NEW s \in Sessions, NEW asked \in Challenges, Challenged(s, asked) PROVE RefreshInv' /\ RefreshedOnce'
  BY <1>4 DEF Challenged, shared, history, Provider
<1>5. ASSUME NEW s \in Sessions, StepUp(s) PROVE RefreshInv' /\ RefreshedOnce'
  BY <1>5 DEF StepUp, history, Provider
<1>6. ASSUME NEW s \in Sessions, PostEnds(s) \/ PostDropped(s) PROVE RefreshInv' /\ RefreshedOnce'
  <2>1. /\ UNCHANGED <<owner, token, rotated, reused>>
        /\ held' = [held EXCEPT ![s] = 0] /\ post' = [post EXCEPT ![s] = "idle"]
        /\ guard' = guard \/ guard' = [o \in Owners |-> IF guard[o] = s THEN "free" ELSE guard[o]]
    BY <1>6 DEF PostEnds, PostDropped, Forget, shared, history
  <2>2. held' \in [Sessions -> 0..RefreshCap]
    BY <2>1, ConstantsAre
  <2>3. ASSUME NEW t \in Sessions, post'[t] = "refresh" PROVE (guard[Provider(t)] = t /\ held[t] = token[Provider(t)].refresh)'
    <3>1. t # s /\ post[t] = "refresh" /\ held'[t] = held[t]
      BY <2>1, <2>3
    <3>2. guard'[Provider(t)] = t
      BY <2>1, <3>1, ProviderIs
    <3>3. QED
      BY <2>1, <3>1, <3>2 DEF Provider
  <2>4. QED
    BY <2>1, <2>2, <2>3 DEF Provider
<1>7. ASSUME NEW s \in Sessions, Header(s) PROVE RefreshInv' /\ RefreshedOnce'
  <2>1. /\ UNCHANGED <<owner, guard, rotated, reused>> /\ post[s] = "header" /\ post'[s] # "refresh"
        /\ \A t \in Sessions \ {s} : post'[t] = post[t] /\ held'[t] = held[t]
    BY <1>7 DEF Header, shared, history
  <2>2. held' \in [Sessions -> 0..RefreshCap]
    BY <1>7, ProviderIs DEF Header
  <2>3. \A o \in Owners : token'[o].refresh = token[o].refresh
    <3>1. token' = token \/ (token[Provider(s)].refresh = 0 /\ token' = [token EXCEPT ![Provider(s)] = NoToken])
      BY <1>7 DEF Header
    <3>2. QED
      BY <3>1 DEF NoToken
  <2>4. "run" \in Owners /\ \A t \in Sessions : Provider(t) \in Owners /\ Provider(t)' = Provider(t)
    BY <2>1, ProviderIs DEF Provider, Owners
  <2>5. QED
    BY <2>1, <2>2, <2>3, <2>4
<1>8. ASSUME NEW s \in Sessions, TakeGuard(s) PROVE RefreshInv' /\ RefreshedOnce'
  <2>1. /\ UNCHANGED <<owner, token, rotated, reused>> /\ guard[Provider(s)] = "free" /\ post[s] = "guard"
        /\ \A t \in Sessions \ {s} : post'[t] = post[t] /\ held'[t] = held[t]
        /\ guard' = guard \/ guard' = [guard EXCEPT ![Provider(s)] = s]
    BY <1>8 DEF TakeGuard, history
  <2>2. held' \in [Sessions -> 0..RefreshCap]
    BY <1>8, ProviderIs, ConstantsAre DEF TakeGuard
  <2>3. Provider(s) \in Owners /\ \A t \in Sessions : Provider(t) \in Owners /\ Provider(t)' = Provider(t)
    BY <2>1, ProviderIs DEF Provider
  <2>4. ASSUME NEW t \in Sessions, post'[t] = "refresh"
        PROVE  guard'[Provider(t)] = t /\ held'[t] = token[Provider(t)].refresh
    <3>1. CASE t = s
      BY <1>8, <2>3, <2>4, <3>1 DEF TakeGuard
    <3>2. CASE t # s
      <4>1. post[t] = "refresh" /\ held'[t] = held[t] /\ guard[Provider(t)] = t /\ t # "free"
        BY <2>1, <2>4, <3>2, ConstantsAre
      <4>2. Provider(t) # Provider(s)
        BY <2>1, <4>1
      <4>3. QED
        BY <2>1, <2>3, <4>1, <4>2
    <3>3. QED
      BY <3>1, <3>2
  <2>5. QED
    BY <2>1, <2>2, <2>3, <2>4
<1>9. ASSUME NEW s \in Sessions, Refresh(s) PROVE RefreshInv' /\ RefreshedOnce'
  <2> DEFINE o == Provider(s)
  <2>1. /\ UNCHANGED owner /\ post[s] = "refresh" /\ post'[s] # "refresh" /\ guard' = [guard EXCEPT ![o] = "free"]
        /\ \A t \in Sessions \ {s} : post'[t] = post[t] /\ held'[t] = held[t]
        /\ reused' = (reused \/ (o = "run" /\ held[s] \in rotated))
    BY <1>9 DEF Refresh, SendHeld
  <2>2. held' \in [Sessions -> 0..RefreshCap]
    BY <1>9, ConstantsAre DEF Refresh, SendHeld
  <2>3. o \in Owners /\ "run" \in Owners /\ \A t \in Sessions : Provider(t) \in Owners /\ Provider(t)' = Provider(t)
    BY <2>1, ProviderIs DEF Provider, Owners
  <2>4. guard[o] = s /\ held[s] = token[o].refresh /\ held[s] \in Nat
    BY <2>1, ConstantsAre
  <2>5. ~reused'
    <3>1. ~(o = "run" /\ held[s] \in rotated)
      BY <2>4
    <3>2. QED
      BY <2>1, <3>1
  <2>6. rotated' \subseteq Nat /\ \A k \in rotated' : k < token'["run"].refresh
    <3>1. CASE token' = token /\ rotated' = rotated
      BY <3>1
    <3>2. CASE Refreshed(s, o)
      <4>1. PICK next \in {held[s], held[s] + 1} :
              /\ token' = [token EXCEPT ![o] = [state |-> "good", refresh |-> next]]
              /\ rotated' = IF next # held[s] /\ o = "run" THEN rotated \cup {held[s]} ELSE rotated
        BY <3>2 DEF Refreshed
      <4>2. CASE o = "run"
        <5>1. token'["run"].refresh = next /\ token["run"].refresh = held[s]
          BY <2>3, <2>4, <4>1, <4>2
        <5>2. CASE next = held[s]
          BY <4>1, <5>1, <5>2
        <5>3. CASE next = held[s] + 1
          <6>1. rotated' \subseteq rotated \cup {held[s]}
            BY <4>1
          <6>2. \A k \in rotated : k \in Nat /\ k < held[s]
            BY <5>1
          <6>3. \A k \in rotated \cup {held[s]} : k \in Nat /\ k < held[s] + 1
            BY <2>4, <6>2
          <6>4. QED
            BY <5>1, <5>3, <6>1, <6>3
        <5>4. QED
          BY <4>1, <5>2, <5>3
      <4>3. CASE o # "run"
        BY <2>3, <4>1, <4>3
      <4>4. QED
        BY <4>2, <4>3
    <3>3. QED
      BY <1>9, <3>1, <3>2 DEF Refresh
  <2>7. \A p \in Owners \ {o} : token'[p] = token[p]
    BY <1>9 DEF Refresh, Refreshed
  <2>8. ASSUME NEW t \in Sessions, post'[t] = "refresh"
        PROVE  guard'[Provider(t)] = t /\ held'[t] = token'[Provider(t)].refresh
    <3>1. t # s /\ post[t] = "refresh" /\ guard[Provider(t)] = t
      BY <2>1, <2>8
    <3>2. Provider(t) # o
      BY <2>4, <3>1
    <3>3. QED
      BY <2>1, <2>3, <2>7, <3>1, <3>2
  <2>9. QED
    BY <2>2, <2>3, <2>5, <2>6, <2>8
<1>10. ASSUME NEW s \in Sessions, Widen(s) PROVE RefreshInv' /\ RefreshedOnce'
  <2>1. /\ UNCHANGED <<guard, held, rotated, reused>> /\ post[s] = "widen" /\ post' = [post EXCEPT ![s] = "header"]
        /\ owner' = [owner EXCEPT ![s] = "own"]
        /\ token' = [token EXCEPT ![s] = [state |-> "good", refresh |-> RefreshCap]]
    BY <1>10 DEF Widen, history
  <2>2. s # "run"
    BY ConstantsAre
  <2>3. ASSUME NEW t \in Sessions, post'[t] = "refresh"
        PROVE  t # s /\ post[t] = "refresh" /\ Provider(t)' = Provider(t) /\ Provider(t) # s /\ Provider(t) \in Owners
    BY <2>1, <2>2, <2>3, ProviderIs DEF Provider
  <2>4. "run" \in Owners /\ token'["run"] = token["run"]
    BY <2>1, <2>2 DEF Owners
  <2>5. QED
    BY <2>1, <2>3, <2>4
<1>11. QED
  BY <1>1, <1>2, <1>3, <1>4, <1>5, <1>6, <1>7, <1>8, <1>9, <1>10 DEF OAuthStep, SessionMoves, ReplyArrives

\* What was configured stays in every scope set of a step-up.
LEMMA ScopesKept == SessionsInv /\ [OAuthStep]_oauthVars => ScopesInv'
<1> SUFFICES ASSUME SessionsInv, [OAuthStep]_oauthVars PROVE ScopesInv'
  OBVIOUS
<1> USE DEF SessionsInv, OAuthTypeOK, ScopesInv, At
<1>1. CASE UNCHANGED oauthVars
  BY <1>1 DEF oauthVars, shared, locals
<1>2. ASSUME NEW o \in Owners, TokenExpires(o) PROVE ScopesInv'
  BY <1>2 DEF TokenExpires, shared, locals
<1>3. ASSUME NEW s \in Sessions, PostBegins(s) \/ Answered(s) PROVE ScopesInv'
  BY <1>3 DEF PostBegins, Answered, shared, locals
<1>4. ASSUME NEW s \in Sessions, Header(s) \/ TakeGuard(s) PROVE ScopesInv'
  BY <1>4 DEF Header, TakeGuard, shared
<1>5. ASSUME NEW s \in Sessions, Refresh(s) PROVE ScopesInv'
  BY <1>5 DEF Refresh, SendHeld
<1>6. ASSUME NEW s \in Sessions, NEW asked \in Challenges, Challenged(s, asked) PROVE ScopesInv'
  BY <1>6, ConstantsAre DEF Challenged, shared
<1>7. ASSUME NEW s \in Sessions, StepUp(s) PROVE ScopesInv'
  BY <1>7 DEF StepUp
<1>8. ASSUME NEW s \in Sessions, Granted(s) PROVE ScopesInv'
  BY <1>8 DEF Granted, shared, locals
<1>9. ASSUME NEW s \in Sessions, Widen(s) PROVE ScopesInv'
  BY <1>9 DEF Widen
<1>10. ASSUME NEW s \in Sessions, PostEnds(s) \/ PostDropped(s) PROVE ScopesInv'
  BY <1>10 DEF PostEnds, PostDropped, Forget, shared
<1>11. QED
  BY <1>1, <1>2, <1>3, <1>4, <1>5, <1>6, <1>7, <1>8, <1>9, <1>10 DEF OAuthStep, SessionMoves, ReplyArrives

-----------------------------------------------------------------------------
(***************************************************************************)
(* The theorems.                                                           *)
(***************************************************************************)
\* The parts keep their invariants whichever of them runs.
LEMMA AccessInvariant == Spec => [](GrantInv /\ SessionsInv /\ StartupInv)
<1> DEFINE Inv == GrantInv /\ SessionsInv /\ StartupInv
<1>1. Init => Inv
  BY GrantBegins, SessionsBegin, StartupBegins DEF Init
<1>2. Inv /\ [Next]_accessVars => Inv'
  <2> SUFFICES ASSUME Inv, [Next]_accessVars PROVE Inv'
    OBVIOUS
  <2>1. [GrantStep]_grantVars /\ [OAuthStep]_oauthVars /\ [StartupStep]_startupVars
    BY DEF Next, Over, accessVars
  <2>2. SessionsInv'
    BY <2>1, SessionsTyped, RefreshKept, ScopesKept DEF SessionsInv
  <2>3. QED
    BY <2>1, <2>2, GrantKeeps, StartupKeeps
<1>3. QED
  BY <1>1, <1>2, PTL DEF Spec

\* A secret goes out only to the authorization server of the configured resource, by a
\* method that server offers (discover, complete, resolve_auth_method, client_for).
THEOREM SecretsAreSafe == Spec => []SecretsGoHome
<1>1. GrantInv => SecretsGoHome
  BY DEF GrantInv
<1>2. QED
  BY <1>1, AccessInvariant, PTL

\* However many sessions share the run's token, a refresh token that has a successor is not
\* sent again and no step-up loses what was configured (authorization_header, reauthorize).
THEOREM TokenIsSharedWell == Spec => []TokenIsShared
<1>1. SessionsInv => TokenIsShared
  BY DEF SessionsInv, ScopesInv, TokenIsShared, StepUpKeepsConfigured
<1>2. QED
  BY <1>1, AccessInvariant, PTL

\* A session is handed over sound, or its transport was shut down; a teardown that failed is
\* in the error unless the run redacts its errors (build_session, cleanup_failed_startup,
\* redacted_server_error).
THEOREM StartupsAreSound == Spec => []StartupIsSound
<1>1. StartupInv => StartupIsSound
  BY DEF StartupInv, StartupIsSound
<1>2. QED
  BY <1>1, AccessInvariant, PTL
=============================================================================
