--------------------------- MODULE OAuthSessions ---------------------------
(***************************************************************************)
(* The sessions of a run that share an OAuthRuntime: the loop of           *)
(* HttpTransport::post (protocol transport/http.rs), the provider's        *)
(* refresh on expiry (auth provider.rs, store.rs) and the challenge        *)
(* handler that widens the scopes (engine run/connect.rs reauthorize,      *)
(* auth scope.rs).                                                         *)
(*                                                                         *)
(* Each session begins with the run's provider; after a reauthorization it *)
(* has one of its own.  A step ends where the code awaits.                 *)
(***************************************************************************)
EXTENDS Integers, FiniteSets

CONSTANTS
    Sessions,
    Scope,          \* the names of scopes
    Configured,     \* those the run was granted
    Challenges,     \* what a challenge may ask for
    MaxStepUp,      \* max_step_up_retries
    MaxReauth,      \* MAX_OAUTH_REAUTH_ATTEMPTS
    RefreshCap      \* bound: refresh tokens the server hands out

ASSUME SessionsAssumption ==
    /\ IsFiniteSet(Sessions) /\ Sessions \cap {"run", "free"} = {} /\ IsFiniteSet(Scope) /\ Configured \subseteq Scope
    /\ Challenges \subseteq SUBSET Scope
    /\ MaxStepUp \in Nat /\ MaxReauth \in Nat /\ RefreshCap \in Nat \ {0}

VARIABLES
    post,       \* where each session's request is
    reauths,    \* reauthorization_attempts of the request
    owner,      \* whose provider the session's binding holds: the run's or its own
    token,      \* the TokenSet in the store of each provider
    held,       \* the refresh token each session found in the store
    guard,      \* who holds the refresh_guard of each provider
    scopes,     \* the handler's scopes
    stepUps,    \* StepUpTracker.attempts
    prior,      \* the scopes each reauthorization began from
    wanted,     \* those its challenge names, then those it asks a grant for
    rotated,    \* history: the run's refresh tokens it got a successor for
    reused      \* history: one of them was sent again

shared == <<guard, scopes, stepUps>>
locals == <<held, prior, wanted>>
history == <<rotated, reused>>
oauthVars == <<post, reauths, owner, token, shared, locals, history>>

Owners == Sessions \cup {"run"}
NoToken == [state |-> "none", refresh |-> 0]
Provider(s) == IF owner[s] = "own" THEN s ELSE "run"
Tokens == [state : {"none", "good", "expiring"}, refresh : 0..RefreshCap]

OAuthInit ==
    /\ post = [s \in Sessions |-> "idle"] /\ reauths = [s \in Sessions |-> 0]
    /\ owner = [s \in Sessions |-> "run"]
    /\ \E r \in {0, 1} : token = [o \in Owners |-> IF o = "run" THEN [state |-> "good", refresh |-> r] ELSE NoToken]
    /\ guard = [o \in Owners |-> "free"] /\ scopes = Configured /\ stepUps = 0
    /\ prior = [s \in Sessions |-> {}] /\ wanted = [s \in Sessions |-> {}]
    /\ held = [s \in Sessions |-> 0] /\ rotated = {} /\ reused = FALSE

At(s, p) == post' = [post EXCEPT ![s] = p]

\* expires_within: the time comes at any moment.
TokenExpires(o) ==
    /\ token[o].state = "good"
    /\ token' = [token EXCEPT ![o].state = "expiring"]
    /\ UNCHANGED <<post, reauths, owner, shared, locals, history>>

PostBegins(s) ==
    /\ post[s] = "idle"
    /\ At(s, "header")
    /\ UNCHANGED <<reauths, owner, token, shared, locals, history>>

-----------------------------------------------------------------------------
(***************************************************************************)
(* authorization_header.                                                   *)
(***************************************************************************)
\* A token without a refresh token that runs out is removed, and the request goes without.
Header(s) ==
    /\ post[s] = "header"
    /\ LET t == token[Provider(s)] IN
       IF t.state = "expiring" /\ t.refresh = 0
       THEN token' = [token EXCEPT ![Provider(s)] = NoToken] /\ At(s, "sent") /\ UNCHANGED held
       ELSE IF t.state = "expiring"
       THEN At(s, "guard") /\ held' = [held EXCEPT ![s] = t.refresh] /\ UNCHANGED token
       ELSE At(s, "sent") /\ UNCHANGED <<token, held>>
    /\ UNCHANGED <<reauths, owner, shared, prior, wanted, history>>

\* mutant: the store is not asked again under the guard
TakeGuardBlindly(s) ==
    /\ post[s] = "guard" /\ guard[Provider(s)] = "free"
    /\ guard' = [guard EXCEPT ![Provider(s)] = s] /\ At(s, "refresh")
    /\ UNCHANGED <<reauths, owner, token, scopes, stepUps, locals, history>>

\* Under the guard the store is asked again: another may have refreshed the token.
TakeGuard(s) ==
    /\ post[s] = "guard" /\ guard[Provider(s)] = "free"
    /\ LET t == token[Provider(s)] IN
       IF t.state = "expiring"
       THEN /\ guard' = [guard EXCEPT ![Provider(s)] = s] /\ At(s, "refresh")
            /\ held' = [held EXCEPT ![s] = t.refresh]
       ELSE At(s, "sent") /\ held' = [held EXCEPT ![s] = 0] /\ UNCHANGED guard
    /\ UNCHANGED <<reauths, owner, token, scopes, stepUps, prior, wanted, history>>

\* The answer to a refresh: a token, with another refresh token or without.
Refreshed(s, o) ==
    \E next \in {held[s], held[s] + 1} :
        /\ next <= RefreshCap
        /\ token' = [token EXCEPT ![o] = [state |-> "good", refresh |-> next]]
        /\ rotated' = IF next # held[s] /\ o = "run" THEN rotated \cup {held[s]} ELSE rotated

\* The held token is sent, and done with.
SendHeld(s, o) ==
    /\ post[s] = "refresh"
    /\ reused' = (reused \/ (o = "run" /\ held[s] \in rotated))
    /\ held' = [held EXCEPT ![s] = 0]
    /\ UNCHANGED <<reauths, owner, scopes, stepUps, prior, wanted>>

\* mutant: an error leaves the guard taken
RefreshLeaksGuard(s) ==
    /\ SendHeld(s, Provider(s))
    /\ \/ Refreshed(s, Provider(s)) /\ At(s, "sent") /\ guard' = [guard EXCEPT ![Provider(s)] = "free"]
       \/ At(s, "error") /\ UNCHANGED <<token, rotated, guard>>

\* An error ends the request and leaves the token where it is.
Refresh(s) ==
    /\ SendHeld(s, Provider(s))
    /\ \/ Refreshed(s, Provider(s)) /\ At(s, "sent")
       \/ At(s, "error") /\ UNCHANGED <<token, rotated>>
    /\ guard' = [guard EXCEPT ![Provider(s)] = "free"]

-----------------------------------------------------------------------------
(***************************************************************************)
(* The answer, and reauthorize.                                            *)
(***************************************************************************)
\* Any answer but 401 and 403 is the answer; so is no answer at all.
Answered(s) ==
    /\ post[s] = "sent"
    /\ \E end \in {"answered", "error"} : At(s, end)
    /\ UNCHANGED <<reauths, owner, token, shared, locals, history>>

\* A challenge, whose metadata is discovered anew; then the scopes are read.
Challenged(s, asked) ==
    /\ post[s] = "sent"
    /\ IF reauths[s] >= MaxReauth THEN At(s, "error") /\ UNCHANGED <<reauths, prior, wanted>>
       ELSE /\ reauths' = [reauths EXCEPT ![s] = @ + 1]
            /\ prior' = [prior EXCEPT ![s] = scopes] /\ wanted' = [wanted EXCEPT ![s] = asked]
            /\ At(s, "step_up")
    /\ UNCHANGED <<owner, token, shared, held, history>>

\* mutant: the challenge replaces the scopes
StepUpReplaces(s) ==
    /\ post[s] = "step_up"
    /\ IF stepUps >= MaxStepUp THEN At(s, "error") /\ UNCHANGED stepUps
       ELSE stepUps' = stepUps + 1 /\ At(s, "grant")
    /\ prior' = [prior EXCEPT ![s] = {}]
    /\ UNCHANGED <<reauths, owner, token, guard, scopes, held, wanted, history>>

\* StepUpTracker::next, which all sessions of the run share.
StepUp(s) ==
    /\ post[s] = "step_up"
    /\ IF stepUps >= MaxStepUp THEN At(s, "error") /\ UNCHANGED <<stepUps, wanted>>
       ELSE /\ stepUps' = stepUps + 1
            /\ wanted' = [wanted EXCEPT ![s] = @ \cup prior[s]]
            /\ At(s, "grant")
    /\ prior' = [prior EXCEPT ![s] = {}]
    /\ UNCHANGED <<reauths, owner, token, guard, scopes, held, history>>

\* The grant (OAuthGrant), which may fail.
Granted(s) ==
    /\ post[s] = "grant"
    /\ \E end \in {"widen", "error"} : At(s, end)
    /\ UNCHANGED <<reauths, owner, token, shared, locals, history>>

\* The scopes are written, whatever another has written since they were read; then the
\* session has the new provider and asks again.  Bound: a refresh token comes with it,
\* which only the run's first token may lack, and it is the last one.
Widen(s) ==
    /\ post[s] = "widen"
    /\ scopes' = wanted[s]
    /\ owner' = [owner EXCEPT ![s] = "own"] /\ token' = [token EXCEPT ![s] = [state |-> "good", refresh |-> RefreshCap]]
    /\ At(s, "header") /\ wanted' = [wanted EXCEPT ![s] = {}]
    /\ UNCHANGED <<reauths, guard, stepUps, held, prior, history>>

\* The locals of a request go with it.
Forget(s) ==
    /\ At(s, "idle") /\ reauths' = [reauths EXCEPT ![s] = 0]
    /\ held' = [held EXCEPT ![s] = 0] /\ prior' = [prior EXCEPT ![s] = {}] /\ wanted' = [wanted EXCEPT ![s] = {}]

\* The caller has its answer; or it does not wait, which frees the guard.
PostEnds(s) ==
    /\ post[s] \in {"answered", "error"}
    /\ Forget(s)
    /\ UNCHANGED <<owner, token, shared, history>>

PostDropped(s) ==
    /\ post[s] \notin {"idle", "answered", "error"}
    /\ Forget(s)
    /\ guard' = [o \in Owners |-> IF guard[o] = s THEN "free" ELSE guard[o]]
    /\ UNCHANGED <<owner, token, scopes, stepUps, history>>

-----------------------------------------------------------------------------
\* What the session does itself; its requests to an authorization server and its wait for
\* the browser have a time limit (EndpointPolicy, LoopbackCallback::wait).
SessionMoves(s) == Header(s) \/ TakeGuard(s) \/ Refresh(s) \/ StepUp(s) \/ Granted(s) \/ Widen(s)

\* The server's reply to a request, for which nothing sets a time limit (pinned_client).
ReplyArrives(s) == Answered(s) \/ \E asked \in Challenges : Challenged(s, asked)

OAuthStep ==
    \/ \E o \in Owners : TokenExpires(o)
    \/ \E s \in Sessions :
          PostBegins(s) \/ SessionMoves(s) \/ ReplyArrives(s) \/ PostEnds(s) \/ PostDropped(s)

-----------------------------------------------------------------------------
OAuthTypeOK ==
    /\ post \in [Sessions -> {"idle", "header", "guard", "refresh", "sent", "step_up", "grant", "widen",
                              "answered", "error"}]
    /\ reauths \in [Sessions -> 0..MaxReauth] /\ owner \in [Sessions -> {"run", "own"}]
    /\ token \in [Owners -> Tokens] /\ guard \in [Owners -> Sessions \cup {"free"}]
    /\ stepUps \in 0..MaxStepUp

\* A refresh token that the run got a successor for is not used again, however many sessions find
\* the token they share running out at the same time (authorization_header).
RefreshedOnce == ~reused

\* A step-up only adds: what the run was configured with is in every grant it asks for
\* and stays in the scopes, though two sessions that widen them at the same time lose
\* what the other one added (reauthorize, StepUpTracker::next).
StepUpKeepsConfigured ==
    /\ Configured \subseteq scopes
    /\ \A s \in Sessions : post[s] = "grant" => Configured \subseteq wanted[s]

\* The inductive invariants: a session that refreshes holds the guard of its provider and the
\* refresh token that is in the store, which is newer than all that were rotated.
RefreshInv ==
    /\ held \in [Sessions -> 0..RefreshCap] /\ rotated \subseteq Nat
    /\ \A k \in rotated : k < token["run"].refresh
    /\ \A s \in Sessions : post[s] = "refresh" =>
          guard[Provider(s)] = s /\ held[s] = token[Provider(s)].refresh

\* What was configured is carried through a step-up from its first read to its last write.
ScopesInv ==
    /\ prior \in [Sessions -> SUBSET Scope] /\ wanted \in [Sessions -> SUBSET Scope] /\ scopes \in SUBSET Scope
    /\ Configured \subseteq scopes
    /\ \A s \in Sessions : /\ post[s] = "step_up" => Configured \subseteq prior[s]
                           /\ post[s] \in {"grant", "widen"} => Configured \subseteq wanted[s]

SessionsInv == OAuthTypeOK /\ RefreshedOnce /\ RefreshInv /\ ScopesInv
=============================================================================
