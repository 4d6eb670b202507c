------------------------------- MODULE Access -------------------------------
(***************************************************************************)
(* How a run gets at its server: the grant it asks for (OAuthGrant), the   *)
(* sessions that share the token (OAuthSessions) and the start of one      *)
(* session (SessionStartup).  A behaviour is one of any of the three: the  *)
(* other two see of a grant only whether it succeeded.                     *)
(***************************************************************************)
EXTENDS OAuthGrant, OAuthSessions, SessionStartup

VARIABLE part

accessVars == <<part, grantVars, oauthVars, startupVars>>

\* What a part that does not run begins with makes no difference.
Init ==
    /\ part \in {"grant", "sessions", "startup"} /\ GrantInit /\ OAuthInit /\ StartupInit
    /\ part # "grant" => plan = CHOOSE p \in AuthConfig : TRUE
    /\ part # "sessions" => token["run"].refresh = 0
    /\ part # "startup" => order = CHOOSE o \in Orders : TRUE

Over(p, A, rest) == part = p /\ A /\ UNCHANGED <<part, rest>>

Next ==
    \/ Over("grant", GrantStep, <<oauthVars, startupVars>>)
    \/ Over("sessions", OAuthStep, <<grantVars, startupVars>>)
    \/ Over("startup", StartupStep, <<grantVars, oauthVars>>)

Spec == Init /\ [][Next]_accessVars

OverSessions(A) == Over("sessions", A, <<grantVars, startupVars>>)

\* Refreshes, grants and handshakes have time limits, and the refresh guard is handed on in
\* the order it was asked for; a server need not answer a request (ReplyArrives).
FairSpec ==
    /\ Spec
    /\ WF_accessVars(Over("startup", StartupMoves, <<grantVars, oauthVars>>))
    /\ \A s \in Sessions : WF_accessVars(OverSessions(SessionMoves(s))) /\ SF_accessVars(OverSessions(TakeGuard(s)))

-----------------------------------------------------------------------------
\* The run's token serves all its sessions: what was refreshed once is not refreshed with
\* the old token again, and a step-up takes nothing away (authorization_header,
\* reauthorize).
TokenIsShared == OAuthTypeOK /\ RefreshedOnce /\ StepUpKeepsConfigured

\* The start of a session gives a sound one or shuts its transport down, and says so when
\* that failed, but for a run that redacts its errors (build_session, cleanup_failed_startup).
StartupIsSound == StartupTypeOK /\ ReadyIsSound /\ FailureIsCleanedUp

\* A request ends unless the server leaves it without an answer for ever, though every
\* answer is a challenge and the guard of the shared token is asked for by all; and the
\* start of a session ends (HttpTransport::post, access_token, build_session).
RequestsEnd ==
    /\ \A s \in Sessions :
          post[s] = "header" ~> (post[s] \in {"answered", "error", "idle"} \/ [](post[s] = "sent"))
    /\ part = "startup" ~> stage \in {"ready", "failed"}
=============================================================================
