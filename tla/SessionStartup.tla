--------------------------- MODULE SessionStartup ---------------------------
(***************************************************************************)
(* How a session of a run is made: Run::execute and the SessionFactory it  *)
(* builds (engine run/executor.rs, run/factory.rs, protocol factory.rs),   *)
(* build_session with its startup deadline (run/connect.rs), and the three *)
(* ways of a handshake (protocol session/connection.rs, lifecycle.rs).     *)
(*                                                                         *)
(* The deadline passes at any moment; every wait before it has ended says  *)
(* so or is cut off by it.                                                 *)
(***************************************************************************)
EXTENDS Integers, FiniteSets

VARIABLES
    order,     \* what is asked for: the config, and whether the factory makes the session
    stage,     \* where it is
    late,      \* the startup deadline has passed
    conn,      \* what became of the transport
    told,      \* the error names a teardown that failed
    bearer,    \* the transport was given the OAuth runtime
    version,   \* the version the session negotiated: one of the known ones or another
    schemas,   \* the strict schemas are set
    overrun    \* history: the handshake ended after the deadline

startupVars == <<order, stage, late, conn, told, bearer, version, schemas, overrun>>

\* Of the configs those that validate accepts: a stateless version not over sse or ws, auth
\* only over http and sse.  The factory may override the version (version_matrix); a run of
\* the action keeps the server's identity out of its errors (redact).
Orders ==
    {o \in [transport : {"stdio", "http", "sse", "ws"}, mode : {"auto", "legacy", "stateless"},
            strict : BOOLEAN, auth : BOOLEAN, factory : BOOLEAN, redact : BOOLEAN] :
        /\ o.mode = "stateless" /\ ~o.factory => o.transport \in {"stdio", "http"}
        /\ o.auth => o.transport \in {"http", "sse"}}

StartupInit ==
    /\ order \in Orders
    /\ stage = IF order.auth /\ ~order.factory THEN "oauth" ELSE "transport"
    /\ late = FALSE /\ conn = "none" /\ told = FALSE /\ bearer = FALSE /\ version = "none"
    /\ schemas = FALSE /\ overrun = FALSE

DeadlinePasses ==
    /\ ~late /\ stage \notin {"ready", "failed"}
    /\ late' = TRUE
    /\ UNCHANGED <<order, stage, conn, told, bearer, version, schemas, overrun>>

\* prepare_oauth (OAuthGrant), once for the run.
PrepareOauth ==
    /\ stage = "oauth"
    /\ stage' \in {"transport", "failed"}
    /\ UNCHANGED <<order, late, conn, told, bearer, version, schemas, overrun>>

-----------------------------------------------------------------------------
(***************************************************************************)
(* build_session.                                                          *)
(***************************************************************************)
\* A version that is stateless is refused over sse and ws.
Unsupported == order.mode = "stateless" /\ order.transport \in {"sse", "ws"}

\* from_transport_auto, from_transport_with_version or from_transport_stateless.
Handshake ==
    IF order.mode = "stateless" THEN "discover"
    ELSE IF order.mode = "auto" /\ order.transport \in {"stdio", "http"} THEN "probe" ELSE "initialize"

\* startup_connect: cut off at the deadline; only the http transport takes the runtime.
Connect ==
    /\ stage = "transport"
    /\ \/ /\ ~Unsupported /\ ~late
          /\ conn' = "open" /\ stage' = Handshake
          /\ bearer' = (order.auth /\ order.transport = "http")
       \/ stage' = "failed" /\ UNCHANGED <<conn, bearer>>
    /\ UNCHANGED <<order, late, told, version, schemas, overrun>>

\* mutant: the session is dropped with its error
Abandon == stage' = "failed" /\ UNCHANGED <<conn, told>>

\* redacted_server_error stands for every error of build_session and of the run's own list
\* of tools; that of a worker's list is handed on.
Redacted == order.redact /\ ~(order.factory /\ stage = "built")

\* cleanup_failed_startup, shutdown_after_session_error: the transport is shut down, and if
\* that fails or lasts too long the error says so too, if anybody is to see it.
CleanUp ==
    /\ stage' = "failed"
    /\ \/ conn' = "closed" /\ UNCHANGED told
       \/ conn' = "unsure" /\ told' = ~Redacted

\* The probe of `auto`: a server that is too new is refused, one that knows no discovery, or
\* does not answer in its own five seconds, is initialized with the whole budget again.
Probed ==
    /\ stage = "probe"
    /\ \/ stage' = "deadline" /\ version' = "known" /\ overrun' = late /\ UNCHANGED <<conn, told>>
       \/ stage' = "initialize" /\ UNCHANGED <<conn, told, version, overrun>>
       \/ CleanUp /\ UNCHANGED <<version, overrun>>
    /\ UNCHANGED <<order, late, bearer, schemas>>

\* initialize takes any version the server names; discover only the one it asked for.
HandshakeEnds ==
    /\ stage \in {"initialize", "discover"}
    /\ \/ /\ stage' = "deadline" /\ overrun' = late /\ UNCHANGED <<conn, told>>
          /\ version' \in IF stage = "initialize" THEN {"known", "other"} ELSE {"known"}
       \/ CleanUp /\ UNCHANGED <<version, overrun>>
    /\ UNCHANGED <<order, late, bearer, schemas>>

\* mutant: the deadline is left to the waits
NeverLate ==
    /\ stage = "deadline"
    /\ stage' = (IF order.mode = "stateless" THEN "built" ELSE "schema_gate") /\ UNCHANGED <<conn, told>>
    /\ UNCHANGED <<order, late, bearer, version, schemas, overrun>>

\* finish_before_startup_deadline.
FinishInTime ==
    /\ stage = "deadline"
    /\ IF late THEN CleanUp
       ELSE stage' = (IF order.mode = "stateless" THEN "built" ELSE "schema_gate") /\ UNCHANGED <<conn, told>>
    /\ UNCHANGED <<order, late, bearer, version, schemas, overrun>>

\* The gate of strict validation, for a version that was negotiated.
StrictGate ==
    /\ stage = "schema_gate"
    /\ IF order.strict /\ version # "known" THEN CleanUp ELSE stage' = "built" /\ UNCHANGED <<conn, told>>
    /\ UNCHANGED <<order, late, bearer, version, schemas, overrun>>

-----------------------------------------------------------------------------
(***************************************************************************)
(* Run::execute, and the factory.                                          *)
(***************************************************************************)
\* The run lists the tools always, the factory only for the schemas.
Lists == ~order.factory \/ order.strict

\* list_tools_before_startup_deadline: the deadline is asked before and after.
ListTools ==
    /\ stage = "built" /\ Lists
    /\ \/ stage' = "ready" /\ ~late /\ schemas' = order.strict /\ UNCHANGED <<conn, told>>
       \/ CleanUp /\ UNCHANGED schemas
    /\ UNCHANGED <<order, late, bearer, version, overrun>>

HandOver ==
    /\ stage = "built" /\ ~Lists
    /\ stage' = "ready"
    /\ UNCHANGED <<order, late, conn, told, bearer, version, schemas, overrun>>

StartupMoves == PrepareOauth \/ Connect \/ Probed \/ HandshakeEnds \/ FinishInTime \/ StrictGate \/ ListTools \/ HandOver

StartupStep == DeadlinePasses \/ StartupMoves

-----------------------------------------------------------------------------
StartupTypeOK ==
    /\ stage \in {"oauth", "transport", "probe", "initialize", "discover", "deadline", "schema_gate", "built", "ready", "failed"}
    /\ conn \in {"none", "open", "closed", "unsure"} /\ version \in {"none", "known", "other"}
    /\ late \in BOOLEAN /\ told \in BOOLEAN /\ bearer \in BOOLEAN /\ schemas \in BOOLEAN /\ overrun \in BOOLEAN

\* A session is handed over with a live transport and a handshake that ended in time; a
\* strict run has none, its own or a worker's, without the tools' schemas or with a
\* version nobody knows (build_session, list_tools_before_startup_deadline).
ReadyIsSound ==
    stage = "ready" =>
        /\ conn = "open" /\ ~overrun
        /\ order.strict => schemas /\ version = "known"

\* Every session that was not handed over had its transport shut down, and a teardown that
\* may have left it running is in the error unless the run redacts its errors
\* (shutdown_after_session_error, cleanup_failed_startup, redacted_server_error).
FailureIsCleanedUp == stage = "failed" => conn # "open" /\ (conn = "unsure" => told \/ order.redact)

\* What an accepted auth block is for: the sessions use the token (validate_auth accepts it
\* over http and sse).
AcceptedAuthIsUsed == stage = "ready" /\ order.auth => bearer

\* The inductive invariant: what holds of the transport and of the handshake at each stage.
StartupInv ==
    /\ StartupTypeOK /\ ReadyIsSound /\ FailureIsCleanedUp
    /\ order.strict \in BOOLEAN /\ order.redact \in BOOLEAN /\ order.factory \in BOOLEAN
    /\ stage \in {"oauth", "transport"} => conn = "none"
    /\ stage \notin {"oauth", "transport", "failed"} => conn = "open"
    /\ stage \in {"probe", "initialize"} => order.mode # "stateless"
    /\ stage = "deadline" => (overrun => late) /\ (order.mode = "stateless" => version = "known")
    /\ stage \in {"schema_gate", "built"} => ~overrun
    /\ stage = "built" => (order.strict => version = "known")
=============================================================================
