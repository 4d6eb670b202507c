---------------------------- MODULE StdioSession ----------------------------
(***************************************************************************)
(* A session over a child process's pipes: how it is opened (session/      *)
(* connection.rs, version.rs, lifecycle.rs), its requests (session/        *)
(* request.rs, transport/stdio/mod.rs, reader.rs), and the teardown of the *)
(* child and of the pump that captures its stderr (shutdown.rs,            *)
(* stderr_pump.rs).                                                        *)
(*                                                                         *)
(* The server takes its time, answers in any order, every request at most  *)
(* once, and may exit at any moment.  Notifications are left out: the      *)
(* reader skips them and they change nothing.                              *)
(***************************************************************************)
EXTENDS Integers, SequencesExt

CONSTANT MaxRequests    \* bound: requests of one session, three of which may open it

ASSUME RequestsAssumption == MaxRequests \in Nat /\ MaxRequests >= 3

VARIABLES
    mode,       \* ConnectionMode
    era,        \* modern while Session.stateless is set, else legacy
    stage,      \* how far the session is
    startupError,  \* why it could not be opened
    announced,  \* notifications/initialized was sent
    call,       \* where the request in flight is
    last,       \* id of the last request
    method,     \* of each request
    answered,   \* what the server answered to each
    reply,      \* how each request ended for its caller
    stdin,      \* lines the server has not served yet; 0 is a line made of two
    torn,       \* a dropped write left the head of a line
    stdout,     \* lines the client has not read yet
    halfRead,   \* a dropped read lost the head of the first of them
    child,      \* the server's process
    pump,       \* the stderr pump's task
    pumpCancel, pumpAbort,  \* what was asked of it
    pipeOpen,   \* somebody may still write to the child's stderr
    captured,   \* the pump saw the end of stderr and flushed all of it
    close,      \* phase of shutdown
    childError, pumpError,  \* the results it combines
    verdict     \* what became of the session

callVars == <<call, last, method, reply, torn, halfRead>>
openVars == <<mode, era, stage, startupError, announced>>
wireVars == <<stdin, stdout, answered>>
pumpVars == <<pump, captured>>
closeVars == <<close, childError, pumpError, verdict, pumpCancel, pumpAbort>>
vars == <<openVars, callVars, wireVars, child, pipeOpen, pumpVars, closeVars>>

Id == 1..MaxRequests
Broken == [id |-> -1, kind |-> "broken"]     \* the torn last line of a server that died
Answer(m) == IF m = "discover" THEN {"ok", "retry", "refused", "error"} ELSE {"ok", "error"}

SessionTypeOK ==
    /\ mode \in {"auto", "legacy", "stateless"} /\ era \in {"modern", "legacy"}
    /\ mode = "legacy" => era = "legacy"
    /\ mode = "stateless" => era = "modern"
    /\ stage \in {"discover", "retry", "initialize", "announce", "ready", "closing", "over"}
    /\ era = "legacy" => stage \notin {"discover", "retry"}
    /\ startupError \in {"none", "retry", "refused", "error", "stale", "broken", "timeout"}
    /\ call \in {"none", "writing", "reading"} /\ last \in 0..MaxRequests
    /\ method \in [Id -> {"none", "discover", "initialize", "call"}]
    /\ answered \in [Id -> {"none", "ok", "retry", "refused", "error"}]
    /\ reply \in [Id -> {"none", "ok", "retry", "refused", "error", "stale", "broken", "timeout"}]
    /\ child \in {"alive", "killed", "exited", "reaped"}
    /\ pump \in {"none", "on", "ok", "failed", "aborted"}
    /\ close \in {"none", "graceful", "forced", "drain", "cancel", "abort", "done"}
    /\ verdict \in {"none", "clean", "error", "dropped"}
    /\ announced \in BOOLEAN /\ torn \in BOOLEAN /\ halfRead \in BOOLEAN
    /\ pumpCancel \in BOOLEAN /\ pumpAbort \in BOOLEAN /\ pipeOpen \in BOOLEAN
    /\ captured \in BOOLEAN /\ childError \in BOOLEAN /\ pumpError \in BOOLEAN

TypeOK ==
    /\ SessionTypeOK
    /\ stdin \in Seq(0..MaxRequests)
    /\ stdout \in Seq([id : 0..MaxRequests, kind : {"ok", "retry", "refused", "error"}] \cup {Broken})

Init ==
    /\ mode \in {"auto", "legacy", "stateless"}
    /\ era = IF mode = "legacy" THEN "legacy" ELSE "modern"
    /\ stage = IF mode = "legacy" THEN "initialize" ELSE "discover"
    /\ startupError = "none" /\ announced = FALSE
    /\ call = "none" /\ last = 0
    /\ method = [k \in Id |-> "none"] /\ answered = method /\ reply = method
    /\ stdin = <<>> /\ stdout = <<>> /\ torn = FALSE /\ halfRead = FALSE
    /\ child = "alive" /\ pump \in {"none", "on"} /\ pipeOpen = TRUE /\ captured = FALSE
    /\ pumpCancel = FALSE /\ pumpAbort = FALSE
    /\ close = "none" /\ childError = FALSE /\ pumpError = FALSE /\ verdict = "none"

-----------------------------------------------------------------------------
(***************************************************************************)
(* What the end of a request means for the session.                        *)
(***************************************************************************)
FailStartup(kind) ==
    /\ stage' = "closing" /\ close' = "graceful" /\ startupError' = kind
    /\ UNCHANGED era

\* mutant: a pinned stateless session falls back, too
FallsBackAlways(kind) == stage \in {"discover", "retry"} /\ kind \in {"error", "timeout"}

\* A server error that is none of the final protocol's, or a probe timeout.
FallsBack(kind) ==
    mode = "auto" /\ stage \in {"discover", "retry"} /\ kind \in {"error", "timeout"}

\* mutant: the late answer to the probe is taken for the one to initialize
ConcludeTrusting(kind) ==
    /\ call' = "none" /\ reply' = [reply EXCEPT ![last] = kind]
    /\ \/ stage = "ready" /\ UNCHANGED <<stage, era, startupError, close>>
       \/ stage = "initialize" /\ kind \in {"ok", "stale"}
          /\ stage' = "announce" /\ UNCHANGED <<era, startupError, close>>
       \/ FallsBack(kind) /\ stage' = "initialize" /\ era' = "legacy"
          /\ UNCHANGED <<startupError, close>>
       \/ stage \in {"discover", "retry"} /\ kind = "ok"
          /\ stage' = "ready" /\ UNCHANGED <<era, startupError, close>>
    /\ UNCHANGED <<mode, announced, last, method, child, pipeOpen, pumpVars,
                   childError, pumpError, verdict, pumpCancel, pumpAbort>>

\* discover, from_transport_auto, from_transport_stateless and initialize.
Conclude(kind) ==
    /\ call' = "none" /\ reply' = [reply EXCEPT ![last] = kind]
    /\ \/ stage = "ready"
          /\ UNCHANGED <<stage, era, startupError, close>>
       \/ stage \in {"discover", "retry"} /\ kind = "ok"
          /\ stage' = "ready" /\ UNCHANGED <<era, startupError, close>>
       \/ stage = "discover" /\ kind = "retry"
          /\ stage' = "retry" /\ UNCHANGED <<era, startupError, close>>
       \/ FallsBack(kind)
          /\ stage' = "initialize" /\ era' = "legacy" /\ UNCHANGED <<startupError, close>>
       \/ stage = "initialize" /\ kind = "ok"
          /\ stage' = "announce" /\ UNCHANGED <<era, startupError, close>>
       \/ stage = "discover" /\ kind \notin {"ok", "retry"} /\ ~FallsBack(kind) /\ FailStartup(kind)
       \/ stage = "retry" /\ kind # "ok" /\ ~FallsBack(kind) /\ FailStartup(kind)
       \/ stage = "initialize" /\ kind # "ok" /\ FailStartup(kind)
    /\ UNCHANGED <<mode, announced, last, method, child, pipeOpen, pumpVars,
                   childError, pumpError, verdict, pumpCancel, pumpAbort>>

-----------------------------------------------------------------------------
(***************************************************************************)
(* One request: a line out, a line in.                                     *)
(***************************************************************************)
Begin ==
    /\ stage \in {"discover", "retry", "initialize", "ready"}
    /\ call = "none" /\ last < MaxRequests
    /\ last' = last + 1 /\ call' = "writing"
    /\ method' = [method EXCEPT ![last'] = CASE stage = "ready" -> "call"
                                             [] stage = "initialize" -> "initialize"
                                             [] OTHER -> "discover"]
    /\ UNCHANGED <<openVars, reply, torn, halfRead, wireVars, child, pipeOpen, pumpVars, closeVars>>

\* A line written after the head of another makes one line with it.  The write has no
\* deadline: a server that does not read its stdin keeps it waiting.
WriteLine ==
    /\ call = "writing" /\ child = "alive"
    /\ call' = "reading" /\ torn' = FALSE
    /\ stdin' = Append(stdin, IF torn THEN 0 ELSE last)
    /\ UNCHANGED <<openVars, last, method, reply, halfRead, stdout, answered,
                   child, pipeOpen, pumpVars, closeVars>>

WriteFails ==
    /\ call = "writing" /\ child # "alive"
    /\ Conclude("broken")
    /\ UNCHANGED <<wireVars, torn, halfRead>>

\* mutant: the next line is taken for the response
ReadAnyLine ==
    /\ call = "reading" /\ stdout # <<>>
    /\ Conclude(IF halfRead THEN "broken" ELSE Head(stdout).kind)
    /\ stdout' = Tail(stdout) /\ halfRead' = FALSE
    /\ UNCHANGED <<stdin, answered, torn>>

\* The first line is the response, whatever it is: its id must be the request's.
\* The answer to a line made of two has none.
ReadLine ==
    /\ call = "reading" /\ stdout # <<>>
    /\ LET line == Head(stdout) IN
       Conclude(IF halfRead \/ line.id < 1 THEN "broken"
                ELSE IF line.id # last THEN "stale" ELSE line.kind)
    /\ stdout' = Tail(stdout) /\ halfRead' = FALSE
    /\ UNCHANGED <<stdin, answered, torn>>

ReadEof ==
    /\ call = "reading" /\ stdout = <<>> /\ child # "alive"
    /\ Conclude("broken")
    /\ UNCHANGED <<wireVars, torn, halfRead>>

\* mutant: only the startup budget ends a wait
TimesOutAtStartup ==
    /\ call # "none" /\ stage # "ready"
    /\ Conclude("timeout")
    /\ UNCHANGED <<stdin, torn, halfRead, stdout, answered>>

\* The startup budget, the transport's deadline or the caller's watchdog drops
\* the request: within its line or after it, or within a line it was reading.
TimesOut ==
    /\ call # "none"
    /\ Conclude("timeout")
    /\ \/ call = "writing" /\ torn' \in {torn, TRUE} /\ UNCHANGED <<stdin, halfRead>>
       \/ call = "writing" /\ torn' = FALSE /\ stdin' = Append(stdin, IF torn THEN 0 ELSE last)
          /\ UNCHANGED halfRead
       \/ call = "reading" /\ halfRead' \in {halfRead, halfRead \/ stdout # <<>>}
          /\ UNCHANGED <<stdin, torn>>
    /\ UNCHANGED <<stdout, answered>>

\* notifications/initialized makes the session ready; its line is answered by none.
Announce ==
    /\ stage = "announce"
    /\ \/ child = "alive" /\ announced' = TRUE /\ stage' = "ready"
          /\ UNCHANGED <<era, startupError, close>>
       \/ FailStartup(IF child = "alive" THEN "timeout" ELSE "broken") /\ UNCHANGED announced
    /\ UNCHANGED <<mode, callVars, wireVars, child, pipeOpen, pumpVars,
                   childError, pumpError, verdict, pumpCancel, pumpAbort>>

-----------------------------------------------------------------------------
(***************************************************************************)
(* The server and its stderr.                                              *)
(***************************************************************************)
\* Any request that waits is answered; a line made of two is answered without id.
Serve ==
    /\ child = "alive" /\ stage \notin {"closing", "over"}
    /\ \E i \in DOMAIN stdin :
          LET k == stdin[i] IN
          /\ stdin' = RemoveAt(stdin, i)
          /\ \E kind \in IF k = 0 THEN {"error"} ELSE Answer(method[k]) :
                /\ stdout' = Append(stdout, [id |-> k, kind |-> kind])
                /\ answered' = IF k = 0 THEN answered ELSE [answered EXCEPT ![k] = kind]
    /\ UNCHANGED <<openVars, callVars, child, pipeOpen, pumpVars, closeVars>>

\* A descendant may keep the stderr pipe open beyond the child's life.
ChildExits ==
    /\ child \in {"alive", "killed"}
    /\ child' = "exited" /\ pipeOpen' \in {pipeOpen, FALSE}
    /\ stdout' \in {stdout, Append(stdout, Broken)}
    /\ UNCHANGED <<openVars, callVars, stdin, answered, pumpVars, closeVars>>

PipeCloses ==
    /\ child \in {"exited", "reaped"} /\ pipeOpen
    /\ pipeOpen' = FALSE
    /\ UNCHANGED <<openVars, callVars, wireVars, child, pumpVars, closeVars>>

\* The end of stderr, or what shutdown or Drop asked for.
PumpEnds ==
    /\ pump = "on"
    /\ \/ ~pipeOpen /\ pump' = "ok" /\ captured' = TRUE
       \/ pumpCancel /\ pump' = "ok" /\ UNCHANGED captured
       \/ pumpAbort /\ pump' = "aborted" /\ UNCHANGED captured
    /\ UNCHANGED <<openVars, callVars, wireVars, child, pipeOpen, closeVars>>

\* A read, write or flush of it fails.
PumpFails ==
    /\ pump = "on"
    /\ pump' = "failed"
    /\ UNCHANGED <<openVars, callVars, wireVars, child, pipeOpen, captured, closeVars>>

-----------------------------------------------------------------------------
(***************************************************************************)
(* shutdown, also that of a session that failed to open.                   *)
(***************************************************************************)
BeginShutdown ==
    /\ stage = "ready" /\ call = "none"
    /\ stage' = "closing" /\ close' = "graceful"
    /\ UNCHANGED <<mode, era, startupError, announced, callVars, wireVars, child, pipeOpen,
                   pumpVars, childError, pumpError, verdict, pumpCancel, pumpAbort>>

Reap(failed) ==
    /\ close' = "drain" /\ childError' = failed
    /\ child' = IF child = "exited" /\ ~failed THEN "reaped" ELSE child

\* The child ends by itself, or the wait ends and a direct probe does not see it.
GracefulPhase ==
    /\ close = "graceful"
    /\ \/ child = "exited" /\ Reap(FALSE)
       \/ /\ close' = "forced" /\ UNCHANGED childError
          /\ child' = IF child = "alive" THEN "killed" ELSE child
    /\ UNCHANGED <<openVars, callVars, wireVars, pipeOpen, pumpVars, pumpError, verdict,
                   pumpCancel, pumpAbort>>

\* After the kill only a child that was seen to end is reaped.
ForcedPhase ==
    /\ close = "forced"
    /\ \/ child = "exited" /\ Reap(FALSE)
       \/ Reap(TRUE)
    /\ UNCHANGED <<openVars, callVars, wireVars, pipeOpen, pumpVars, pumpError, verdict,
                   pumpCancel, pumpAbort>>

PumpJoined(failed) == close' = "done" /\ pumpError' = failed /\ UNCHANGED <<pumpCancel, pumpAbort>>

\* mutant: a pump that ended after its cancellation ended well
PumpPhaseForgiving ==
    /\ \/ close = "drain" /\ pump # "on" /\ PumpJoined(pump = "failed")
       \/ close = "drain" /\ pump = "on"
          /\ close' = "cancel" /\ pumpCancel' = TRUE /\ UNCHANGED <<pumpError, pumpAbort>>
       \/ close = "cancel" /\ pump # "on" /\ PumpJoined(pump = "failed")
       \/ close = "cancel" /\ pump = "on"
          /\ close' = "abort" /\ pumpAbort' = TRUE /\ UNCHANGED <<pumpError, pumpCancel>>
       \/ close = "abort" /\ pump # "on" /\ PumpJoined(TRUE)
    /\ UNCHANGED <<openVars, callVars, wireVars, child, pipeOpen, pumpVars, childError, verdict>>

\* Only a pump that ended before it was cancelled is known to have read it all.
PumpPhase ==
    /\ \/ close = "drain" /\ pump # "on" /\ PumpJoined(pump = "failed")
       \/ close = "drain" /\ pump = "on"
          /\ close' = "cancel" /\ pumpCancel' = TRUE /\ UNCHANGED <<pumpError, pumpAbort>>
       \/ close = "cancel" /\ pump # "on" /\ PumpJoined(TRUE)
       \/ close = "cancel" /\ pump = "on"
          /\ close' = "abort" /\ pumpAbort' = TRUE /\ UNCHANGED <<pumpError, pumpCancel>>
       \/ close = "abort" /\ pump # "on" /\ PumpJoined(TRUE)
    /\ UNCHANGED <<openVars, callVars, wireVars, child, pipeOpen, pumpVars, childError, verdict>>

ShutdownReturns ==
    /\ close = "done" /\ stage = "closing"
    /\ stage' = "over"
    /\ verdict' = IF childError \/ pumpError THEN "error" ELSE "clean"
    /\ UNCHANGED <<mode, era, startupError, announced, callVars, wireVars, child, pipeOpen,
                   pumpVars, close, childError, pumpError, pumpCancel, pumpAbort>>

\* mutant: a shutdown under way holds the pump's handle
DroppedWithoutPump ==
    /\ stage # "over"
    /\ stage' = "over" /\ verdict' = "dropped" /\ call' = "none"
    /\ child' = IF child = "alive" THEN "killed" ELSE child
    /\ IF close \in {"drain", "cancel"} THEN UNCHANGED <<pumpCancel, pumpAbort>>
       ELSE pumpCancel' = TRUE /\ pumpAbort' = TRUE
    /\ UNCHANGED <<mode, era, startupError, announced, last, method, reply, torn, halfRead,
                   wireVars, pipeOpen, pumpVars, close, childError, pumpError>>

\* The owner drops the session, or the future that opens or shuts it down.
Dropped ==
    /\ stage # "over"
    /\ stage' = "over" /\ verdict' = "dropped" /\ call' = "none"
    /\ child' = IF child = "alive" THEN "killed" ELSE child
    /\ pumpCancel' = TRUE /\ pumpAbort' = TRUE
    /\ UNCHANGED <<mode, era, startupError, announced, last, method, reply, torn, halfRead,
                   wireVars, pipeOpen, pumpVars, close, childError, pumpError>>

-----------------------------------------------------------------------------
Client == Begin \/ WriteLine \/ WriteFails \/ ReadLine \/ ReadEof \/ TimesOut \/ Announce
Server == Serve \/ ChildExits \/ PipeCloses \/ PumpEnds \/ PumpFails
Closing == GracefulPhase \/ ForcedPhase \/ PumpPhase \/ ShutdownReturns

Next == \/ Client \/ Server \/ BeginShutdown
        \/ stage = "closing" /\ Closing
        \/ Dropped

Spec == Init /\ [][Next]_vars

\* The runtime polls the session and the pump, and every wait has a deadline but the
\* write of a request of a session that is ready, which has one only if its caller
\* watches it.  Nothing makes the server read, answer, exit or die, or its descendants
\* close its pipes.
Fairness ==
    /\ WF_vars(stage # "ready" /\ Begin)
    /\ WF_vars(ReadLine \/ ReadEof)
    /\ WF_vars((stage # "ready" \/ call = "reading") /\ TimesOut) /\ WF_vars(Announce)
    /\ WF_vars(stage = "closing" /\ Closing)
    /\ WF_vars(PumpEnds)

FairSpec == Spec /\ Fairness

-----------------------------------------------------------------------------
\* A call that succeeds was answered so by the server: the late answer of a call
\* that was dropped is never taken for another one's, and neither is what is left
\* of a torn line (Session::request, StdioTransport::request).
OwnAnswer == \A k \in Id : reply[k] \in {"ok", "retry", "refused", "error"} => reply[k] = answered[k]

\* A session is only handed out when the server agreed to the era it speaks: it
\* discovered the modern one, or initialized the legacy one and was told so, with
\* whatever is still on its way from the probe (from_transport_auto).
EraIsAgreed == stage = "ready" =>
    \E k \in Id : /\ answered[k] = "ok"
                  /\ \/ era = "modern" /\ method[k] = "discover"
                     \/ era = "legacy" /\ method[k] = "initialize" /\ announced

\* What a call or the start of a session reports as answered was answered so, whichever
\* lines are late, torn or left from the probe (Session::request, from_transport_auto).
AnswersAreTrue == TypeOK /\ OwnAnswer /\ EraIsAgreed

\* A teardown that reports no error has reaped the child and, if its stderr was
\* captured, captured all of it (shutdown::run, stop_stderr_pump).
CleanMeansWhole == verdict = "clean" => child = "reaped" /\ (pump = "none" \/ captured)

\* Whatever the server does not do, every teardown ends, and every request but one
\* whose line is never read.
WaitsEnd ==
    /\ \/ <>[](stage = "ready" /\ call = "writing")
       \/ call # "none" ~> call = "none"
    /\ stage = "closing" ~> stage = "over"

\* The pump's task outlives no session, also if the owner drops the shutdown halfway
\* or a descendant of the server keeps stderr open (stop_stderr_pump, Drop).
PumpEndsWithSession == stage = "over" ~> pump # "on"

\* Nothing the session started goes on without it: no answer is awaited for ever, no
\* teardown, no pump
\* (StdioTransport::request, shutdown::run, Drop).
EveryWaitEnds == WaitsEnd /\ PumpEndsWithSession

\* connection.rs on from_transport_auto: "or a probe timeout, falls back on the same
\* transport to `initialize`": a server that is only slow can then be initialized.
FallbackReachesServer == startupError # "stale"
-----------------------------------------------------------------------------
(***************************************************************************)
(* The inductive invariant.                                                *)
(***************************************************************************)
\* A line that waits for the server, a line that waits for the client and a line
\* still to be written are never of the same request.
WireInv ==
    /\ \A i \in DOMAIN stdin : stdin[i] > 0 => stdin[i] <= last /\ answered[stdin[i]] = "none"
    /\ \A i, j \in DOMAIN stdin : stdin[i] = stdin[j] /\ stdin[i] > 0 => i = j
    /\ call = "writing" => answered[last] = "none" /\ \A i \in DOMAIN stdin : stdin[i] # last
    /\ \A k \in Id : k > last => answered[k] = "none" /\ reply[k] = "none"
    /\ \A i \in DOMAIN stdout : stdout[i].id > 0 => answered[stdout[i].id] = stdout[i].kind

MethodAt(s) == CASE s \in {"discover", "retry"} -> "discover"
                 [] s = "initialize" -> "initialize"
                 [] OTHER -> "call"

Initialized == \E k \in 1..last : answered[k] = "ok" /\ method[k] = "initialize"
Discovered == \E k \in 1..last : answered[k] = "ok" /\ method[k] = "discover"

OpenInv ==
    /\ call # "none" => /\ stage \in {"discover", "retry", "initialize", "ready"}
                        /\ last > 0 /\ method[last] = MethodAt(stage)
    /\ stage \in {"initialize", "announce"} => era = "legacy"
    /\ stage = "announce" => Initialized
    /\ stage = "ready" => IF era = "modern" THEN Discovered ELSE Initialized /\ announced

CloseInv ==
    /\ stage \notin {"closing", "over"} => close = "none"
    /\ close \in {"drain", "cancel", "abort", "done"} /\ ~childError => child = "reaped"
    /\ stage # "over" /\ close \in {"none", "graceful", "forced", "drain"}
          => ~pumpCancel /\ ~pumpAbort
    /\ pump = "ok" => captured \/ pumpCancel
    /\ pump = "aborted" => pumpAbort
    /\ close = "done" /\ ~pumpError => pump = "none" \/ captured
    /\ verdict = "clean" => stage = "over"

IInv == TypeOK /\ WireInv /\ OpenInv /\ CloseInv /\ OwnAnswer /\ CleanMeansWhole
=============================================================================
