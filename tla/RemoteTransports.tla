-------------------------- MODULE RemoteTransports --------------------------
(***************************************************************************)
(* What speaks to another process over a stream of bytes, but for the      *)
(* WebSocket and stdio transports: the SSE transport, the requests of the  *)
(* HTTP transport, the parsers of event streams both rest on, and the      *)
(* control channel of a distributed run.  They share no state: a behaviour *)
(* is one of any of the four.                                              *)
(***************************************************************************)
EXTENDS SseTransport, EventStream, HttpExchange, NdjsonChannel

VARIABLE part

remoteVars == <<part, sseVars, streamVars, httpVars, channelVars>>

Init ==
    /\ part \in {"sse", "stream", "http", "channel"}
    /\ SseInit /\ StreamInit /\ HttpInit /\ ChannelInit

Over(p, A, rest) == part = p /\ A /\ UNCHANGED <<part, rest>>

OverSse(A) == Over("sse", A, <<streamVars, httpVars, channelVars>>)
OverChannel(A) == Over("channel", A, <<sseVars, streamVars, httpVars>>)

Next ==
    \/ OverSse(SseStep)
    \/ Over("stream", StreamStep, <<sseVars, httpVars, channelVars>>)
    \/ Over("http", HttpStep, <<sseVars, streamVars, channelVars>>)
    \/ OverChannel(ChannelNext)

Spec == Init /\ [][Next]_remoteVars

\* The runtime polls the readers and the calls, and their timers expire; the peer may
\* stay silent, or send notifications for ever, and need never answer a POST.  A writer of the control channel that
\* lives writes on and closes; a poll of its reader may expire again and again, but not
\* while pieces are waiting.
FairSpec ==
    /\ Spec
    /\ WF_remoteVars(OverSse(ReaderMoves))
    /\ WF_remoteVars(OverSse(CallMoves))
    /\ WF_remoteVars(OverSse(CloseMoves))
    /\ WF_remoteVars(OverChannel(Write))
    /\ WF_remoteVars(OverChannel(Send \/ Close))
    /\ WF_remoteVars(OverChannel(StartReceive))
    /\ WF_remoteVars(OverChannel(Fill))
    /\ WF_remoteVars(OverChannel(Eof))

-----------------------------------------------------------------------------
\* A permit is held for every byte of the SSE frames that are on their way or stashed and
\* for no other; and a request that waits has not already received its answer
\* (InboundFrame, SseTransport::request).
FramesAreKept == SseTypeOK /\ PermitsAreExact /\ StashIsSearched

\* A request over SSE goes where it may, and a shutdown says how the stream ended
\* (resolve_and_check, same_origin, shutdown).
SseIsGuarded == OnlyCheckedAddresses /\ FailureIsTold

\* A request over HTTP is the one its caller made: its headers are those of the tool it
\* calls and what a stream gives back is its own answer (prepare, read_sse_response).
HttpIsOwn == HttpTypeOK /\ HeadersFollowSchema /\ StreamAnswersOwn

\* The parsers read what was sent, however it is cut (next_event, scan_sse_events).
StreamsAreRead == StreamTypeOK /\ EventsOfTheStream

\* Every request over SSE ends, unless it is its POST that is never answered, which has
\* no limit, and so does the shutdown, even while the server floods the stream with
\* frames nobody waits for (MAX_PENDING_FRAMES, DEFAULT_RECV_TIMEOUT,
\* SHUTDOWN_JOIN_TIMEOUT); and whatever the writer, the pipe and the polls do, the
\* reader of the control channel ends, with the frames or with an error (receive).
SseCallsEnd ==
    /\ stage \in {"posting", "posted", "waiting"}
           ~> (stage \notin {"posting", "posted", "waiting"} \/ [](stage = "posting"))
    /\ stage = "joining" ~> stage = "over"

ReaderEnds == part = "channel" ~> result # "none"

CallsEnd == SseCallsEnd /\ ReaderEnds
=============================================================================
