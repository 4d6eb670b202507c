---------------------------- MODULE SseTransport ----------------------------
(***************************************************************************)
(* The SSE transport (protocol transport/sse.rs and sse/reader.rs, with    *)
(* the connection guard of transport/guard.rs and resolve.rs): requests go *)
(* out as POSTs, answers come back as events of one stream, which a        *)
(* background task reads.                                                  *)
(*                                                                         *)
(* The server may send any frame at any time: answers early, late, twice   *)
(* or never, and notifications without end.                                *)
(***************************************************************************)
EXTENDS Integers, SequencesExt

CONSTANTS
    SseCalls,     \* bound: requests
    FrameSizes,   \* what a frame may be charged
    EventCap,     \* READER_CHANNEL_CAP
    StashCap,     \* MAX_PENDING_FRAMES
    InboundBudget \* INBOUND_BYTE_BUDGET

ASSUME SseAssumption ==
    /\ SseCalls \in Nat /\ FrameSizes \subseteq Nat \ {0} /\ IsFiniteSet(FrameSizes)
    /\ EventCap \in Nat \ {0} /\ StashCap \in Nat /\ InboundBudget \in Nat

VARIABLES
    stage,      \* connect, then the call that is made on the transport, then shutdown
    astray,     \* history: a request went where it must not
    task,       \* the reader task
    inHand,     \* what it is about to send on
    events,     \* the channel
    stash,      \* frames whose id nobody waited for
    permits,    \* byte_budget
    latch,      \* terminal_error
    stop,       \* the cancellation token
    asked,      \* id of the last request
    replies,    \* how each request ended
    trouble,    \* shutdown noted a failure
    ended       \* what shutdown returned

sseReader == <<task, inHand, latch>>
sseClose == <<stop, trouble, ended>>
sseVars == <<sseReader, sseClose, stage, astray, events, stash, permits, asked, replies>>

SseFrame == [id : 0..SseCalls, size : FrameSizes]
NoEvent == [id |-> -1, size |-> 0]
ErrorEvent == [id |-> -2, size |-> 0]

ReaderTerminalError == {"StreamRead", "EventLimit", "UnexpectedEof", "AggregateBudget"}

-----------------------------------------------------------------------------
(***************************************************************************)
(* connect: two URLs, the one that is configured and the one the endpoint  *)
(* event names, each of which is checked, resolved and pinned.             *)
(***************************************************************************)
Hosts == [literal : BOOLEAN, listed : BOOLEAN, private : SUBSET BOOLEAN \ {{}}, origin : BOOLEAN]

\* check_url: a host on the list passes; another literal passes if its address is
\* public and there is no list, another name if there is no list.
CheckUrl(h, listing) == h.listed \/ (~listing /\ (h.literal => TRUE \notin h.private))

\* resolve_and_check: all addresses a name has are looked at, and only those dialled.
ResolveAndCheck(h, listing) == CheckUrl(h, listing) /\ (h.listed \/ TRUE \notin h.private)

SseInit ==
    /\ stage = "connect" /\ astray = FALSE
    /\ task = "none" /\ inHand = NoEvent /\ events = <<>> /\ stash = <<>> /\ permits = InboundBudget
    /\ latch = "none" /\ stop = FALSE /\ asked = 0 /\ replies = [k \in 1..SseCalls |-> "none"]
    /\ trouble = FALSE /\ ended = "none"

\* The addresses of h are dialled, with the secret headers or without.
Dial(h, secrets) == astray' = (astray \/ (~h.listed /\ TRUE \in h.private) \/ (secrets /\ ~h.origin))

\* The URL is refused or the stream opened, which may fail; an event other than the
\* endpoint is passed over.
OpenStream(h, listing, secrets) ==
    /\ stage = "connect" /\ h.origin /\ (listing \/ ~h.listed) /\ (h.literal => Cardinality(h.private) = 1)
    /\ IF ResolveAndCheck(h, listing)
       THEN Dial(h, secrets) /\ stage' \in {IF secrets THEN "endpoint_with_secrets" ELSE "endpoint", "over"}
       ELSE stage' = "over" /\ UNCHANGED astray
    /\ UNCHANGED <<sseReader, sseClose, events, stash, permits, asked, replies>>

\* mutant: the endpoint's own origin is not looked at
EndpointUnchecked(h, listing) ==
    /\ stage \in {"endpoint", "endpoint_with_secrets"} /\ (listing \/ ~h.listed) /\ (h.literal => Cardinality(h.private) = 1)
    /\ IF ResolveAndCheck(h, listing)
       THEN Dial(h, stage = "endpoint_with_secrets") /\ stage' = "idle" /\ task' = "reading"
       ELSE stage' = "over" /\ UNCHANGED <<astray, task>>
    /\ UNCHANGED <<sseClose, events, stash, permits, asked, replies, inHand, latch>>

\* With secrets the endpoint must be of the same origin; only then the reader starts.
EndpointNamed(h, listing) ==
    /\ stage \in {"endpoint", "endpoint_with_secrets"} /\ (listing \/ ~h.listed) /\ (h.literal => Cardinality(h.private) = 1)
    /\ IF (stage = "endpoint_with_secrets" => h.origin) /\ ResolveAndCheck(h, listing)
       THEN Dial(h, stage = "endpoint_with_secrets") /\ stage' = "idle" /\ task' = "reading"
       ELSE stage' = "over" /\ UNCHANGED <<astray, task>>
    /\ UNCHANGED <<sseClose, events, stash, permits, asked, replies, inHand, latch>>

\* ENDPOINT_HANDSHAKE_TIMEOUT, the end of the stream, or a URL that is none.
NoEndpoint ==
    /\ stage \in {"endpoint", "endpoint_with_secrets"}
    /\ stage' = "over"
    /\ UNCHANGED <<sseReader, sseClose, astray, events, stash, permits, asked, replies>>

-----------------------------------------------------------------------------
(***************************************************************************)
(* The reader task.                                                        *)
(***************************************************************************)
\* A message event that the budget has room for; others are passed over.
ReadEvent(f) ==
    /\ task = "reading" /\ f.size <= permits
    /\ task' = "sending" /\ inHand' = f /\ permits' = permits - f.size
    /\ UNCHANGED <<sseClose, stage, astray, events, stash, latch, asked, replies>>

\* Anything else: the latch first, the error second.
ReaderFails(e) ==
    /\ task = "reading"
    /\ e = "AggregateBudget" => \E n \in FrameSizes : n > permits
    /\ e = "UnexpectedEof" => ~stop
    /\ latch' = e /\ inHand' = ErrorEvent /\ task' = "sending"
    /\ UNCHANGED <<sseClose, stage, astray, events, stash, permits, asked, replies>>

SendEvent ==
    /\ task = "sending" /\ Len(events) < EventCap
    /\ events' = Append(events, inHand) /\ inHand' = NoEvent
    /\ task' = IF inHand = ErrorEvent THEN "done" ELSE "reading"
    /\ UNCHANGED <<sseClose, stage, astray, stash, permits, latch, asked, replies>>

\* What it held is dropped with its permit; so it is at the end of the stream.
ReaderStops ==
    /\ task \in {"reading", "sending"} /\ stop
    /\ task' = "done" /\ inHand' = NoEvent /\ permits' = permits + inHand.size
    /\ UNCHANGED <<sseClose, stage, astray, events, stash, latch, asked, replies>>

-----------------------------------------------------------------------------
(***************************************************************************)
(* request.                                                                *)
(***************************************************************************)
Waiting == SelectInSeq(stash, LAMBDA f : f.id = asked)

\* fail_if_reader_failed, then the answer.
Answered == IF latch = "none" THEN "ok" ELSE "failed"

Reply(r) == replies' = [replies EXCEPT ![asked] = r]

Post ==
    /\ stage = "idle" /\ asked < SseCalls
    /\ asked' = asked + 1 /\ stage' = "posting"
    /\ UNCHANGED <<sseReader, sseClose, astray, events, stash, permits, replies>>

\* The server answers the POST, which has no limit, or it fails; one that failed may
\* have reached the server all the same.
PostEnds ==
    /\ stage = "posting"
    /\ \/ stage' = "posted" /\ UNCHANGED replies
       \/ stage' = "idle" /\ Reply("failed")
    /\ UNCHANGED <<sseReader, sseClose, astray, events, stash, permits, asked>>

\* mutant: only the channel is looked at
StashForgotten ==
    /\ stage = "posted"
    /\ stage' = "waiting"
    /\ UNCHANGED <<sseReader, sseClose, astray, events, asked, replies, stash, permits>>

\* An answer that came before the wait is in the stash.
LookInStash ==
    /\ stage = "posted"
    /\ IF Waiting = 0 THEN stage' = "waiting" /\ UNCHANGED <<stash, permits, replies>>
       ELSE /\ stage' = "idle" /\ Reply(Answered)
            /\ IF latch = "none"
               THEN stash' = RemoveAt(stash, Waiting) /\ permits' = permits + stash[Waiting].size
               ELSE UNCHANGED <<stash, permits>>
    /\ UNCHANGED <<sseReader, sseClose, astray, events, asked>>

\* mutant: the stash is not bounded
StashUnbounded ==
    /\ stage = "waiting" /\ events # <<>>
    /\ events' = Tail(events)
    /\ LET e == Head(events) IN
       IF e = ErrorEvent THEN stage' = "idle" /\ Reply("failed") /\ UNCHANGED <<stash, permits>>
       ELSE IF e.id = asked
            THEN stage' = "idle" /\ Reply(Answered) /\ permits' = permits + e.size /\ UNCHANGED stash
       ELSE stash' = Append(stash, e) /\ UNCHANGED <<stage, replies, permits>>
    /\ UNCHANGED <<sseReader, sseClose, astray, asked>>

\* The next frame is the answer, or it is stashed, or there is no room for it.
TakeEvent ==
    /\ stage = "waiting" /\ events # <<>>
    /\ events' = Tail(events)
    /\ LET e == Head(events) IN
       IF e = ErrorEvent THEN stage' = "idle" /\ Reply("failed") /\ UNCHANGED <<stash, permits>>
       ELSE IF e.id = asked
            THEN stage' = "idle" /\ Reply(Answered) /\ permits' = permits + e.size /\ UNCHANGED stash
       ELSE IF Len(stash) >= StashCap
            THEN stage' = "idle" /\ Reply("flooded") /\ permits' = permits + e.size /\ UNCHANGED stash
       ELSE stash' = Append(stash, e) /\ UNCHANGED <<stage, replies, permits>>
    /\ UNCHANGED <<sseReader, sseClose, astray, asked>>

\* mutant: no receive timeout
GiveUpOnlyAtEnd ==
    /\ stage = "waiting" /\ events = <<>> /\ task = "done"
    /\ stage' = "idle" /\ Reply("failed")
    /\ UNCHANGED <<sseReader, sseClose, astray, events, stash, permits, asked>>

\* The channel is closed and empty, DEFAULT_RECV_TIMEOUT passes without any event, or
\* the call is dropped by its caller.
GiveUp ==
    /\ stage = "waiting" /\ events = <<>>
    /\ stage' = "idle" /\ Reply(IF task = "done" THEN "failed" ELSE "timeout")
    /\ UNCHANGED <<sseReader, sseClose, astray, events, stash, permits, asked>>

CallerLeaves ==
    /\ stage \in {"posting", "posted", "waiting"}
    /\ stage' = "idle" /\ Reply("dropped")
    /\ UNCHANGED <<sseReader, sseClose, astray, events, stash, permits, asked>>

-----------------------------------------------------------------------------
(***************************************************************************)
(* shutdown.                                                               *)
(***************************************************************************)
ShutDown ==
    /\ stage = "idle"
    /\ stage' = "joining" /\ stop' = TRUE
    /\ UNCHANGED <<sseReader, astray, events, stash, permits, asked, replies, trouble, ended>>

\* The task is joined, aborted after SHUTDOWN_JOIN_TIMEOUT, and given up after another.
TaskJoined ==
    /\ stage \in {"joining", "aborting"} /\ task = "done"
    /\ stage' = "verdict"
    /\ UNCHANGED <<sseReader, sseClose, astray, events, stash, permits, asked, replies>>

JoinTimesOut ==
    /\ stage \in {"joining", "aborting"} /\ task # "done"
    /\ stage' = IF stage = "joining" THEN "aborting" ELSE "verdict"
    /\ trouble' = TRUE
    /\ UNCHANGED <<sseReader, astray, events, stash, permits, asked, replies, stop, ended>>

TaskAborted ==
    /\ stage = "aborting" /\ task # "done"
    /\ task' = "done" /\ inHand' = NoEvent /\ permits' = permits + inHand.size
    /\ UNCHANGED <<sseClose, stage, astray, events, stash, latch, asked, replies>>

\* mutant: the latch is not asked
ShutdownBlind ==
    /\ stage = "verdict"
    /\ stage' = "over" /\ ended' = IF trouble THEN "error" ELSE "ok"
    /\ UNCHANGED <<sseReader, astray, events, stash, permits, asked, replies, stop, trouble>>

ShutdownEnds ==
    /\ stage = "verdict"
    /\ stage' = "over" /\ ended' = IF trouble \/ latch # "none" THEN "error" ELSE "ok"
    /\ UNCHANGED <<sseReader, astray, events, stash, permits, asked, replies, stop, trouble>>

-----------------------------------------------------------------------------
ReaderMoves == SendEvent \/ ReaderStops \/ TaskAborted

CallMoves == LookInStash \/ TakeEvent \/ GiveUp

CloseMoves == TaskJoined \/ JoinTimesOut \/ ShutdownEnds

Peer == \/ \E f \in SseFrame : ReadEvent(f)
        \/ \E e \in ReaderTerminalError : ReaderFails(e)

Connecting == \/ \E h \in Hosts, listing \in BOOLEAN, secrets \in BOOLEAN : OpenStream(h, listing, secrets)
              \/ \E h \in Hosts, listing \in BOOLEAN : EndpointNamed(h, listing)
              \/ NoEndpoint

SseStep == Connecting \/ Peer \/ ReaderMoves \/ CallMoves \/ CloseMoves \/ Post \/ PostEnds \/ CallerLeaves \/ ShutDown

-----------------------------------------------------------------------------
SseTypeOK ==
    /\ task \in {"none", "reading", "sending", "done"}
    /\ inHand \in SseFrame \cup {NoEvent, ErrorEvent}
    /\ events \in Seq(SseFrame \cup {ErrorEvent}) /\ Len(events) <= EventCap
    /\ stash \in Seq(SseFrame) /\ Len(stash) <= StashCap
    /\ permits \in 0..InboundBudget /\ asked \in 0..SseCalls
    /\ latch \in ReaderTerminalError \cup {"none"}

Charged(s) == SumFunction([i \in DOMAIN s |-> s[i].size])

\* A permit is held for every byte of the frames that are on their way or stashed and
\* for no other, so a frame that was handed over or dropped never counts against the
\* stream (InboundFrame).
PermitsAreExact == permits + inHand.size + Charged(events) + Charged(stash) = InboundBudget

\* A request that waits has not already received its answer (request).
StashIsSearched == stage = "waiting" => Waiting = 0

\* shutdown is Ok only if the reader is over and never failed (shutdown, TerminalErrorLatch).
FailureIsTold == ended = "ok" => task = "done" /\ latch = "none"

\* Nothing was sent to a private address that is not on the list, nor with the secret
\* headers to another origin than the configured one, whatever endpoint the server
\* names (HostGuard, resolve_and_check, same_origin).
OnlyCheckedAddresses == ~astray
=============================================================================
