----------------------------- MODULE WsTransport -----------------------------
(***************************************************************************)
(* The WebSocket transport of crates/protocol/src/transport/ws.rs: the     *)
(* background reader task, its bounded channel to the foreground, the      *)
(* queue of frames whose id did not match, the byte budget they share, the *)
(* latch of the reader's end, and the request and shutdown calls of the    *)
(* foreground.                                                             *)
(*                                                                         *)
(* The peer may send anything at any time: a frame with any id, early,     *)
(* late, twice or never, a Close, an error.  Reads of the latches that no  *)
(* effect separates are one step: the latches only ever go one way.        *)
(***************************************************************************)
EXTENDS Integers, SequencesExt

CONSTANTS
    MaxRequests,    \* bound: requests the foreground makes
    MaxBytes,       \* bound: largest reservation of one frame
    ChannelCap,     \* READER_CHANNEL_CAP
    BufferLimit     \* MAX_BUFFERED_BYTES

ASSUME BoundsAssumption == MaxRequests \in Nat /\ MaxBytes \in Nat \ {0}
ASSUME CapAssumption == ChannelCap \in Nat \ {0} /\ BufferLimit \in Nat

VARIABLES
    reader,     \* reader_task: waits for the socket, for room in the channel, or is over
    hand,       \* what the reader is about to forward
    incoming,   \* the channel: frames and at most one error, which is last
    pending,    \* frames whose id did not match
    used,       \* BufferBudget.used
    exhausted,  \* BufferBudget.exhausted
    terminal,   \* ReaderTerminal.state
    closeSent,  \* ReaderTerminal.local_close_sent
    closeOut,   \* our Close frame left for the peer
    cancel,     \* the cancellation token
    call,       \* where the foreground's call is
    current,    \* id of the last request
    reply,      \* how each request ended
    failures,   \* shutdown noted a failure
    verdict,    \* what shutdown returned
    faulty      \* history: the reader met something only a broken connection shows

readerVars == <<reader, hand, exhausted, terminal, faulty>>
callVars == <<call, current, reply, pending>>
closeVars == <<closeSent, closeOut, cancel, failures, verdict>>
vars == <<readerVars, callVars, closeVars, incoming, used>>

\* Id 0 stands for a notification.
WsFrame == [id: 0..MaxRequests, bytes: 1..MaxBytes]
Nothing == [id |-> -1, bytes |-> 0]
Failure == [id |-> -2, bytes |-> 0]

TypeOK ==
    /\ reader \in {"reading", "sending", "done"}
    /\ hand \in WsFrame \cup {Nothing, Failure}
    /\ incoming \in Seq(WsFrame \cup {Failure}) /\ Len(incoming) <= ChannelCap
    /\ pending \in Seq(WsFrame)
    /\ used \in 0..BufferLimit
    /\ terminal \in {"running", "peer_closed", "failed"}
    /\ {exhausted, closeSent, closeOut, cancel, failures, faulty} \subseteq BOOLEAN
    /\ call \in {"idle", "send", "sent", "recv", "matched", "closing", "closed",
                 "join", "cancelling", "aborting", "verdict", "end"}
    /\ current \in 0..MaxRequests
    /\ reply \in [1..MaxRequests -> {"none", "ok", "error", "dropped"}]
    /\ verdict \in {"none", "ok", "error"}

WsInit ==
    /\ reader = "reading" /\ hand = Nothing /\ incoming = <<>> /\ pending = <<>>
    /\ used = 0 /\ exhausted = FALSE /\ terminal = "running" /\ faulty = FALSE
    /\ closeSent = FALSE /\ closeOut = FALSE /\ cancel = FALSE
    /\ call = "idle" /\ current = 0 /\ reply = [k \in 1..MaxRequests |-> "none"]
    /\ failures = FALSE /\ verdict = "none"

-----------------------------------------------------------------------------
(***************************************************************************)
(* The reader task.                                                        *)
(***************************************************************************)
\* record_failure and record_close_handshake: the first to record wins.
Latch(t) == terminal' = IF terminal = "running" THEN t ELSE terminal

\* A text or binary frame, if the budget has room for it; try_reserve.
ReadFrame(f) ==
    /\ reader = "reading"
    /\ reader' = "sending"
    /\ \/ /\ used + f.bytes <= BufferLimit
          /\ used' = used + f.bytes /\ hand' = f
          /\ UNCHANGED <<exhausted, terminal, faulty>>
       \/ /\ used + f.bytes > BufferLimit
          /\ exhausted' = TRUE /\ Latch("failed") /\ hand' = Failure /\ faulty' = TRUE
          /\ UNCHANGED used
    /\ UNCHANGED <<callVars, closeVars, incoming>>

\* The peer's Close, or the end of the close handshake.
ReadClose ==
    /\ reader = "reading"
    /\ reader' = "sending" /\ hand' = Failure
    /\ Latch(IF closeSent THEN "peer_closed" ELSE "failed")
    /\ faulty' = (faulty \/ ~closeOut)
    /\ UNCHANGED <<callVars, closeVars, incoming, used, exhausted>>

\* A socket or protocol error, an oversized frame, or the end of the stream
\* without a close handshake.
ReadFailure ==
    /\ reader = "reading"
    /\ reader' = "sending" /\ hand' = Failure
    /\ Latch("failed") /\ faulty' = TRUE
    /\ UNCHANGED <<callVars, closeVars, incoming, used, exhausted>>

\* mutant: the channel has no bound
ForwardUnbounded ==
    /\ reader = "sending"
    /\ incoming' = Append(incoming, hand)
    /\ reader' = IF hand = Failure THEN "done" ELSE "reading"
    /\ hand' = Nothing
    /\ UNCHANGED <<callVars, closeVars, used, exhausted, terminal, faulty>>

Forward ==
    /\ reader = "sending" /\ Len(incoming) < ChannelCap
    /\ incoming' = Append(incoming, hand)
    /\ reader' = IF hand = Failure THEN "done" ELSE "reading"
    /\ hand' = Nothing
    /\ UNCHANGED <<callVars, closeVars, used, exhausted, terminal, faulty>>

\* The token is looked at only while the reader waits for the socket.
ReaderCancelled ==
    /\ reader = "reading" /\ cancel
    /\ reader' = "done"
    /\ UNCHANGED <<callVars, closeVars, incoming, used, hand, exhausted, terminal, faulty>>

\* abort() takes effect at any wait; a frame in hand gives its bytes back.
ReaderAborted ==
    /\ call = "aborting" /\ reader # "done"
    /\ reader' = "done" /\ hand' = Nothing
    /\ used' = used - hand.bytes
    /\ UNCHANGED <<callVars, closeVars, incoming, exhausted, terminal, faulty>>

-----------------------------------------------------------------------------
(***************************************************************************)
(* request.                                                                *)
(***************************************************************************)
Healthy == ~exhausted /\ terminal # "failed"

Ends(r) == reply' = [reply EXCEPT ![current] = r] /\ call' = "idle"

RequestBegins ==
    /\ call = "idle" /\ current < MaxRequests
    /\ current' = current + 1
    /\ \/ Healthy /\ call' = "send" /\ UNCHANGED reply
       \/ ~Healthy /\ reply' = [reply EXCEPT ![current'] = "error"] /\ UNCHANGED call
    /\ UNCHANGED <<readerVars, closeVars, incoming, used, pending>>

\* The sink has no deadline: a peer that stops reading keeps the call here.
SendText ==
    /\ call = "send"
    /\ \/ call' = "sent" /\ UNCHANGED reply
       \/ Ends("error")
    /\ UNCHANGED <<readerVars, closeVars, incoming, used, pending, current>>

Matching == {i \in DOMAIN pending : pending[i].id = current}

\* mutant: what was read before the request was made is not looked at
SkipPending ==
    /\ call = "sent"
    /\ \/ ~Healthy /\ Ends("error") /\ UNCHANGED <<pending, used>>
       \/ Healthy /\ call' = "recv" /\ UNCHANGED <<pending, used, reply>>
    /\ UNCHANGED <<readerVars, closeVars, incoming, current>>

\* An answer that was read earlier is taken before anything else is read.
TakePending ==
    /\ call = "sent"
    /\ \/ ~Healthy /\ Ends("error") /\ UNCHANGED <<pending, used>>
       \/ /\ Healthy /\ Matching = {}
          /\ call' = "recv" /\ UNCHANGED <<pending, used, reply>>
       \/ /\ Healthy
          /\ call' = "matched" /\ UNCHANGED reply
          /\ \E i \in Matching : /\ \A j \in Matching : i <= j
                                /\ pending' = RemoveAt(pending, i)
                                /\ used' = used - pending[i].bytes
    /\ UNCHANGED <<readerVars, closeVars, incoming, current>>

\* mutant: a stashed frame gives its bytes back
ReceiveReleasing ==
    /\ call = "recv" /\ incoming # <<>>
    /\ incoming' = Tail(incoming)
    /\ LET f == Head(incoming) IN
       /\ used' = used - f.bytes
       /\ \/ (f = Failure \/ ~Healthy) /\ Ends("error") /\ UNCHANGED pending
          \/ /\ f # Failure /\ Healthy /\ f.id = current
             /\ call' = "matched" /\ UNCHANGED <<pending, reply>>
          \/ /\ f # Failure /\ Healthy /\ f.id # current
             /\ pending' = Append(pending, f) /\ UNCHANGED <<call, reply>>
    /\ UNCHANGED <<readerVars, closeVars, current>>

\* One turn of the loop on a frame or error of the channel.
Receive ==
    /\ call = "recv" /\ incoming # <<>>
    /\ incoming' = Tail(incoming)
    /\ LET f == Head(incoming) IN
       \/ /\ f = Failure \/ ~Healthy
          /\ Ends("error") /\ used' = used - f.bytes
          /\ UNCHANGED pending
       \/ /\ f # Failure /\ Healthy /\ f.id = current
          /\ call' = "matched" /\ used' = used - f.bytes
          /\ UNCHANGED <<pending, reply>>
       \/ /\ f # Failure /\ Healthy /\ f.id # current
          /\ pending' = Append(pending, f)
          /\ UNCHANGED <<used, call, reply>>
    /\ UNCHANGED <<readerVars, closeVars, current>>

\* The response is in hand and its bytes are free: the last look at the latches.
WsRespond ==
    /\ call = "matched"
    /\ Ends(IF Healthy THEN "ok" ELSE "error")
    /\ UNCHANGED <<readerVars, closeVars, incoming, used, pending, current>>

\* mutant: only a closed channel ends the wait
ChannelCloses ==
    /\ call = "recv" /\ incoming = <<>> /\ reader = "done"
    /\ Ends("error")
    /\ UNCHANGED <<readerVars, closeVars, incoming, used, pending, current>>

\* The reader is gone, or DEFAULT_RECV_TIMEOUT passed without a frame.
ReceiveGivesUp ==
    /\ call = "recv" /\ incoming = <<>>
    /\ Ends("error")
    /\ UNCHANGED <<readerVars, closeVars, incoming, used, pending, current>>

\* The caller's watchdog drops the call at one of its waits.
RequestDropped ==
    /\ call \in {"send", "recv"}
    /\ Ends("dropped")
    /\ UNCHANGED <<readerVars, closeVars, incoming, used, pending, current>>

-----------------------------------------------------------------------------
(***************************************************************************)
(* shutdown.                                                               *)
(***************************************************************************)
BeginShutdown ==
    /\ call = "idle"
    /\ call' = "closing"
    /\ UNCHANGED <<readerVars, closeVars, incoming, used, pending, current, reply>>

\* The Close frame is sent; a send that failed or timed out may have sent it too.
SendClose ==
    /\ call = "closing"
    /\ \/ call' = "closed" /\ closeOut' = TRUE /\ UNCHANGED failures
       \/ call' = "join" /\ closeOut' \in BOOLEAN /\ failures' = TRUE
    /\ UNCHANGED <<readerVars, incoming, used, pending, current, reply, closeSent, cancel, verdict>>

\* mark_local_close_sent, then the sink is closed.
MarkClose ==
    /\ call = "closed"
    /\ closeSent' = TRUE
    /\ call' = "join" /\ failures' \in {failures, TRUE}
    /\ UNCHANGED <<readerVars, incoming, used, pending, current, reply, closeOut, cancel, verdict>>

\* mutant: shutdown does not wait for the reader
JoinAtOnce ==
    /\ call \in {"join", "cancelling", "aborting"}
    /\ call' = "verdict"
    /\ UNCHANGED <<readerVars, closeVars, incoming, used, pending, current, reply>>

JoinReader ==
    /\ call \in {"join", "cancelling", "aborting"} /\ reader = "done"
    /\ call' = "verdict"
    /\ UNCHANGED <<readerVars, closeVars, incoming, used, pending, current, reply>>

\* SHUTDOWN_PHASE_TIMEOUT: cancel the reader, abort it, give it up.
PhaseTimesOut ==
    /\ reader # "done"
    /\ \/ call = "join" /\ call' = "cancelling" /\ cancel' = TRUE /\ UNCHANGED failures
       \/ call = "cancelling" /\ call' = "aborting" /\ failures' = TRUE /\ UNCHANGED cancel
       \/ call = "aborting" /\ call' = "verdict" /\ failures' = TRUE /\ UNCHANGED cancel
    /\ UNCHANGED <<readerVars, incoming, used, pending, current, reply, closeSent, closeOut, verdict>>

ShutdownReturns ==
    /\ call = "verdict"
    /\ call' = "end"
    /\ verdict' = IF failures \/ ~Healthy THEN "error" ELSE "ok"
    /\ UNCHANGED <<readerVars, incoming, used, pending, current, reply,
                   closeSent, closeOut, cancel, failures>>

-----------------------------------------------------------------------------
ReaderTask == \/ \E f \in WsFrame : ReadFrame(f)
              \/ ReadClose \/ ReadFailure \/ Forward \/ ReaderCancelled \/ ReaderAborted

Foreground == \/ RequestBegins \/ SendText \/ TakePending \/ Receive \/ WsRespond
              \/ ReceiveGivesUp \/ RequestDropped
              \/ BeginShutdown \/ SendClose \/ MarkClose \/ JoinReader \/ PhaseTimesOut
              \/ ShutdownReturns

WsNext == call # "end" /\ (ReaderTask \/ Foreground)

WsSpec == WsInit /\ [][WsNext]_vars

\* The runtime polls both tasks, and the timers of a call that waits expire.
\* Nothing makes the peer send or read, the caller call, or the watchdog fire.
Fairness ==
    /\ WF_vars(Forward) /\ WF_vars(ReaderCancelled) /\ WF_vars(ReaderAborted)
    /\ WF_vars(TakePending \/ Receive \/ WsRespond)
    /\ WF_vars(ReceiveGivesUp)
    /\ WF_vars(SendClose \/ MarkClose \/ JoinReader \/ ShutdownReturns)
    /\ WF_vars(PhaseTimesOut)

WsFairSpec == WsSpec /\ Fairness

-----------------------------------------------------------------------------
Bytes(s) == SumFunction([i \in DOMAIN s |-> s[i].bytes])

\* The budget is charged for exactly the frames that are held somewhere: each
\* reservation moves with its frame and is given back once, also when a call is
\* dropped or the reader aborted (BufferedFrame, request).
BudgetIsExact == TypeOK /\ used = hand.bytes + Bytes(incoming) + Bytes(pending)

\* While a request waits for the channel its answer is not already among the
\* stashed frames, even if the peer answered before it was asked (request).
NoAnswerOverlooked == call = "recv" => Matching = {}

\* shutdown says Ok only after the reader is over and if it met no failure, also
\* one that came after the last response was returned (shutdown, spawn_reader).
TeardownTellsFailure == verdict = "ok" => reader = "done" /\ ~faulty

\* A call is told the truth: its answer if that has come, and a failure if there was
\* one, in the request or later in the shutdown (request, shutdown).
CallsAreToldTruth == NoAnswerOverlooked /\ TeardownTellsFailure

\* A reader that may still read has recorded nothing, and what is faulty was
\* recorded: it is over or on its way out.
LatchInv ==
    /\ reader = "reading" \/ (reader = "sending" /\ hand # Failure) => terminal = "running"
    /\ faulty => terminal = "failed"

\* shutdown marks a Close frame that is out, and reaches its verdict with the
\* reader over or a failure noted.
ShutdownInv ==
    /\ call = "closed" => closeOut
    /\ closeSent => closeOut /\ call \in {"join", "cancelling", "aborting", "verdict", "end"}
    /\ call = "verdict" => reader = "done" \/ failures
    /\ verdict # "none" => call = "end"

\* The frames in the queues are frames.
QueueInv ==
    /\ incoming \in Seq(WsFrame \cup {Failure}) /\ pending \in Seq(WsFrame)
    /\ hand \in WsFrame \cup {Nothing, Failure}
    /\ reader = "sending" => hand # Nothing

\* The inductive invariant behind TeardownTellsFailure and NoAnswerOverlooked.
IInv == LatchInv /\ ShutdownInv /\ QueueInv /\ TeardownTellsFailure /\ NoAnswerOverlooked

\* Only a peer that never reads on keeps a request from ending, in its send. Every other
\* request and every shutdown ends, whatever the peer sends or leaves unsent: a peer
\* that keeps a request waiting with other frames runs into the budget.
EveryCallEnds ==
    \/ <>[](call = "send")
    \/ call \notin {"idle", "end"} ~> call \in {"idle", "end"}

\* ws.rs on its latch: "Only a close handshake observed after our Close was sent
\* reaches READER_PEER_CLOSED.  EOF, reset-without-close, unsolicited Close, and
\* every other terminal reader condition are failures": the answer to our own
\* Close is none.
OnlyFaultsFail == terminal = "failed" => faulty
=============================================================================
