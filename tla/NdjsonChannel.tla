---------------------------- MODULE NdjsonChannel ----------------------------
(***************************************************************************)
(* One direction of the control channel: NdjsonChannel in                  *)
(* crates/distributed/src/channel.rs, its writer, the pipe, and a reader   *)
(* that bounds every receive by a poll interval, as spawn_peer             *)
(* (controller.rs) and run_agent (worker.rs) do.  The bytes of a frame are *)
(* numbered pieces; piece 0 is the newline.                                *)
(***************************************************************************)
EXTENDS Integers, Sequences

CONSTANTS
    Size,           \* Size[k] is the number of pieces of the k-th frame
    SendLimit,      \* max_frame_bytes of the writing end, in pieces
    MaxFrameBytes   \* max_frame_bytes of the reading end

ASSUME SizeAssumption == Size \in Seq(Nat \ {0})
ASSUME LimitAssumption == SendLimit \in Nat \ {0} /\ MaxFrameBytes \in Nat \ {0}

Frame == DOMAIN Size

VARIABLES
    given,      \* frames given to send so far
    sending,    \* pieces that write_all still has to write
    writer,     \* "open", "closed" by close(), or "dead" by a crash or an abort
    pipe,       \* pieces between the writer and read_buffer
    buffer,     \* read_buffer
    receiving,  \* a receive() future exists
    got,        \* frames that receive() returned
    result,     \* what ended the reader's loop, "none" while it runs
    cut         \* history: a poll gave up inside a frame

channelVars == <<given, sending, writer, pipe, buffer, receiving, got, result, cut>>

Piece == [frame: Frame, part: Nat]

Result == {"none", "eof", "too_large", "unterminated", "empty", "json"}

ChannelTypeOK ==
    /\ given \in 0..Len(Size)
    /\ sending \in Seq(Piece) /\ pipe \in Seq(Piece) /\ buffer \in Seq(Piece)
    /\ writer \in {"open", "closed", "dead"}
    /\ receiving \in BOOLEAN /\ cut \in BOOLEAN
    /\ got \in Seq(Frame)
    /\ result \in Result
    /\ Len(buffer) <= MaxFrameBytes

ChannelInit ==
    /\ given = 0 /\ sending = <<>> /\ writer = "open" /\ pipe = <<>>
    /\ buffer = <<>> /\ receiving = FALSE /\ got = <<>> /\ result = "none"
    /\ cut = FALSE

-----------------------------------------------------------------------------
Payload(k) == [i \in 1..Size[k] |-> [frame |-> k, part |-> i]]

Newline(k) == [frame |-> k, part |-> 0]

\* send: a frame over the limit is refused before anything is written.
Send ==
    /\ writer = "open" /\ sending = <<>> /\ given < Len(Size)
    /\ given' = given + 1
    /\ sending' = IF Size[given'] > SendLimit THEN <<>>
                  ELSE Append(Payload(given'), Newline(given'))
    /\ UNCHANGED <<writer, pipe, buffer, receiving, got, result, cut>>

\* The pipe takes as many pieces as it has room for.
Write ==
    /\ writer = "open"
    /\ \E n \in 1..Len(sending) :
          /\ pipe' = pipe \o SubSeq(sending, 1, n)
          /\ sending' = SubSeq(sending, n + 1, Len(sending))
    /\ UNCHANGED <<given, writer, buffer, receiving, got, result, cut>>

\* mutant: close does not flush what write_all still holds
CloseWithoutFlush ==
    /\ writer = "open"
    /\ writer' = "closed" /\ sending' = <<>>
    /\ UNCHANGED <<given, pipe, buffer, receiving, got, result, cut>>

Close ==
    /\ writer = "open" /\ sending = <<>>
    /\ writer' = "closed"
    /\ UNCHANGED <<given, sending, pipe, buffer, receiving, got, result, cut>>

\* The writing process dies, or its task is aborted, maybe inside a frame.
WriterDies ==
    /\ writer = "open"
    /\ writer' = "dead" /\ sending' = <<>>
    /\ UNCHANGED <<given, pipe, buffer, receiving, got, result, cut>>

-----------------------------------------------------------------------------
\* mutant: a new receive keeps what the last one had read
ResumeReceive ==
    /\ result = "none" /\ ~receiving
    /\ receiving' = TRUE
    /\ UNCHANGED <<given, sending, writer, pipe, buffer, got, result, cut>>

\* receive: the read buffer is cleared whatever it holds.
StartReceive ==
    /\ result = "none" /\ ~receiving
    /\ receiving' = TRUE /\ buffer' = <<>>
    /\ UNCHANGED <<given, sending, writer, pipe, got, result, cut>>

Stop(r) == result' = r /\ receiving' = FALSE

\* The pieces taken from what fill_buf offers: up to the newline, if any.
Take(n) == LET ends == {i \in 1..n : pipe[i].part = 0}
           IN  IF ends = {} THEN n ELSE CHOOSE i \in ends : \A j \in ends : i <= j

IsFrame(b) == \E k \in Frame : b = Payload(k)

\* mutant: the bound is not looked at while a frame is read
FillUnbounded ==
    /\ receiving /\ pipe # <<>>
    /\ \E n \in 1..Len(pipe) :
          LET t == Take(n)
              ends == pipe[t].part = 0
              read == buffer \o SubSeq(pipe, 1, IF ends THEN t - 1 ELSE t)
          IN
          /\ buffer' = read
          /\ pipe' = SubSeq(pipe, t + 1, Len(pipe))
          /\ \/ ~ends /\ UNCHANGED <<receiving, got, result>>
             \/ ends /\ ~IsFrame(read) /\ Stop("json") /\ UNCHANGED got
             \/ /\ ends /\ IsFrame(read)
                /\ got' = Append(got, read[1].frame)
                /\ receiving' = FALSE /\ UNCHANGED result
    /\ UNCHANGED <<given, sending, writer, cut>>

\* mutant: what does not parse is skipped
FillSkipping ==
    /\ receiving /\ pipe # <<>>
    /\ \E n \in 1..Len(pipe) :
          LET t == Take(n)
              ends == pipe[t].part = 0
              read == buffer \o SubSeq(pipe, 1, IF ends THEN t - 1 ELSE t)
          IN
          /\ buffer' = read
          /\ pipe' = SubSeq(pipe, t + 1, Len(pipe))
          /\ got' = IF ends /\ IsFrame(read) THEN Append(got, read[1].frame) ELSE got
          /\ receiving' = ~ends
    /\ UNCHANGED <<given, sending, writer, result, cut>>

\* One turn of the loop in receive_inner on what the reader has at hand.
Fill ==
    /\ receiving /\ pipe # <<>>
    /\ \E n \in 1..Len(pipe) :
          LET t == Take(n)
              ends == pipe[t].part = 0
              read == buffer \o SubSeq(pipe, 1, IF ends THEN t - 1 ELSE t)
          IN
          \/ /\ Len(read) > MaxFrameBytes
             /\ Stop("too_large") /\ UNCHANGED <<pipe, buffer, got>>
          \/ /\ Len(read) <= MaxFrameBytes
             /\ buffer' = read
             /\ pipe' = SubSeq(pipe, t + 1, Len(pipe))
             /\ \/ ~ends /\ UNCHANGED <<receiving, got, result>>
                \/ ends /\ read = <<>> /\ Stop("empty") /\ UNCHANGED got
                \/ ends /\ read # <<>> /\ ~IsFrame(read) /\ Stop("json") /\ UNCHANGED got
                \/ /\ ends /\ IsFrame(read)
                   /\ got' = Append(got, read[1].frame)
                   /\ receiving' = FALSE /\ UNCHANGED result
    /\ UNCHANGED <<given, sending, writer, cut>>

\* mutant: an unfinished frame keeps the reader waiting
EofAtBoundary ==
    /\ receiving /\ pipe = <<>> /\ writer # "open" /\ buffer = <<>>
    /\ Stop("eof")
    /\ UNCHANGED <<given, sending, writer, pipe, buffer, got, cut>>

\* fill_buf reports the end of the stream.
Eof ==
    /\ receiving /\ pipe = <<>> /\ writer # "open"
    /\ Stop(IF buffer = <<>> THEN "eof" ELSE "unterminated")
    /\ UNCHANGED <<given, sending, writer, pipe, buffer, got, cut>>

\* The poll interval passes while fill_buf has nothing: the future is dropped.
PollExpires ==
    /\ receiving /\ pipe = <<>> /\ writer = "open"
    /\ receiving' = FALSE
    /\ cut' = (cut \/ buffer # <<>>)
    /\ UNCHANGED <<given, sending, writer, pipe, buffer, got, result>>

ChannelNext == \/ Send \/ Write \/ Close \/ WriterDies
        \/ StartReceive \/ Fill \/ Eof \/ PollExpires

-----------------------------------------------------------------------------
Fits(k) == Size[k] <= SendLimit

\* k is the first frame after the l-th that send accepts.
NextAccepted(l, k) == k > l /\ Fits(k) /\ \A j \in (l + 1)..(k - 1) : ~Fits(j)

LastGot == IF got = <<>> THEN 0 ELSE got[Len(got)]

\* receive returns the frames that were sent, in order and without a gap: a
\* frame whose head was lost to a poll never lets a later one through
\* (receive_inner, serde_json::from_slice).
InOrderWithoutGap ==
    \A i \in 1..Len(got) :
        got[i] <= given /\ NextAccepted(IF i = 1 THEN 0 ELSE got[i - 1], got[i])

ErrorResult == {"too_large", "unterminated", "empty", "json"}

\* The writing end let a frame through that the reading end does not take.
Oversized == result = "too_large" /\ \E k \in 1..given : Size[k] > MaxFrameBytes

\* A reader that stops with an error has a reason outside the channel's own
\* framing: the writer died, its limit was wider, or a poll gave up inside a
\* frame (receive_inner).
ErrorHasACause == result \in ErrorResult => cut \/ writer = "dead" \/ Oversized

\* While no poll gives up inside a frame, the end of a stream that was closed is
\* reported only after every accepted frame (close, receive).
EofAfterAllFrames ==
    result = "eof" /\ writer = "closed" /\ ~cut =>
        \A k \in (LastGot + 1)..given : ~Fits(k)

\* What receive returns is what was sent, up to an end that has a cause (NdjsonChannel).
ChannelIsOrdered == ChannelTypeOK /\ InOrderWithoutGap /\ ErrorHasACause /\ EofAfterAllFrames

\* channel.rs calls AgentChannel an "Asynchronous, ordered, reliable frame
\* channel": a writer that lives and keeps to the limit causes no error.
Reliable == result \in ErrorResult => writer = "dead" \/ Oversized
=============================================================================
