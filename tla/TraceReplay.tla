---------------------------- MODULE TraceReplay ----------------------------
(***************************************************************************)
(* A trace and its replay (engine trace/writer.rs and trace/replay.rs,     *)
(* core trace/format.rs, cmd_replay.rs): the sessions of a run record      *)
(* their frames in one file, which ends where the writer first failed; a   *)
(* replay sends the requests of the file again, over one transport and     *)
(* with ids of its own, and holds every answer against the recorded one.   *)
(***************************************************************************)
EXTENDS Integers, FiniteSetsExt, SequencesExt

CONSTANTS
    Sessions,       \* sessions that record into the trace, in the order they are built
    Methods,        \* methods they call
    MaxRequests     \* bound: requests of each session, whose ids count from 1

ASSUME ReplayAssumption == MaxRequests \in [Sessions -> Nat] /\ "none" \notin Methods

VARIABLES
    overlap,        \* do the sessions run at the same time (a pool), or one after the other
    trace,          \* the frames in the file
    asking,         \* per session, what it waits for: 0, or the id of its request
    asked,          \* per session, its last id; a session that lost an answer asks no more
    closed,         \* TraceWriter: a latched failure, or finished
    replay,         \* "recording" | "sending" | "done" | "refused"
    at,             \* the frames replay_frames has come by
    consumed,       \* the pairs it made: request and response, by their places
    server,         \* the server replayed against: "same", or "other", which may not answer either
    score           \* total, matched and diverged

replayVars == <<overlap, trace, asking, asked, closed, replay, at, consumed, server, score>>

Frame(dir, s, id, m) == [dir |-> dir, session |-> s, id |-> id, method |-> m]

ReplayInit(o) ==
    /\ overlap = o /\ trace = <<>> /\ closed = FALSE
    /\ asking = [s \in Sessions |-> [id |-> 0, method |-> "none"]] /\ asked = [s \in Sessions |-> 0]
    /\ replay = "recording" /\ at = 0 /\ consumed = {} /\ server = "same"
    /\ score = [total |-> 0, matched |-> 0, diverged |-> 0]

-----------------------------------------------------------------------------
(***************************************************************************)
(* TracingTransport and TraceWriter::record.                               *)
(***************************************************************************)
replayOnly == <<replay, at, consumed, server, score>>

\* A write that fails latches: nothing is recorded any more, and the run will fail.
Record(frame) ==
    \/ trace' = Append(trace, frame) /\ UNCHANGED closed
    \/ closed' = TRUE /\ UNCHANGED trace

\* Where they do not overlap, a session begins when those before it have ended.
Over(s) == asked[s] = MaxRequests[s] + 1
MayAsk(s) == overlap \/ \A u \in Sessions : u < s => Over(u)

\* request: the frame is recorded before it is sent.
Ask(s) ==
    /\ replay = "recording" /\ asking[s].id = 0 /\ asked[s] < MaxRequests[s] /\ MayAsk(s)
    /\ asked' = [asked EXCEPT ![s] = @ + 1]
    /\ \E m \in Methods : /\ asking' = [asking EXCEPT ![s] = [id |-> asked[s] + 1, method |-> m]]
                          /\ Record(Frame("c2s", s, asked[s] + 1, m))
    /\ UNCHANGED <<overlap, replayOnly>>

\* notify.
Notify(s) ==
    /\ replay = "recording" /\ asking[s].id = 0 /\ asked[s] = 1 /\ MayAsk(s)
    /\ ~\E f \in Range(trace) : f.session = s /\ f.id = 0
    /\ Record(Frame("c2s", s, 0, "initialized"))
    /\ UNCHANGED <<overlap, asking, asked, replayOnly>>

Answered(s) ==
    /\ replay = "recording" /\ asking[s].id # 0
    /\ asking' = [asking EXCEPT ![s].id = 0]
    /\ Record(Frame("s2c", s, asking[s].id, asking[s].method))
    /\ UNCHANGED <<overlap, asked, replayOnly>>

\* An answer that does not come, or an error of the transport, leaves no frame; a
\* session that has it, or has enough, ends.
EndSession(s) ==
    /\ replay = "recording" /\ ~Over(s) /\ MayAsk(s)
    /\ asked' = [asked EXCEPT ![s] = MaxRequests[s] + 1]
    /\ asking' = [asking EXCEPT ![s].id = 0]
    /\ UNCHANGED <<overlap, trace, closed, replayOnly>>

\* What the sessions do after the writer has failed is no longer in the file.
Recording == ~closed /\ \E s \in Sessions : Ask(s) \/ Notify(s) \/ Answered(s) \/ EndSession(s)

-----------------------------------------------------------------------------
(***************************************************************************)
(* replay_file, replay_frames and the command's teardown.                  *)
(***************************************************************************)
\* A file whose header or a frame cannot be read is not replayed.
Begin ==
    /\ replay = "recording" /\ (closed \/ \A s \in Sessions : Over(s))
    /\ replay' \in {"sending", "refused"} /\ server' \in {"same", "other"}
    /\ UNCHANGED <<overlap, trace, asking, asked, closed, at, consumed, score>>

\* mutant: an answer may be used again
AnyAnswer(i) ==
    {j \in (i + 1)..Len(trace) : trace[j].dir = "s2c" /\ trace[j].id = trace[i].id}

\* The answers a request may be paired with; the first of them is.
FreeAnswers(i) ==
    {j \in (i + 1)..Len(trace) : /\ trace[j].dir = "s2c" /\ trace[j].id = trace[i].id
                                 /\ j \notin {c[2] : c \in consumed}}

\* responses_match: the answer to a method is what it was recorded to be, in the same server.
Matches(i, j) == server = "same" /\ trace[i].method = trace[j].method

Score(i, j) ==
    score' = [total |-> score.total + 1,
              matched |-> score.matched + (IF Matches(i, j) THEN 1 ELSE 0),
              diverged |-> score.diverged + (IF Matches(i, j) THEN 0 ELSE 1)]

\* The next frame: one of the server's is passed over, a notification sent, and a request
\* sent with the next id and, if it has a recorded answer, scored.
Resend ==
    /\ replay = "sending" /\ at < Len(trace) /\ at' = at + 1
    /\ LET i == at + 1 IN
       \/ /\ trace[i].dir = "s2c" \/ trace[i].id = 0
          /\ UNCHANGED <<consumed, score>>
       \/ /\ trace[i].dir = "c2s" /\ trace[i].id # 0 /\ FreeAnswers(i) = {}
          /\ UNCHANGED <<consumed, score>>
       \/ /\ trace[i].dir = "c2s" /\ trace[i].id # 0 /\ FreeAnswers(i) # {}
          /\ LET j == Min(FreeAnswers(i)) IN Score(i, j) /\ consumed' = consumed \cup {<<i, j>>}
    /\ UNCHANGED <<overlap, trace, asking, asked, closed, replay, server>>

\* The transport is shut down within a limit; an error of that is an error of the replay.
EndReplay ==
    /\ replay = "sending" /\ at = Len(trace)
    /\ replay' \in {"done", "refused"}
    /\ UNCHANGED <<overlap, trace, asking, asked, closed, at, consumed, server, score>>

ReplayStep == Recording \/ Begin \/ Resend \/ EndReplay

-----------------------------------------------------------------------------
Frames == [dir : {"c2s", "s2c"}, session : Sessions, id : Nat, method : Methods \cup {"initialized"}]

ReplayTypeOK ==
    /\ trace \in Seq({f \in Frames : f.id <= MaxRequests[f.session]}) /\ at \in 0..Len(trace)
    /\ replay \in {"recording", "sending", "done", "refused"} /\ server \in {"same", "other"}
    /\ \A s \in Sessions : asked[s] \in 0..(MaxRequests[s] + 1) /\ asking[s].id \in 0..MaxRequests[s]

OwnAnswer(i, j) == trace[i].session = trace[j].session /\ trace[i].id = trace[j].id
HasAnswer(i) == \E j \in (i + 1)..Len(trace) : trace[j].dir = "s2c" /\ OwnAnswer(i, j)
OneSession == Cardinality({f.session : f \in Range(trace)}) <= 1

\* No recorded answer counts twice and every score is a match or a divergence; in the
\* trace of one session, whatever answers it lost and wherever the file ends, exactly the
\* requests that were answered are scored, each against its own answer, so a server that
\* behaves as recorded has no divergence and one that does not no match (replay_frames).
ReplayIsFair ==
    /\ score.total = score.matched + score.diverged /\ score.total = Cardinality(consumed)
    /\ \A c, d \in consumed : c[2] = d[2] => c = d
    /\ \A c \in consumed : c[1] < c[2] /\ trace[c[2]].dir = "s2c"
    /\ OneSession =>
          /\ \A c \in consumed : OwnAnswer(c[1], c[2])
          /\ replay = "done" => score.total = Cardinality({i \in DOMAIN trace : trace[i].dir = "c2s" /\ HasAnswer(i)})
          /\ IF server = "same" THEN score.diverged = 0 ELSE score.matched = 0

\* What a comment of replay_frames says of sessions that follow each other: their
\* duplicate ids pair up correctly.
DuplicateIdsPairUp == ~overlap => \A c \in consumed : OwnAnswer(c[1], c[2])
=============================================================================
