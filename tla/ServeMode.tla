----------------------------- MODULE ServeMode -----------------------------
(***************************************************************************)
(* The load tester as an MCP server (serve/mod.rs): lines are read from    *)
(* stdin as its buffer yields them, up to a limit, and answered one after  *)
(* the other; a client may have written many of them ahead.                *)
(***************************************************************************)
EXTENDS Integers, FiniteSetsExt, SequencesExt

CONSTANTS
    Inputs,     \* what clients write: sequences of lines, the last perhaps unterminated
    MaxLine     \* MAX_LINE_BYTES

ASSUME ServeAssumption ==
    /\ MaxLine \in Nat
    /\ \A i \in Inputs : i \in Seq(Range(i)) /\ \A l \in Range(i) : l.size \in Nat /\ l.idWide \subseteq l.wide

VARIABLES
    input,      \* the lines
    line,       \* the line that is read
    got,        \* the bytes of it that have been read
    torn,       \* where a chunk ended inside a character, which is then replaced
    serve,      \* "reading" | "handling" | "writing" | "closing" | "ended" | "broken"
    due,        \* the answer to be written
    answers     \* what was written: the id, and whether it is a result

serveVars == <<input, line, got, torn, serve, due, answers>>

ServeInit(i) ==
    /\ input = i /\ line = 1 /\ got = 0 /\ torn = {} /\ serve = "reading" /\ due = <<>> /\ answers = <<>>

Result(id) == [id |-> id, error |-> "none"]
Error(id, e) == [id |-> id, error |-> e]

-----------------------------------------------------------------------------
\* mutant: a line may be as long as the limit and one chunk more
FillAfterLimit ==
    /\ serve = "reading" /\ line <= Len(input)
    /\ \E n \in 1..(input[line].size - got) :
          IF got > MaxLine
          THEN /\ serve' = "closing" /\ due' = <<Error("null", "parse")>>
               /\ UNCHANGED <<got, torn>>
          ELSE /\ got' = got + n /\ torn' = torn \cup ({got + n} \cap input[line].wide)
               /\ serve' = IF got + n = input[line].size THEN "handling" ELSE "reading"
               /\ UNCHANGED due
    /\ UNCHANGED <<input, line, answers>>

\* read_bounded_line, one fill_buf: the buffer holds what it pleases of the line.  A line
\* of n bytes has its newline as the last, in its strings characters of two bytes where
\* wide says, and those of its id where idWide says.
Fill ==
    /\ serve = "reading" /\ line <= Len(input)
    /\ \E n \in 1..(input[line].size - got) :
          IF got + n > MaxLine
          THEN /\ serve' = "closing" /\ due' = <<Error("null", "parse")>>
               /\ UNCHANGED <<got, torn>>
          ELSE /\ got' = got + n /\ torn' = torn \cup ({got + n} \cap input[line].wide)
               /\ serve' = IF got + n = input[line].size THEN "handling" ELSE "reading"
               /\ UNCHANGED due
    /\ UNCHANGED <<input, line, answers>>

\* A read that fails ends the server.
ReadFails ==
    /\ serve = "reading" /\ serve' = "broken"
    /\ UNCHANGED <<input, line, got, torn, due, answers>>

EndOfInput ==
    /\ serve = "reading" /\ line > Len(input) /\ serve' = "ended"
    /\ UNCHANGED <<input, line, got, torn, due, answers>>

\* The id as it was read: each chunk is made a string of its own.
IdRead(l) == IF torn \cap l.idWide = {} THEN l.id ELSE "replaced"

\* mutant: every request gets its answer, also one without an id
AnswerAlways(l) ==
    CASE l.kind = "blank" -> {<<>>}
      [] l.kind = "garbage" -> {<<Error("null", "parse")>>}
      [] l.kind = "notification" -> {<<Result("null")>>}
      [] l.kind = "unknown" -> {<<Error(IdRead(l), "method")>>}
      [] l.kind = "call" -> {<<Result(IdRead(l))>>, <<Error(IdRead(l), "params")>>, <<Error(IdRead(l), "internal")>>}
      [] OTHER -> {<<Result(IdRead(l))>>}

\* handle_line, and handle_tools_call: a tool may find its arguments wrong or its run
\* may fail.
AnswerTo(l) ==
    CASE l.kind = "blank" -> {<<>>}
      [] l.kind = "garbage" -> {<<Error("null", "parse")>>}
      [] l.kind = "notification" -> {<<>>}
      [] l.kind = "unknown" -> {<<Error(IdRead(l), "method")>>}
      [] l.kind = "call" -> {<<Result(IdRead(l))>>, <<Error(IdRead(l), "params")>>, <<Error(IdRead(l), "internal")>>}
      [] OTHER -> {<<Result(IdRead(l))>>}

Handle ==
    /\ serve = "handling" /\ due' \in AnswerTo(input[line])
    /\ line' = line + 1 /\ got' = 0 /\ torn' = {}
    /\ serve' = IF due' = <<>> THEN "reading" ELSE "writing"
    /\ UNCHANGED <<input, answers>>

\* write_all and flush; an error ends the server.
Write ==
    /\ serve \in {"writing", "closing"}
    /\ \/ /\ answers' = answers \o due
          /\ serve' = IF serve = "closing" THEN "ended" ELSE "reading"
       \/ serve' = "broken" /\ UNCHANGED answers
    /\ due' = <<>>
    /\ UNCHANGED <<input, line, got, torn>>

ServeStep == Fill \/ ReadFails \/ EndOfInput \/ Handle \/ Write

-----------------------------------------------------------------------------
ServeTypeOK ==
    /\ line \in 1..(Len(input) + 1) /\ got \in 0..MaxLine /\ Len(due) <= 1 /\ torn \subseteq 0..MaxLine
    /\ serve \in {"reading", "handling", "writing", "closing", "ended", "broken"}

\* The lines before the n-th that have an answer, the place of a line's answer among
\* them, and the ids it may be given under.
Answerable(n) == {k \in 1..(n - 1) : input[k].kind \notin {"blank", "notification"}}
Turn(k) == Cardinality(Answerable(k + 1))
IdsOf(l) == IF l.kind = "garbage" THEN {"null"} ELSE {l.id} \cup (IF l.idWide = {} THEN {} ELSE {"replaced"})
TooLong == serve \in {"closing", "ended"} /\ line <= Len(input)

\* Whatever a client has written ahead and however it arrives, every request is answered
\* once and in its turn, and nothing else is; the answer has the request's own id, unless
\* that is a string with a character of several bytes, which may have been replaced.  The
\* server gives up only at the end of its input, at a line longer than the limit, or when
\* it cannot read or write (McpServer::run_stdio).
AnswersInOrder ==
    LET said == answers \o due
        lines == Cardinality(Answerable(line))
    IN  /\ IF serve = "broken" THEN Len(said) <= lines
           ELSE Len(said) = lines + (IF TooLong THEN 1 ELSE 0)
        /\ \A k \in Answerable(line) : Turn(k) <= Len(said) => said[Turn(k)].id \in IdsOf(input[k])
        /\ TooLong => said[Len(said)].id = "null" /\ input[line].size > MaxLine
        /\ got <= MaxLine

\* What the documentation of McpServer says: it reads its requests one line at a time; a
\* line is what the client wrote.
LineIsWhole == serve = "handling" => torn = {}
=============================================================================
