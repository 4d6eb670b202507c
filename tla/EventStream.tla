---------------------------- MODULE EventStream ----------------------------
(***************************************************************************)
(* The two parsers of an event stream: the one of the SSE transport's      *)
(* reader (protocol transport/sse/reader.rs), which keeps a line, and the  *)
(* one of the HTTP transport (transport/http.rs), which keeps the body and *)
(* offsets into it.  Both are given the same stream, cut into chunks       *)
(* anywhere.                                                               *)
(*                                                                         *)
(* A byte is CR, LF, one of the two that make up the byte order mark here, *)
(* or stands for a field name if a line begins with it ("d" for data, "e"  *)
(* for event) and for itself elsewhere.  A half of the mark is no text     *)
(* without the other half.                                                 *)
(***************************************************************************)
EXTENDS Integers, SequencesExt

CONSTANTS
    Alphabet,    \* the bytes of a stream
    StreamCap,   \* bound: its length
    LineCap,     \* MAX_SSE_LINE_BYTES
    DataCap      \* MAX_SSE_EVENT_DATA_BYTES

ASSUME StreamAssumption == StreamCap \in Nat /\ LineCap \in Nat \ {0} /\ DataCap \in Nat

VARIABLES
    sent,       \* the stream so far, which is the HTTP transport's body
    over,       \* it ended
    chunk,      \* what the reader has not looked at of the last chunk
    scanned,    \* the HTTP parser has looked at it too
    parser,     \* BoundedSseParser
    scan,       \* scan_sse_events: its offsets, and whether it found what is no text
    read,       \* the events the reader made
    found       \* the data the HTTP parser made

streamVars == <<sent, over, chunk, scanned, parser, scan, read, found>>

Bom == <<"f", "u">>
Breaks == {"CR", "LF"}

\* from_utf8: byte i of s is a character, or a half that has its other half ...
Utf8At(s, i) == /\ s[i] = Bom[1] => i < Len(s) /\ s[i + 1] = Bom[2]
                /\ s[i] = Bom[2] => i > 1 /\ s[i - 1] = Bom[1]

\* ... and so are all of them.
Utf8(s) == \A i \in DOMAIN s : Utf8At(s, i)

StreamInit ==
    /\ sent = <<>> /\ over = FALSE /\ chunk = <<>> /\ scanned = TRUE
    /\ parser = [line |-> <<>>, type |-> <<>>, data |-> <<>>, has |-> FALSE, bom |-> <<>>, resolved |-> FALSE,
                 skip |-> FALSE, state |-> "open"]
    /\ scan = [event |-> 1, line |-> 1, at |-> 1, refused |-> FALSE]
    /\ read = <<>> /\ found = <<>>

Parsing == (chunk # <<>> \/ over) /\ parser.state = "open"

\* A chunk of any length, when both have looked at the one before.
Chunk(c) ==
    /\ ~over /\ scanned /\ ~Parsing /\ Len(sent) + Len(c) <= StreamCap
    /\ sent' = sent \o c /\ chunk' = (IF parser.state = "open" THEN c ELSE <<>>) /\ scanned' = FALSE
    /\ UNCHANGED <<over, parser, scan, read, found>>

StreamEnds ==
    /\ ~over /\ scanned /\ ~Parsing
    /\ over' = TRUE /\ scanned' = FALSE
    /\ UNCHANGED <<sent, chunk, parser, scan, read, found>>

-----------------------------------------------------------------------------
(***************************************************************************)
(* The reader's parser.                                                    *)
(***************************************************************************)
Joined(data, has, value) == IF has THEN data \o <<"NL">> \o value ELSE value

\* process_line: what a line does to the event that is being put together.  Its type
\* must be text when it is read, its data when the event is dispatched.
ProcessLine(p, line) ==
    IF line = <<>>
    THEN [p EXCEPT !.type = <<>>, !.data = <<>>, !.has = FALSE, !.state = IF Utf8(p.data) THEN @ ELSE "failed"]
    ELSE IF Head(line) = "e" THEN IF Utf8(Tail(line)) THEN [p EXCEPT !.type = Tail(line)] ELSE [p EXCEPT !.state = "failed"]
    ELSE IF Head(line) # "d" THEN p
    ELSE IF Len(Joined(p.data, p.has, Tail(line))) > DataCap THEN [p EXCEPT !.state = "failed"]
    ELSE [p EXCEPT !.data = Joined(p.data, p.has, Tail(line)), !.has = TRUE]

\* ... and whether it ends one.
Dispatched(p, line) == IF line = <<>> /\ p.has /\ Utf8(p.data) THEN <<[type |-> p.type, data |-> p.data]>> ELSE <<>>

\* The parser p goes on with rest, after it took line from it.
TakeLine(p, line, rest) ==
    /\ parser' = ProcessLine([p EXCEPT !.line = <<>>], line)
    /\ read' = read \o Dispatched(p, line)
    /\ chunk' = rest

\* The bytes at the start are held back until they are a byte order mark or not.
ResolveBom ==
    /\ chunk # <<>> /\ parser.state = "open" /\ ~parser.resolved
    /\ LET prefix == Append(parser.bom, Head(chunk)) IN
       IF Head(chunk) # Bom[Len(prefix)]
       THEN \* process_wire_byte, for each of them: only the last may end the line
            LET open == [parser EXCEPT !.resolved = TRUE, !.bom = <<>>, !.line = parser.bom] IN
            IF Head(chunk) \in Breaks
            THEN TakeLine([open EXCEPT !.skip = Head(chunk) = "CR"], open.line, Tail(chunk))
            ELSE /\ parser' = IF Len(prefix) > LineCap THEN [open EXCEPT !.state = "failed"]
                              ELSE [open EXCEPT !.line = prefix]
                 /\ chunk' = Tail(chunk) /\ UNCHANGED read
       ELSE /\ parser' = IF prefix = Bom THEN [parser EXCEPT !.bom = <<>>, !.resolved = TRUE]
                         ELSE [parser EXCEPT !.bom = prefix]
            /\ chunk' = Tail(chunk) /\ UNCHANGED read
    /\ UNCHANGED <<sent, over, scanned, scan, found>>

\* The second byte of a CRLF, which may be the first of a chunk.
SkipLf ==
    /\ chunk # <<>> /\ parser.state = "open" /\ parser.resolved /\ parser.skip /\ Head(chunk) = "LF"
    /\ parser' = [parser EXCEPT !.skip = FALSE] /\ chunk' = Tail(chunk)
    /\ UNCHANGED <<sent, over, scanned, scan, read, found>>

\* The chunk up to the next line break, or all of it.
TakeSegment ==
    /\ chunk # <<>> /\ parser.state = "open" /\ parser.resolved /\ ~(parser.skip /\ Head(chunk) = "LF")
    /\ LET stop == SelectInSeq(chunk, LAMBDA b : b \in Breaks)
           line == parser.line \o (IF stop = 0 THEN chunk ELSE SubSeq(chunk, 1, stop - 1))
           next == [parser EXCEPT !.skip = stop # 0 /\ chunk[stop] = "CR"] IN
       IF Len(line) > LineCap
       THEN parser' = [parser EXCEPT !.state = "failed"] /\ chunk' = <<>> /\ UNCHANGED read
       ELSE IF stop = 0
       THEN parser' = [next EXCEPT !.line = line] /\ chunk' = <<>> /\ UNCHANGED read
       ELSE TakeLine(next, line, SubSeq(chunk, stop + 1, Len(chunk)))
    /\ UNCHANGED <<sent, over, scanned, scan, found>>

\* At the end what is held back is a line, and a blank one follows.
ReaderEof ==
    /\ over /\ chunk = <<>> /\ parser.state = "open"
    /\ LET last == parser.bom \o parser.line
           rest == IF last = <<>> THEN parser ELSE ProcessLine(parser, last) IN
       /\ parser' = [rest EXCEPT !.state = IF @ = "open" /\ Utf8(rest.data) THEN "done" ELSE "failed"]
       /\ read' = IF rest.state = "open" THEN read \o Dispatched(rest, <<>>) ELSE read
    /\ UNCHANGED <<sent, over, chunk, scanned, scan, found>>

-----------------------------------------------------------------------------
(***************************************************************************)
(* Lines, and the HTTP transport's parser.                                 *)
(***************************************************************************)
\* Byte i of s after those before it, which are in this cut: the LF of a CRLF is no break
\* of its own.
WithByte(cut, s, i) ==
    IF s[i] = "LF" /\ i > 1 /\ s[i - 1] = "CR" THEN cut
    ELSE IF s[i] \in Breaks THEN [ended |-> Append(cut.ended, cut.last), last |-> <<>>]
    ELSE [ended |-> cut.ended, last |-> Append(cut.last, s[i])]

\* The lines of s that are ended, and what follows them.
Cut(s) ==
    LET upTo[i \in 0..Len(s)] ==
            IF i = 0 THEN [ended |-> <<>>, last |-> <<>>] ELSE WithByte(upTo[i - 1], s, i)
    IN  upTo[Len(s)]

Lines(s) == Append(Cut(s).ended, Cut(s).last)

IsData(line) == line # <<>> /\ Head(line) = "d"

WithLine(event, line) ==
    IF IsData(line) THEN [has |-> TRUE, data |-> Joined(event.data, event.has, Tail(line))] ELSE event

\* The data lines among them, joined.
DataOf(lines) ==
    LET upTo[n \in 0..Len(lines)] ==
            IF n = 0 THEN [has |-> FALSE, data |-> <<>>] ELSE WithLine(upTo[n - 1], lines[n])
    IN  upTo[Len(lines)]

\* parse_sse_event: the data of an event, or nothing; it is asked of text only.
ParseSseEvent(event) ==
    LET own == IF IsPrefix(Bom, event) THEN SubSeq(event, Len(Bom) + 1, Len(event)) ELSE event
        all == DataOf(Lines(own)) IN
    IF all.has THEN <<all.data>> ELSE <<>>

\* mutant: a CR is a line break of its own
NeverUndecided(i) == FALSE

\* A CR that is last waits for what follows it.
Undecided(i) == i = Len(sent) /\ ~over /\ sent[i] = "CR"

AfterBreak(i) == IF sent[i] = "CR" /\ i < Len(sent) /\ sent[i + 1] = "LF" THEN i + 2 ELSE i + 1

\* What is no text ends the request.
Refuse == scan' = [scan EXCEPT !.refused = TRUE] /\ UNCHANGED found

\* scan_sse_events: one byte, or one line break; a blank line ends an event.
Scan ==
    /\ ~scanned /\ ~scan.refused /\ scan.at <= Len(sent) /\ ~Undecided(scan.at)
    /\ IF sent[scan.at] \notin Breaks
       THEN scan' = [scan EXCEPT !.at = @ + 1] /\ UNCHANGED found
       ELSE LET next == AfterBreak(scan.at)
                event == SubSeq(sent, scan.event, scan.line - 1) IN
            IF scan.at = scan.line
            THEN IF ~Utf8(event) THEN Refuse
                 ELSE /\ found' = found \o ParseSseEvent(event)
                      /\ scan' = [event |-> next, line |-> next, at |-> next, refused |-> FALSE]
            ELSE scan' = [scan EXCEPT !.line = next, !.at = next] /\ UNCHANGED found
    /\ UNCHANGED <<sent, over, chunk, scanned, parser, read>>

ScanDone ==
    /\ ~scanned /\ (scan.refused \/ scan.at > Len(sent) \/ Undecided(scan.at))
    /\ scanned' = TRUE
    /\ LET last == SubSeq(sent, scan.event, Len(sent)) IN
       IF scan.refused \/ ~over \/ scan.event > Len(sent) THEN UNCHANGED <<scan, found>>
       ELSE IF ~Utf8(last) THEN Refuse
       ELSE found' = found \o ParseSseEvent(last) /\ UNCHANGED scan
    /\ UNCHANGED <<sent, over, chunk, parser, read>>

StreamStep ==
    \/ \E n \in 1..StreamCap : \E c \in [1..n -> Alphabet] : Chunk(c)
    \/ StreamEnds \/ ResolveBom \/ SkipLf \/ TakeSegment \/ ReaderEof
    \/ ~Parsing /\ (Scan \/ ScanDone)

-----------------------------------------------------------------------------
StreamTypeOK ==
    /\ parser.state \in {"open", "failed", "done"} /\ Len(parser.line) <= LineCap /\ Len(parser.data) <= DataCap
    /\ 1 <= scan.event /\ scan.event <= scan.line /\ scan.line <= scan.at

\* What a stream says, told from the whole of it: its lines, in order, until one of them
\* is too long or spoils its event.
Stripped(s) == IF IsPrefix(Bom, s) THEN SubSeq(s, 3, Len(s)) ELSE s

ReadLine(acc, line) ==
    IF acc.p.state = "failed" \/ Len(line) > LineCap THEN [acc EXCEPT !.p.state = "failed"]
    ELSE [p |-> ProcessLine(acc.p, line), out |-> acc.out \o Dispatched(acc.p, line)]

ReadLines(lines) ==
    LET upTo[n \in 0..Len(lines)] ==
            IF n = 0 THEN [p |-> [type |-> <<>>, data |-> <<>>, has |-> FALSE, state |-> "open"], out |-> <<>>]
            ELSE ReadLine(upTo[n - 1], lines[n])
    IN  upTo[Len(lines)]

\* The last event needs no blank line after it.
Whole(s) ==
    LET lines == Lines(Stripped(s)) IN
    ReadLines(IF Last(lines) = <<>> THEN lines ELSE Append(lines, <<>>))

\* A mark at the start of a later event is stripped by the HTTP parser only.
LaterMark == \E k \in 2..Len(Lines(sent)) : Lines(sent)[k - 1] = <<>> /\ IsPrefix(Bom, Lines(sent)[k])

\* However the stream is cut into chunks, the reader makes the events of the whole
\* stream, or fails when that has too long a line, too much data, or a type or data
\* that is no text; the HTTP parser refuses a stream just when any of it is no text, and
\* reads the same data from one that neither refuses (next_event, scan_sse_events).
EventsOfTheStream == over /\ scanned /\ parser.state # "open" =>
    /\ read = Whole(sent).out
    /\ (parser.state = "failed") = (Whole(sent).p.state = "failed")
    /\ scan.refused = ~Utf8(sent)
    /\ parser.state = "done" /\ ~scan.refused /\ ~LaterMark => found = [k \in DOMAIN read |-> read[k].data]
=============================================================================
