---------------------------- MODULE HttpExchange ----------------------------
(***************************************************************************)
(* Requests of the HTTP transport (protocol transport/http.rs and          *)
(* http/metadata.rs): what is taken for the answer of a request, and the   *)
(* headers that mirror a tool's arguments, which follow from the tool list *)
(* that was answered last.  The OAuth retries are in OAuthSessions.        *)
(***************************************************************************)
EXTENDS Integers, SequencesExt, FiniteSetsExt

CONSTANTS
    Tools,       \* the names of tools
    Params,      \* the arguments a schema may annotate
    SkipCap,     \* MAX_SSE_NON_RESPONSE_EVENTS
    Exchanges    \* bound: requests

ASSUME ExchangeAssumption == IsFiniteSet(Tools) /\ IsFiniteSet(Params) /\ SkipCap \in Nat /\ Exchanges \in Nat

VARIABLES
    stateless,   \* protocol_version is the stateless one
    registry,    \* ToolHeaderRegistry: the annotated arguments of each tool
    offered,     \* history: the schema of each tool in the last list that named it
    exchange,    \* the request that is answered
    answer,      \* what it returned
    exchanges    \* requests so far

httpVars == <<stateless, registry, offered, exchange, answer, exchanges>>

-----------------------------------------------------------------------------
(***************************************************************************)
(* A schema, as far as its x-mcp-header annotations go: of each argument,  *)
(* whether it has one and what is wrong with it.                           *)
(***************************************************************************)
Annotation == {"none", "fine", "unreachable", "untyped", "duplicate", "no_token"}

Schemas == [Params -> Annotation]

\* A tool that a list does not name.
Unlisted == [p \in Params |-> "unlisted"]

\* collect_tool_headers: one bad annotation spoils the tool.
Acceptable(schema) == \A p \in Params : schema[p] \in {"none", "fine"}
CollectToolHeaders(schema) == {p \in Params : schema[p] = "fine"}

\* An argument is absent or null, of the annotated type, or not.
Values == {"absent", "fits", "other", "unsafe_integer"}

Silent == [p \in Params |-> "absent"]

Requests ==
    [method : {"tools/call"}, tool : Tools \cup {"unnamed"}, args : [Params -> Values], lists : {<<>>}]
    \cup [method : {"tools/list"}, tool : {"unnamed"}, args : {Silent}, lists : [Tools -> Schemas \cup {Unlisted}]]
    \cup [method : {"other"}, tool : {"unnamed"}, args : {Silent}, lists : {<<>>}]

Mirrored(r) == IF r.method = "tools/call" /\ r.tool \in DOMAIN registry THEN registry[r.tool] ELSE {}

\* prepare: a call without a tool's name, or with an argument that does not fit.
Unpreparable(r) ==
    /\ stateless /\ r.method = "tools/call"
    /\ r.tool = "unnamed" \/ \E p \in Mirrored(r) : r.args[p] \in {"other", "unsafe_integer"}

HeadersOf(r) == IF stateless THEN {p \in Mirrored(r) : r.args[p] # "absent"} ELSE {}

-----------------------------------------------------------------------------
(***************************************************************************)
(* Responses.                                                              *)
(***************************************************************************)
\* An event: no JSON, another message, a message with the request's id that is no
\* response, the response.
Events == {"junk", "other", "same_id", "own"}

\* A body is too long or no text, an error of JSON-RPC, or anything else; a stream is
\* its events and how it ended.
Bodies == {"unreadable", "jsonrpc_error", "text"}
Responses ==
    [status : {"ok", "not_ok"}, body : Bodies, stream : {<<"no">>}]
    \cup [status : {"ok"}, body : {"unreadable", "text"}, stream : SeqOf(Events, SkipCap + 2)]

Streamed(resp) == resp.stream # <<"no">>

\* mutant: every message with the request's id is its response
IsAnswerById(e) == e \in {"own", "same_id"}

IsAnswer(e) == e = "own"

\* read_sse_response: the first response with the request's id, if no more than SkipCap
\* other messages come before it; what is no JSON does not count.
ReadSseResponse(resp) ==
    LET own == SelectInSeq(resp.stream, IsAnswer)
        upto == IF own = 0 THEN resp.stream ELSE SubSeq(resp.stream, 1, own - 1)
        others == Len(SelectSeq(upto, LAMBDA e : e # "junk")) IN
    IF others > SkipCap THEN "too_many" ELSE IF own # 0 THEN resp.stream[own]
    ELSE IF resp.body = "unreadable" THEN "http" ELSE "closed"

\* What request makes of a response.
Taken(resp) ==
    CASE resp.body = "unreadable" /\ ~Streamed(resp) -> "http"
      [] resp.status = "not_ok" -> IF resp.body = "jsonrpc_error" THEN "body" ELSE "http"
      [] resp.status # "not_ok" /\ Streamed(resp) -> ReadSseResponse(resp)
      [] OTHER -> "body"

Passed == {"body", "own", "same_id"}

-----------------------------------------------------------------------------
HttpInit ==
    /\ stateless \in BOOLEAN /\ registry = <<>> /\ offered = [t \in Tools |-> Unlisted]
    /\ exchange = <<>> /\ answer = "none" /\ exchanges = 0

Ask(r) ==
    /\ exchange = <<>> /\ exchanges < Exchanges
    /\ exchanges' = exchanges + 1
    /\ IF Unpreparable(r) THEN answer' = "refused" /\ UNCHANGED exchange
       ELSE exchange' = <<[request |-> r, headers |-> HeadersOf(r)]>> /\ answer' = "none"
    /\ UNCHANGED <<stateless, registry, offered>>

\* mutant: a tool with a bad annotation keeps the headers it had
ProcessKeeps(lists) ==
    LET fine == {t \in Tools : lists[t] # Unlisted /\ Acceptable(lists[t])} IN
    [t \in DOMAIN registry \cup fine |-> IF t \in fine THEN CollectToolHeaders(lists[t]) ELSE registry[t]]

\* process_tools_list: the listed tools are entered, or removed; others stay.
ProcessToolsList(lists) ==
    LET listed == {t \in Tools : lists[t] # Unlisted}
        fine == {t \in listed : Acceptable(lists[t])} IN
    [t \in (DOMAIN registry \ listed) \cup fine |-> IF t \in fine THEN CollectToolHeaders(lists[t]) ELSE registry[t]]

\* Only the stateless transport looks into a tool list, which may be none at all.
Respond(resp) ==
    /\ exchange # <<>>
    /\ answer' = Taken(resp)
    /\ IF Taken(resp) \in Passed /\ resp.status = "ok" /\ stateless /\ exchange[1].request.method = "tools/list"
       THEN /\ registry' = ProcessToolsList(exchange[1].request.lists)
            /\ offered' = [t \in Tools |-> IF exchange[1].request.lists[t] = Unlisted THEN offered[t]
                                           ELSE exchange[1].request.lists[t]]
       ELSE UNCHANGED <<registry, offered>>
    /\ exchange' = <<>>
    /\ UNCHANGED <<stateless, exchanges>>

\* The connection broke; or the call was dropped.
Fails == /\ exchange # <<>>
         /\ exchange' = <<>> /\ answer' \in {"http", "dropped"}
         /\ UNCHANGED <<stateless, registry, offered, exchanges>>

HttpStep == (\E r \in Requests : Ask(r)) \/ (\E resp \in Responses : Respond(resp)) \/ Fails

-----------------------------------------------------------------------------
HttpTypeOK ==
    /\ DOMAIN registry \subseteq Tools /\ \A t \in DOMAIN registry : registry[t] \subseteq Params
    /\ answer \in {"none", "refused", "http", "dropped", "too_many", "closed"} \cup Passed

\* The headers of a call mirror just those of its arguments which the schema of its tool
\* annotates, as the last list that named the tool had it, and none of a tool whose
\* annotations were refused then (prepare, process_tools_list).
HeadersFollowSchema ==
    exchange # <<>> /\ exchange[1].headers # {} =>
        LET schema == offered[exchange[1].request.tool] IN
        /\ stateless /\ schema # Unlisted /\ Acceptable(schema)
        /\ exchange[1].headers \subseteq {p \in Params : schema[p] = "fine" /\ exchange[1].request.args[p] = "fits"}

\* What an event stream gives back is a response to the request that was made
\* (read_sse_response, parse_sse_event).
StreamAnswersOwn == answer # "same_id"
=============================================================================
