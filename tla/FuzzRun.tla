------------------------------ MODULE FuzzRun ------------------------------
(***************************************************************************)
(* The fuzzer (engine scenario/fuzzer.rs and fuzzer/, core fuzz_report.rs):*)
(* malformed tool calls, and raw frames after which the session cannot be  *)
(* trusted and is replaced.                                                *)
(***************************************************************************)
EXTENDS Scenario

VARIABLES
    tries,      \* iterations
    current,    \* the session the run holds
    findings    \* the findings of each class

fuzzVars == <<tries, current, findings>>

FuzzClass == {"Accepted", "ProtocolError", "ServerError", "ParseError", "Deadlock", "Disconnected", "Other"}

FuzzIdle == tries = 0 /\ current = 0 /\ findings = [c \in FuzzClass |-> 0]

FuzzTypeOK == tries \in Nat /\ current \in Sessions /\ findings \in [FuzzClass -> Nat]

RawPayloads == {"EmptyBody", "EmptyObject", "InvalidJson", "MissingJsonRpcVersion", "WrongJsonRpcVersion",
                "MissingId", "DuplicateId"}
CallPayloads == {"UnknownMethod", "NumericMethod", "GiantPayload", "ControlChars", "Nested", "NullParams",
                 "StringParams"}

\* No payload named means all of them.
PayloadPool == IF plan.payloads = {} THEN RawPayloads \cup CallPayloads ELSE plan.payloads

\* What an error says of a server that was sent a malformed call ...
ClassifyErr(e) ==
    CASE e = "ServerRejects" -> "ProtocolError"
      [] e \in {"Json", "ResponseShape", "IdMismatch", "InvalidResponseId", "MismatchedSuccess", "MismatchedRejects",
                "MismatchedError", "InvalidJsonRpcVersion"} -> "ParseError"
      [] e \in {"Closed", "TransportIo", "TransportTimeout", "Http", "Other", "Io", "StartupTimeout"}
              -> "Disconnected"
      [] e \in {"SchemaViolation", "UnsupportedProtocolVersion"} -> "Other"
      [] OTHER -> "ServerError"

ProbeMetric == [c \in FuzzClass |->
    CASE c = "ProtocolError" -> "ExpectedRejection"
      [] c = "ParseError" -> "Malformed"
      [] c = "Disconnected" -> "Disconnected"
      [] OTHER -> "ServerError"]

\* ... and of one that was asked for its tools after a raw frame.
ClassifyProbeErr(e) ==
    CASE e \in {"Closed", "TransportIo", "TransportTimeout", "Io", "StartupTimeout"}
              -> [class |-> "Disconnected", metric |-> "Disconnected"]
      [] e \in {"MismatchedRejects", "ServerRejects"} -> [class |-> "ProtocolError", metric |-> "ExpectedRejection"]
      [] e \in {"MismatchedError", "ServerInternal", "ServerOther"}
              -> [class |-> "ServerError", metric |-> "ServerError"]
      [] e \in {"MismatchedSuccess", "ResponseShape"} -> [class |-> "Accepted", metric |-> "Malformed"]
      [] e \in {"IdMismatch", "InvalidResponseId"} -> [class |-> "Other", metric |-> "Malformed"]
      [] e \in {"Json", "InvalidJsonRpcVersion"} -> [class |-> "ParseError", metric |-> "Malformed"]
      [] OTHER -> [class |-> "Other", metric |-> "ServerError"]

Found(class) == [findings EXCEPT ![class] = @ + 1]

-----------------------------------------------------------------------------
FuzzBegins ==
    /\ kind = "fuzzer" /\ at = "start"
    /\ at' = "fuzz"
    /\ UNCHANGED <<kind, plan, left, session, outcome, recorded, cancelled, fuzzVars>>

FuzzEnds ==
    /\ at = "fuzz" /\ (tries = plan.count \/ cancelled)
    /\ Over
    /\ UNCHANGED <<kind, plan, left, session, outcome, recorded, cancelled, fuzzVars>>

Try == at = "fuzz" /\ tries < plan.count /\ ~cancelled /\ tries' = tries + 1

\* Without a factory a raw payload is passed over.
SkipRaw ==
    /\ Try /\ PayloadPool \cap RawPayloads # {} /\ ~plan.factory
    /\ findings' = Found("Other")
    /\ UNCHANGED <<scenarioVars, current>>

FuzzStops(class) == class \in {"Deadlock", "Disconnected"}

\* A malformed call: a result that is a tool error, or a rejecting code, is what is
\* hoped for; a call that did not answer and a lost session end the run.
ProbeCall ==
    /\ Try /\ PayloadPool \cap CallPayloads # {}
    /\ \E r \in HangOutcomes :
       LET answered == r.verdict \in {"Ok", "Slow"}
           class == CASE answered -> IF r.logical THEN "ProtocolError" ELSE "Accepted"
                      [] r.verdict = "Deadlock" -> "Deadlock"
                      [] OTHER -> ClassifyErr(r.error) IN
       /\ findings' = Found(class)
       /\ session' = [session EXCEPT ![current] = AfterCall(current, r)]
       /\ recorded' = Counted(CASE class = "Deadlock" -> "Deadlock"
                                [] class = "Accepted" -> IF r.verdict = "Slow" THEN "Hang" ELSE "Malformed"
                                [] OTHER -> ProbeMetric[class])
       /\ outcome' = Plus(outcome, {"total"} \cup (IF r.verdict = "Slow" THEN {"hangs"} ELSE {})
                                   \cup {CASE class = "ProtocolError" -> "successful"
                                           [] class = "Deadlock" -> "deadlocks"
                                           [] OTHER -> "errors"})
       /\ at' = IF FuzzStops(class) THEN "over" ELSE "fuzz"
    /\ UNCHANGED <<kind, plan, left, cancelled, current>>

\* A raw frame, and the question whether the server still answers.  A transport that
\* cannot send one fails, as does one whose peer is gone.
RawProbe ==
    /\ Try /\ PayloadPool \cap RawPayloads # {} /\ plan.factory
    /\ \E found \in (IF plan.stream THEN {ClassifyProbeErr(e) : e \in CallErrors}
                                         \cup {[class |-> "ProtocolError", metric |-> "Success"],
                                               [class |-> "Deadlock", metric |-> "Deadlock"]} ELSE {})
                     \cup {[class |-> "Disconnected", metric |-> "Disconnected"]} :
          /\ findings' = Found(found.class)
          /\ recorded' = Counted(found.metric)
          /\ outcome' = Plus(outcome, {"total", CASE found.class = "Deadlock" -> "deadlocks"
                                                  [] found.metric \in {"Success", "ExpectedRejection"} -> "successful"
                                                  [] OTHER -> "errors"})
    /\ session' = [session EXCEPT ![current] = IF @ = "open" THEN "stuck" ELSE "misused"]
    /\ at' = "respawn"
    /\ UNCHANGED <<kind, plan, left, cancelled, current>>

\* mutant: the poisoned session is replaced, but not shut down
RespawnDrops ==
    /\ at = "respawn"
    /\ at' = "fuzz" /\ current' = tries /\ UNCHANGED outcome
    /\ session' = [session EXCEPT ![tries] = Spawned(tries)]
    /\ UNCHANGED <<kind, plan, left, recorded, cancelled, tries, findings>>

\* The session is replaced before it is shut down; without another one the run ends.
Respawn ==
    /\ at = "respawn"
    /\ \/ /\ at' = "fuzz" /\ current' = tries
          /\ \E end \in {"closed", "unsure"} :
                /\ session' = [session EXCEPT ![tries] = Spawned(tries), ![current] = AfterShutdown(@, end)]
                /\ outcome' = Plus(outcome, Failed(end))
       \/ /\ at' = "over" /\ outcome' = Plus(outcome, {"errors"})
          /\ UNCHANGED <<session, current>>
    /\ UNCHANGED <<kind, plan, left, recorded, cancelled, tries, findings>>

FuzzStep == FuzzBegins \/ FuzzEnds \/ SkipRaw \/ ProbeCall \/ RawProbe \/ Respawn
=============================================================================
