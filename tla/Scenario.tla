------------------------------ MODULE Scenario ------------------------------
(***************************************************************************)
(* What every scenario of the engine shares (engine scenario/mod.rs,       *)
(* scenario/teardown.rs, protocol hang_detector.rs, core outcome.rs): the  *)
(* calls it makes on its sessions, how an answer or an error is judged,    *)
(* what the recorder and the ScenarioOutcome hold of it, and when the      *)
(* report built from both passes.                                          *)
(*                                                                         *)
(* A session here is only what a scenario may still do with it: after a    *)
(* call that was abandoned, or that found the peer gone, no other call may *)
(* follow.  A session used against that, or shut down twice, is "misused". *)
(***************************************************************************)
EXTENDS Integers, FiniteSetsExt

CONSTANTS
    Sessions,     \* the sessions a scenario may have: 0 is the run's own
    Threshold,    \* hang_threshold
    Grace,        \* grace_period
    Forever,      \* the largest Duration; an answer at Forever never comes
    Lateness      \* bound: how late the runtime may poll a woken task

ASSUME SessionsAssumption == Sessions \subseteq Nat /\ IsFiniteSet(Sessions) /\ 0 \in Sessions
ASSUME DurationAssumption ==
    /\ Threshold \in Nat \ {0} /\ Grace \in Nat /\ Lateness \in Nat /\ Forever \in Nat
    /\ Threshold + Grace + Lateness < Forever

VARIABLES
    kind,        \* the scenario that is driven
    plan,        \* its parameters
    at,          \* how far drive has come
    left,        \* the tasks of the pool that have not ended
    session,     \* what became of each session
    outcome,     \* ScenarioOutcome
    recorded,    \* the recorder's counters
    cancelled    \* ctx.cancel_token

scenarioVars == <<kind, plan, at, left, session, outcome, recorded, cancelled>>

-----------------------------------------------------------------------------
(***************************************************************************)
(* Errors and answers.                                                     *)
(***************************************************************************)
\* SessionError; "Rejects" stands for the codes -32700 and -32600 to -32602.
SessionErrors ==
    {"ServerRejects", "ServerInternal", "ServerOther", "Json", "ResponseShape", "IdMismatch", "InvalidResponseId",
     "MismatchedSuccess", "MismatchedRejects", "MismatchedError", "Io", "Closed", "TransportIo", "TransportTimeout",
     "StartupTimeout", "Http", "Other", "SchemaViolation", "InvalidJsonRpcVersion", "UnsupportedProtocolVersion"}

\* Two of them only a handshake can meet.
CallErrors == SessionErrors \ {"StartupTimeout", "UnsupportedProtocolVersion"}

CallOutcome == {"Success", "ServerError", "ProtocolError", "Malformed", "Disconnected", "Timeout", "Hang",
                "Deadlock", "Cancelled", "Crash", "ExpectedRejection"}

ClassifyError(e) ==
    CASE e \in {"ServerRejects", "ServerInternal", "SchemaViolation", "InvalidJsonRpcVersion",
                "UnsupportedProtocolVersion"} -> "ProtocolError"
      [] e \in {"Json", "ResponseShape", "IdMismatch", "InvalidResponseId", "MismatchedSuccess",
                "MismatchedRejects", "MismatchedError"} -> "Malformed"
      [] e \in {"Io", "Closed", "TransportIo"} -> "Disconnected"
      [] e \in {"TransportTimeout", "StartupTimeout"} -> "Timeout"
      [] OTHER -> "ServerError"

IsTerminalError(e) == e \in {"Closed", "TransportIo", "Io", "StartupTimeout"}

\* A call gets its answer at some instant or never; an answer is a result, which
\* may say of itself that the tool failed, or an error.
Answers == [at : 0..(Threshold + Grace + 1) \cup {Forever}, error : {"none"} \cup CallErrors, logical : BOOLEAN]

DeadlockThreshold == Min({Threshold + Grace, Forever})

\* What is made of an answer that is seen at d.
Judge(a, d) ==
    [verdict |-> IF a.error # "none" THEN "Err"
                 ELSE IF d < Threshold THEN "Ok"
                 ELSE IF d >= DeadlockThreshold THEN "Deadlock" ELSE "Slow",
     error |-> a.error, logical |-> a.logical /\ a.error = "none", pending |-> FALSE]

Unanswered == [verdict |-> "Deadlock", error |-> "none", logical |-> FALSE, pending |-> TRUE]

Polled(t) == t..(t + Lateness)

\* hang_detect: two waits, each of which looks for the answer before its timer; the
\* second starts when the first one's timer is seen.
HangDetect(a) ==
    UNION {IF a.at <= p THEN {Judge(a, p)}
           ELSE {IF a.at <= q THEN Judge(a, q) ELSE Unanswered : q \in Polled(Min({a.at, p + Grace}))}
              : p \in Polled(Min({a.at, Threshold}))}

HangOutcomes == UNION {HangDetect(a) : a \in Answers}

\* The class under which the recorder counts a call.
RecordedAs(r) ==
    CASE r.verdict = "Err" -> ClassifyError(r.error)
      [] r.verdict = "Deadlock" -> "Deadlock"
      [] r.verdict \in {"Ok", "Slow"} /\ r.logical -> "ServerError"
      [] r.verdict = "Slow" /\ ~r.logical -> "Hang"
      [] OTHER -> "Success"

Ends(r) == r.verdict = "Err" /\ IsTerminalError(r.error)

-----------------------------------------------------------------------------
(***************************************************************************)
(* Counting.                                                               *)
(***************************************************************************)
NoOutcome == [total |-> 0, successful |-> 0, hangs |-> 0, deadlocks |-> 0, errors |-> 0,
              divergences |-> 0, incomplete |-> 0, teardown |-> 0]

NothingRecorded == [c \in CallOutcome |-> 0]

Plus(o, fields) == [f \in DOMAIN o |-> IF f \in fields THEN o[f] + 1 ELSE o[f]]
Sum2(o, p) == [f \in DOMAIN o |-> o[f] + p[f]]

\* mutant: a result that says the tool failed is a success
TallyUnread(r) ==
    {"total"} \cup CASE r.verdict = "Deadlock" -> {"deadlocks"}
                     [] r.verdict = "Err" -> {"errors"}
                     [] r.verdict = "Slow" -> {"hangs"}
                     [] OTHER -> {"successful"}

\* What a call adds: a slow result that is a tool error is an error only.
Tally(r) ==
    {"total"} \cup CASE r.verdict = "Deadlock" -> {"deadlocks"}
                     [] r.verdict = "Err" \/ (r.verdict # "Deadlock" /\ r.logical) -> {"errors"}
                     [] r.verdict = "Slow" /\ ~r.logical -> {"hangs"}
                     [] OTHER -> {"successful"}

\* In deadlock_probe and race_check it is a hang and an error.
TallyProbe(r) ==
    (IF r.verdict = "Slow" THEN {"hangs"} ELSE {}) \cup (IF r.verdict = "Slow" /\ ~r.logical THEN {"total"} ELSE Tally(r))

Counted(class) == [recorded EXCEPT ![class] = @ + 1]

-----------------------------------------------------------------------------
(***************************************************************************)
(* Sessions.                                                               *)
(***************************************************************************)
SessionStates == {"none", "open", "stuck", "gone", "closed", "unsure", "misused"}

\* The session after a call that ended as r.
AfterCall(s, r) == IF session[s] # "open" THEN "misused"
                   ELSE IF r.pending THEN "stuck" ELSE IF Ends(r) THEN "gone" ELSE "open"

\* A fresh session takes the place of one that is over.
Spawned(s) == IF session[s] \in {"none", "closed", "unsure"} THEN "open" ELSE "misused"

\* The session after its shutdown, given how that ended.
AfterShutdown(state, end) == IF state \in {"open", "stuck", "gone"} THEN end ELSE "misused"

\* shutdown_session: an error, or no end within the limit, is counted.
Failed(end) == IF end = "unsure" THEN {"teardown"} ELSE {}

ScenarioInit ==
    /\ at = "start" /\ left = {}
    /\ session = [s \in Sessions |-> IF s = 0 THEN "open" ELSE "none"]
    /\ outcome = NoOutcome /\ recorded = NothingRecorded /\ cancelled = FALSE

\* drive returns what it has.
Over == at' = "over"

\* An embedder's token; the one of Run::execute is cancelled after drive only.
CancelScenario ==
    /\ plan.embedded /\ ~cancelled /\ at # "over"
    /\ cancelled' = TRUE
    /\ UNCHANGED <<kind, plan, at, left, session, outcome, recorded>>

-----------------------------------------------------------------------------
(***************************************************************************)
(* drive_pooled with n workers, as a scenario sees it (PooledRun has its   *)
(* interleavings).  A worker's session is its number.                      *)
(***************************************************************************)
PoolWorkers(n) == (1..n) \cap Sessions

\* Without a live session, or when the traffic gate fails, nobody works.
PoolOpens(n, working, done) ==
    IF ~plan.factory \/ n = 0 \/ cancelled
    THEN /\ outcome' = [outcome EXCEPT !.incomplete = @ + n]
         /\ at' = done /\ UNCHANGED <<left, session, recorded>>
    ELSE \E live \in SUBSET PoolWorkers(n), class \in {ClassifyError(e) : e \in SessionErrors} \cup {"Crash"} :
         LET failing == n - Cardinality(live)
             built == [outcome EXCEPT !.errors = @ + failing, !.incomplete = @ + failing] IN
         /\ recorded' = [recorded EXCEPT ![class] = @ + failing]
         /\ \/ /\ live # {}
               /\ at' = working /\ left' = live /\ outcome' = built
               /\ session' = [s \in Sessions |-> IF s \in live THEN Spawned(s) ELSE session[s]]
            \/ /\ live = {} \/ plan.gated \/ cancelled
               /\ at' = done /\ UNCHANGED left
               /\ \E unsure \in SUBSET live :
                     /\ session' = [s \in Sessions |-> IF s \in unsure THEN "unsure"
                                                       ELSE IF s \in live THEN "closed" ELSE session[s]]
                     /\ outcome' = [built EXCEPT !.incomplete = @ + Cardinality(live),
                                                 !.teardown = @ + Cardinality(unsure)]

\* merge_worker_outcome.
MergeWorker(o, from) == Sum2(o, IF from.total = 0 THEN Plus(from, {"incomplete"}) ELSE from)

\* The task of w panics: its session is dropped and what it counted is lost.
WorkerDies(w) ==
    /\ left' = left \ {w}
    /\ session' = [session EXCEPT ![w] = "closed"]
    /\ outcome' = Plus(outcome, {"errors", "incomplete"})
    /\ recorded' = Counted("Crash")

-----------------------------------------------------------------------------
(***************************************************************************)
(* Report::passed, for a run without thresholds.                           *)
(***************************************************************************)
Diagnostics == {"race_check", "deadlock_probe", "fuzzer"}

HardOutcomes == {"Deadlock", "Timeout", "ProtocolError", "Crash", "Malformed", "Disconnected", "Cancelled"}

ReportPassed ==
    /\ outcome.successful \in 1..outcome.total
    /\ \A f \in {"deadlocks", "divergences", "incomplete", "teardown"} : outcome[f] = 0
    /\ \A c \in HardOutcomes : recorded[c] = 0
    /\ kind \in Diagnostics => outcome.errors = 0 /\ outcome.hangs = 0 /\ recorded["Hang"] = 0

-----------------------------------------------------------------------------
(***************************************************************************)
(* The reasons the reports give for a run that failed.                     *)
(***************************************************************************)
\* describe_failure, for the markdown and the terminal report.
DescribeFailure ==
    {f \in {"deadlocks", "divergences", "teardown"} : outcome[f] > 0}
    \cup {f \in {"errors"} : kind \in Diagnostics /\ outcome.errors > 0}
    \cup {f \in {"incomplete"} : kind # "race_check" /\ outcome.incomplete > 0}
    \cup (IF outcome.total = 0 THEN {"no calls"}
          ELSE {f \in {"no success"} : outcome.successful = 0 /\ outcome.deadlocks = 0})
    \cup {c \in HardOutcomes : recorded[c] > 0 /\ (c = "Deadlock" => outcome.deadlocks = 0)}

\* failure_summary, for the JUnit report.
FailureSummary ==
    (IF outcome.total = 0 THEN {"no calls"} ELSE {f \in {"no success"} : outcome.successful = 0})
    \cup {f \in {"too many successes"} : outcome.successful > outcome.total}
    \cup {f \in {"deadlocks", "divergences", "incomplete", "teardown"} : outcome[f] > 0}
    \cup {f \in {"errors", "hangs"} : kind \in Diagnostics /\ outcome[f] > 0}
    \cup {f \in {"recorded hangs"} : kind \in Diagnostics /\ recorded["Hang"] > 0}
    \cup {c \in HardOutcomes : recorded[c] > 0}
=============================================================================
