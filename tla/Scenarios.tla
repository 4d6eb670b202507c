------------------------------ MODULE Scenarios ------------------------------
(***************************************************************************)
(* Any one of the engine's scenarios, and what Report::passed may say of   *)
(* it.                                                                     *)
(***************************************************************************)
EXTENDS Probes, LoadShapes, FuzzRun, Functions

CONSTANT Plans    \* the scenarios that are driven, with their parameters

\* There is a session for each worker, round and try; a spike has three phases.
ASSUME PlansAssumption == \A p \in Plans :
    /\ p.kind \in ProbeKinds \cup LoadKinds \cup {"fuzzer"}
    /\ {p.count, p.calls, p.most, p.to, p.step, p.budget} \subseteq Nat
    /\ {p.warmup, p.abort, p.detect, p.stream, p.factory, p.gated, p.embedded} \subseteq BOOLEAN
    /\ p.timed \subseteq 1..3 /\ 1..p.count \subseteq Sessions /\ 1..p.to \subseteq Sessions

scenariosVars == <<scenarioVars, probeVars, loadVars, fuzzVars>>

Init == /\ \E p \in Plans : kind = p.kind /\ plan = p
        /\ ScenarioInit /\ ProbeIdle /\ LoadIdle /\ FuzzIdle

Drive ==
    \/ kind \in ProbeKinds /\ ProbeStep /\ UNCHANGED <<loadVars, fuzzVars>>
    \/ kind \in LoadKinds /\ LoadStep /\ UNCHANGED <<probeVars, fuzzVars>>
    \/ kind = "fuzzer" /\ FuzzStep /\ UNCHANGED <<probeVars, loadVars>>

Environment ==
    \/ CancelScenario /\ UNCHANGED <<probeVars, loadVars, fuzzVars>>
    \/ kind \in LoadKinds /\ LoadEnvironment /\ UNCHANGED <<probeVars, fuzzVars>>

Deadline == kind \in LoadKinds /\ WindowCloses /\ UNCHANGED <<probeVars, fuzzVars>>

Next == Drive \/ Environment

Spec == Init /\ [][Next]_scenariosVars

\* The probes and the fuzzer have limits for their calls, every scenario has them for
\* its shutdowns, and the windows have deadlines.  A call under load has none: its
\* answer is the server's, so Drive is without it.
FairSpec == Spec /\ WF_scenariosVars(Drive) /\ WF_scenariosVars(Deadline)

-----------------------------------------------------------------------------
TypeOK == kind \in ProbeKinds \cup LoadKinds \cup {"fuzzer"} /\ ProbeTypeOK /\ LoadTypeOK /\ FuzzTypeOK

\* No scenario calls on a session after a call it abandoned there (a deadlock, a
\* cancellation, a raw frame) or after the peer was found gone, none shuts a session
\* down twice, and none puts a fresh session in the place of a live one
\* (drive of every scenario, hang_detect, is_terminal_error, respawn).
SessionsUsedProperly == \A s \in Sessions : session[s] # "misused"

\* When drive returns, the sessions it spawned are shut down, whichever way each of
\* them ended, and if a shutdown failed the outcome says so; the one that is left is
\* the run's own, or the fuzzer's replacement of it.
Held == IF kind = "fuzzer" THEN current ELSE 0

SpawnedAreShutDown == at = "over" =>
    /\ \A s \in Sessions \ {Held} : session[s] \in {"none", "closed", "unsure"}
    /\ (\E s \in Sessions : session[s] = "unsure") => outcome.teardown > 0

\* From first to last a session is either in use, or shut down, or known not to be
\* (every scenario's drive).
SessionsAreKept == TypeOK /\ SessionsUsedProperly /\ SpawnedAreShutDown

Warm == kind = "cold_start" /\ plan.warmup

\* The two books agree: every call that drive counted has an outcome in it, and, but
\* for the warm-up, the recorder knows of each success and each deadlock, and of no
\* fewer calls (ScenarioOutcome, Recorder::record).
CountsAgree == at = "over" =>
    /\ outcome.total <= outcome.successful + outcome.hangs + outcome.deadlocks + outcome.errors
    /\ Max({outcome.successful, outcome.deadlocks}) <= outcome.total
    /\ ~Warm => /\ outcome.successful <= recorded["Success"] + recorded["ExpectedRejection"]
                /\ outcome.total <= SumFunction(recorded)
                /\ recorded["Crash"] = 0 => outcome.deadlocks = recorded["Deadlock"]

-----------------------------------------------------------------------------
\* Rounds of cold_start and version_matrix that did not come to their end.
Unended == Cardinality((0..(plan.count - 1)) \ ended)

Ran(l) == \E i \in DOMAIN levels : levels[i].level = l /\ levels[i].calls > 0

PlanDone ==
    CASE kind = "deadlock_probe" -> outcome.total = plan.count /\ outcome.successful = plan.count
      [] kind = "race_check" -> /\ outcome.successful = plan.count
                                /\ DOMAIN stored = 1..plan.count /\ ~Analyze(stored)
      [] kind \in {"cold_start", "version_matrix"} -> Unended <= outcome.errors
      [] kind = "fuzzer" -> /\ tries = plan.count /\ outcome.successful = outcome.total
                            /\ \A c \in FuzzClass : findings[c] > 0 => c \in {"ProtocolError", "Other"}
      [] kind = "ramp" -> /\ claim # "broke" => \A l \in Windows : Ran(l)
                          /\ \A i \in DOMAIN levels : levels[i].good => levels[i].calls > 0
      [] kind = "spike" -> \A p \in plan.timed : Ran(p)
      [] OTHER -> Pooled => \A w \in 1..plan.count : made[w] > 0

\* A run that passes did what it was asked to: every probe succeeded and its answers
\* were compared, every iteration, row, level and phase was gone through or is counted
\* as an error, and no level of a ramp is called good that nothing was asked of
\* (Report::passed; Run::execute attaches a factory and nobody can cancel its token).
PassMeansDone == at = "over" /\ ReportPassed /\ plan.factory /\ ~plan.embedded => PlanDone

\* The JUnit report of a run names a reason exactly when the run failed.
FailureIsNamed == at = "over" => (FailureSummary = {}) = ReportPassed

\* A verdict is earned and explained (Report::passed, failure_summary).
VerdictIsEarned == PassMeansDone /\ FailureIsNamed

\* What describe_failure says of itself: it mentions every signal that contributed.
FailureIsDescribed == at = "over" /\ ~ReportPassed => DescribeFailure # {}

\* drive returns whatever the server does, but for one thing: a caller of a load
\* scenario waits for ever for an answer that does not come, since nothing but the
\* answer and the token is waited for (steps::execute, worker_call_loop, and the
\* loops of ramp, soak and spike on the run's own session).
DriveReturns == <>(at = "over") \/ \E w \in Sessions : <>[](w \in calling)

\* What transport/mod.rs says of a transport that cannot send raw bytes: the fuzzer
\* records those iterations as skipped rather than sent.
RawUnsupportedIsSkipped ==
    kind = "fuzzer" /\ ~plan.stream /\ PayloadPool \subseteq RawPayloads => outcome.total = 0

\* What the notes of a ramp say: that it was completed without a breaking point.
CompletedRampRanAll == claim = "completed" => \A l \in Windows : \E i \in DOMAIN levels : levels[i].level = l
=============================================================================
