------------------------------ MODULE Verdict ------------------------------
(***************************************************************************)
(* What a run says in the end (cmd_run.rs): the files it writes, the       *)
(* history it is compared with and recorded in (HistoryStore), the         *)
(* collector that is told of it (OtlpExport) and the exit status a         *)
(* pipeline reads.  A behaviour is either that ending, of all of Runs, or  *)
(* one of four things that end on their own: the measurement of a run      *)
(* (Measurement), the merging of a distributed run's evidence              *)
(* (CohortEvidence), a replay (TraceReplay) or the MCP server (ServeMode). *)
(***************************************************************************)
EXTENDS CohortEvidence, TraceReplay, ServeMode, HistoryStore, OtlpExport

CONSTANT Formats    \* output.formats that make a file

ASSUME VerdictAssumption ==
    /\ Exporters \subseteq Runs /\ IsFiniteSet(Formats) /\ Beginnings # {}
    /\ \A b \in Beginnings : /\ b.history \in [Runs -> {"off", "on", "required"}]
                             /\ b.wanted \in [Exporters -> {"off", "advisory", "required"}]

VARIABLES
    part,        \* what the behaviour is about
    history,     \* output.history: "off" | "on" | "required" (require_history)
    written,     \* the files in the run's directory
    exit         \* the exit status: "none" | "zero" | "nonzero"

endingVars == <<step, history, written, exit, historyVars, exportVars>>
otherVars == <<cohortVars, replayVars, serveVars>>
verdictVars == <<part, measureVars, otherVars, endingVars>>

Unfinished == {"run", "emit", "load", "enumerate", "check", "write", "sync", "publish", "unlink", "compare",
               "recorded", "history_failed", "export", "judge"}

\* Of the other part it makes no difference what it would begin with.
Init ==
    /\ part \in {"figures", "cohort", "replay", "serve", "ending"}
    /\ \E b \in IF part = "ending" THEN Beginnings ELSE {CHOOSE b \in Beginnings : TRUE} :
          HistoryInit(b) /\ history = b.history /\ wanted = b.wanted
    /\ MeasureInit /\ (part # "figures" => setup = CHOOSE s \in Setups : TRUE)
    /\ \E f \in IF part = "cohort" THEN Fleets ELSE {CHOOSE f \in Fleets : TRUE} : CohortInit(f)
    /\ \E o \in IF part = "replay" THEN BOOLEAN ELSE {FALSE} : ReplayInit(o)
    /\ \E i \in IF part = "serve" THEN Inputs ELSE {<<>>} : ServeInit(i)
    /\ ExportInit /\ step = [r \in Runs |-> "run"]
    /\ exit = [r \in Runs |-> "none"] /\ written = [r \in Runs |-> {}]

-----------------------------------------------------------------------------
Exits(r, from, how) == Goes(r, from, "done") /\ exit' = [exit EXCEPT ![r] = how]

\* Run::execute or the distributed controller: an error is not a report.
Executed(r) ==
    /\ \/ Goes(r, "run", "emit") /\ UNCHANGED exit
       \/ Exits(r, "run", "nonzero")
    /\ UNCHANGED <<history, written, historyVars, exportVars>>

\* mutant: only a good run enters the history
AfterGoodReports(r) == IF history[r] # "off" /\ mine[r].figures.passed THEN "load" ELSE "export"

AfterReports(r) == IF history[r] # "off" THEN "load" ELSE "export"

\* emit_reports writes one file after the other and ends with the first that fails.
Emit(r) ==
    /\ step[r] = "emit"
    /\ \/ /\ written[r] = Formats
          /\ Goes(r, "emit", AfterReports(r)) /\ UNCHANGED <<written, exit>>
       \/ /\ \E f \in Formats \ written[r] : written' = [written EXCEPT ![r] = @ \cup {f}]
          /\ UNCHANGED <<step, exit>>
       \/ written[r] # Formats /\ Exits(r, "emit", "nonzero") /\ UNCHANGED written
    /\ UNCHANGED <<history, historyVars, exportVars>>

\* update_history: its error ends the run; else trend.md is written.
History(r) ==
    \/ HistoryStep(r) /\ UNCHANGED <<history, written, exit, exportVars>>
    \/ /\ \/ Exits(r, "history_failed", "nonzero") /\ UNCHANGED written
          \/ Exits(r, "recorded", "nonzero") /\ UNCHANGED written
          \/ /\ Goes(r, "recorded", "export") /\ UNCHANGED exit
             /\ written' = [written EXCEPT ![r] = @ \cup {"trend"}]
       /\ UNCHANGED <<history, historyVars, exportVars>>

Exporting(r) == r \in {e \in Exporters : wanted[e] # "off"}

BeginExport(r) ==
    /\ phase[r] = "idle" /\ phase' = [phase EXCEPT ![r] = "prepare"]
    /\ UNCHANGED <<wanted, attempts, status, taken, says, exported>>

\* export_otlp: a warning, or an error, when the collector did not accept.
Export(r) ==
    /\ step[r] = "export"
    /\ \/ ~Exporting(r) /\ Goes(r, "export", "judge") /\ UNCHANGED <<exit, exportVars>>
       \/ Exporting(r) /\ (BeginExport(r) \/ ExportStep(r)) /\ UNCHANGED <<step, exit>>
       \/ Exporting(r) /\ phase[r] = "failed" /\ Exits(r, "export", "nonzero") /\ UNCHANGED exportVars
       \/ Exporting(r) /\ phase[r] = "done" /\ Goes(r, "export", "judge") /\ UNCHANGED <<exit, exportVars>>
    /\ UNCHANGED <<history, written, historyVars>>

\* mutant: a cold history closes no gate
GateNeverCold(r) == trend[r].status = "regressed"

\* The gate update_history returned.
HistoryGate(r) ==
    \/ trend[r].status = "regressed"
    \/ history[r] = "required" /\ trend[r].status = "warming_up"

Judge(r) ==
    /\ Exits(r, "judge", IF mine[r].figures.passed /\ ~HistoryGate(r) THEN "zero" ELSE "nonzero")
    /\ UNCHANGED <<history, written, historyVars, exportVars>>

\* The process is killed, a file operation fails, or the collector's answer breaks off.
Fault(r) ==
    \/ /\ step[r] \in Unfinished /\ step' = [step EXCEPT ![r] = "dead"]
       /\ UNCHANGED <<history, written, exit, historyVars, exportVars>>
    \/ StoreFails(r) /\ UNCHANGED <<history, written, exit, exportVars>>
    \/ Exporting(r) /\ BodyBreaks(r) /\ step[r] = "export" /\ UNCHANGED <<step, history, written, exit, historyVars>>

EndingStep(r) == Executed(r) \/ Emit(r) \/ History(r) \/ Export(r) \/ Judge(r)

Progress ==
    \/ part = "figures" /\ MeasureStep /\ UNCHANGED <<part, otherVars, endingVars>>
    \/ part = "cohort" /\ CohortStep /\ UNCHANGED <<part, measureVars, replayVars, serveVars, endingVars>>
    \/ part = "replay" /\ ReplayStep /\ UNCHANGED <<part, measureVars, cohortVars, serveVars, endingVars>>
    \/ part = "serve" /\ ServeStep /\ UNCHANGED <<part, measureVars, cohortVars, replayVars, endingVars>>
    \/ part = "ending" /\ (\E r \in Runs : EndingStep(r)) /\ UNCHANGED <<part, measureVars, otherVars>>

Next ==
    \/ Progress
    \/ part = "ending" /\ (\E r \in Runs : Fault(r)) /\ UNCHANGED <<part, measureVars, otherVars>>

Spec == Init /\ [][Next]_verdictVars

\* The lookup of the collector's host has no time limit of its own.
LooksUp(r) == r \in Exporters /\ step[r] = "export" /\ phase[r] = "prepare"

\* What is relied on is what a run does after its execution: files answer, and every
\* request to the collector has a time limit.  Its execution, with calls that need not
\* return, is not, nor is the lookup, nor what is no run's ending, such as the server's
\* client; and no fault is.
GoesOn(r) ==
    /\ part = "ending" /\ step[r] # "run" /\ ~LooksUp(r)
    /\ EndingStep(r) /\ UNCHANGED <<part, measureVars, otherVars>>

FairSpec == Spec /\ \A r \in Runs : WF_verdictVars(GoesOn(r))

-----------------------------------------------------------------------------
EndingTypeOK ==
    /\ HistoryTypeOK /\ ExportTypeOK
    /\ \A r \in Runs : /\ step[r] \in Unfinished \cup {"done", "dead"}
                       /\ history[r] \in {"off", "on", "required"} /\ exit[r] \in {"none", "zero", "nonzero"}
                       /\ written[r] \subseteq Formats \cup {"trend"}

\* The figures of a report are those of its calls, and a limit that passes was kept
\* (Recorder, evaluate).
FiguresAreTrue == MeasureTypeOK /\ EveryCallRecorded /\ LimitsAreMet

\* A cohort does what was asked of it, within what each worker allows (plan_shards,
\* validate_worker_policy, merge).
EvidenceOfAll == CohortTypeOK /\ CohortIsExact /\ WorkersKeepTheirPolicy

\* A replay matches what was recorded (match_responses).
ReplayMatches == ReplayTypeOK /\ ReplayIsFair

\* A client of the MCP server gets its answers (serve).
ServerAnswers == ServeTypeOK /\ AnswersInOrder

\* The collector's last response names a rejection if there was one.
SaysWhatItRejects(r) == taken[r] = "part" => says[r] = "rejects"

\* A pipeline may go on only when the run passed, every file it was to write is there, its
\* sample is in the history and no worse than what the history allows, and, where that is
\* required, the history was warm and the collector answered the last request with
\* success, having taken the whole payload unless it does not say what it rejects
\* (run_from_config_with_output).
GreenIsEarned == \A r \in Runs : exit[r] = "zero" =>
    /\ mine[r].figures.passed /\ Formats \subseteq written[r]
    /\ history[r] # "off" => /\ mine[r] \in Seen(published) /\ trend[r].status # "regressed"
                             /\ "trend" \in written[r]
    /\ history[r] = "required" => ~(Cardinality(trend[r].baseline) < MinSamples)
    /\ r \in Exporters /\ wanted[r] = "required" =>
          status[r] = "success" /\ (SaysWhatItRejects(r) => taken[r] = "whole")

\* A run that fails for what it measured, and not because it could not write, leaves its
\* evidence behind: later runs are held against a history in which it is marked failed.
FailureIsRecorded == \A r \in Runs :
    step[r] \in {"export", "judge"} /\ history[r] # "off" =>
        /\ mine[r].run \in Present(published) /\ published[mine[r].run].figures.passed = mine[r].figures.passed
        /\ Formats \cup {"trend"} \subseteq written[r]

\* The exit status can be relied on, and so can the record (run_from_config_with_output).
EndingIsEarned == EndingTypeOK /\ GreenIsEarned /\ FailureIsRecorded

\* A run that was executed ends with an exit status, unless it is killed or waits for the
\* lookup of the collector's host, and so does one that has the addresses, however the
\* collector and the other runs behave (run_from_config_with_output).
VerdictComes == \A r \in Runs :
    step[r] = "emit" \/ (r \in Exporters /\ phase[r] = "send")
        ~> step[r] \in {"done", "dead"} \/ LooksUp(r)

\* What the documentation of export says of a collector that fails: unless fail_on_error
\* is set, it returns an outcome that was not accepted.
BackendErrorsAreAdvisory == \A r \in Exporters :
    wanted[r] = "advisory" /\ attempts[r] > 0 => phase[r] # "failed"
=============================================================================
