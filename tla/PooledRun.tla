------------------------------ MODULE PooledRun ------------------------------
(***************************************************************************)
(* A pooled load run: Run::execute (engine run/executor.rs), the session   *)
(* pool it drives (scenario/pool.rs), the worker loop of `sustained`, the  *)
(* teardown of sessions and the trace they share.                          *)
(*                                                                         *)
(* drive_pooled is also reached by an embedder that drives the scenario    *)
(* with a RunContext of its own and may cancel it at any time; the token   *)
(* of Run::execute is cancelled only after the scenario has returned.      *)
(* What a task has counted is merged in the step that ends the task: the   *)
(* pool reads nothing before the last task is joined.                      *)
(***************************************************************************)
EXTENDS Integers, FiniteSetsExt, Functions

CONSTANTS
    Workers,    \* the requested sessions
    Main,       \* the run's own session, idle while the pool works
    MaxCalls    \* bound: calls of one worker

ASSUME WorkersAssumption == IsFiniteSet(Workers) /\ Workers # {} /\ Main \notin Workers
ASSUME CallsAssumption == MaxCalls \in Nat

VARIABLES
    run,        \* where Run::execute, or the embedder's drive, is
    byRun,      \* the pool is driven by Run::execute
    worker,     \* what each session's task does
    session,    \* what became of each session
    calls, good,  \* a worker's total_calls and successful_calls
    outcome,    \* the pool's ScenarioOutcome
    hard,       \* the recorder holds an outcome that fails the report
    cancelled,  \* ctx.cancel_token
    expired,    \* the deadline of the measurement has passed
    trace,      \* TraceWriter: off, open, or with a latched failure
    sealed,     \* TraceWriter.finished
    missing     \* history: a frame was not written

poolVars == <<run, byRun, expired>>
workVars == <<worker, session, calls, good>>
countVars == <<outcome, hard>>
traceVars == <<trace, sealed, missing>>
vars == <<poolVars, workVars, countVars, cancelled, traceVars>>

Ended == {"unbuilt", "panicked", "discarded", "merged"}
RunOver == {"report", "error", "returned"}

TypeOK ==
    /\ run \in {"build", "list", "drive", "spawning", "gate", "countdown", "running",
                "discard", "driven", "teardown", "finalize"} \cup RunOver
    /\ worker \in [Workers -> {"none", "spawning", "ready", "loop", "step", "calling",
                               "stopping"} \cup Ended]
    /\ session \in [Workers \cup {Main} -> {"none", "open", "closed", "unsure", "dropped"}]
    /\ calls \in [Workers -> 0..MaxCalls] /\ good \in [Workers -> 0..MaxCalls]
    /\ outcome \in [total : Nat, successful : Nat, errors : Nat,
                    incomplete : 0..Cardinality(Workers), teardown : Nat]
    /\ {byRun, hard, cancelled, expired, sealed, missing} \subseteq BOOLEAN
    /\ trace \in {"off", "open", "failed"}

Init ==
    /\ byRun \in BOOLEAN
    /\ run = IF byRun THEN "build" ELSE "drive"
    /\ trace \in IF byRun THEN {"off", "open"} ELSE {"off"}
    /\ worker = [w \in Workers |-> "none"]
    /\ session = [s \in Workers \cup {Main} |-> IF s = Main /\ ~byRun THEN "open" ELSE "none"]
    /\ calls = [w \in Workers |-> 0] /\ good = [w \in Workers |-> 0]
    /\ outcome = [total |-> 0, successful |-> 0, errors |-> 0, incomplete |-> 0, teardown |-> 0]
    /\ hard = FALSE /\ cancelled = FALSE /\ expired = FALSE
    /\ sealed = FALSE /\ missing = FALSE

-----------------------------------------------------------------------------
(***************************************************************************)
(* The trace and the teardown every part uses.                             *)
(***************************************************************************)
\* mutant: a failed write is only logged
RecordLoosely ==
    \/ trace # "failed" /\ ~sealed /\ UNCHANGED <<trace, missing>>
    \/ trace # "off" /\ missing' = TRUE /\ UNCHANGED trace

\* Frames are written through one lock; the first failure is latched, and after
\* it, or after finish, nothing is written any more.
Record ==
    \/ trace # "failed" /\ ~sealed /\ UNCHANGED <<trace, missing>>
    \/ trace # "off" /\ trace' = "failed" /\ missing' = TRUE

\* mutant: only the note of a failed teardown is kept
ShutdownUncounted(s, o) ==
    \E end \in {"closed", "unsure"} :
        /\ session' = [session EXCEPT ![s] = end]
        /\ outcome' = o

\* The session's shutdown ends cleanly, or with an error or by the deadline,
\* which is counted on top of o.
Shutdown(s, o) ==
    \E end \in {"closed", "unsure"} :
        /\ session' = [session EXCEPT ![s] = end]
        /\ outcome' = IF end = "unsure" THEN [o EXCEPT !.teardown = @ + 1] ELSE o

-----------------------------------------------------------------------------
(***************************************************************************)
(* Run::execute before the scenario.                                       *)
(***************************************************************************)
BuildSession ==
    /\ run = "build"
    /\ \/ run' = "list" /\ session' = [session EXCEPT ![Main] = "open"]
       \/ run' = "error" /\ UNCHANGED session
    /\ Record
    /\ UNCHANGED <<byRun, expired, worker, calls, good, countVars, cancelled, sealed>>

\* tools/list succeeds, or the session is shut down and the run fails.
ListTools ==
    /\ run = "list"
    /\ \/ run' = "drive" /\ UNCHANGED session
       \/ /\ run' = "error"
          /\ \E end \in {"closed", "unsure"} : session' = [session EXCEPT ![Main] = end]
    /\ Record
    /\ UNCHANGED <<byRun, expired, worker, calls, good, countVars, cancelled, sealed>>

-----------------------------------------------------------------------------
(***************************************************************************)
(* drive_pooled.                                                           *)
(***************************************************************************)
StartPool ==
    /\ run = "drive"
    /\ \/ /\ cancelled
          /\ run' = "driven" /\ outcome' = [outcome EXCEPT !.incomplete = Cardinality(Workers)]
          /\ UNCHANGED worker
       \/ /\ ~cancelled
          /\ run' = "spawning" /\ worker' = [w \in Workers |-> "spawning"]
          /\ UNCHANGED outcome
    /\ UNCHANGED <<byRun, expired, session, calls, good, hard, cancelled, traceVars>>

\* mutant: a worker begins as soon as its own session stands
SpawnSucceedsAndRuns(w) ==
    /\ worker[w] = "spawning"
    /\ worker' = [worker EXCEPT ![w] = "loop"]
    /\ session' = [session EXCEPT ![w] = "open"]
    /\ Record
    /\ UNCHANGED <<poolVars, calls, good, countVars, cancelled, sealed>>

SpawnSucceeds(w) ==
    /\ worker[w] = "spawning"
    /\ worker' = [worker EXCEPT ![w] = "ready"]
    /\ session' = [session EXCEPT ![w] = "open"]
    /\ Record
    /\ UNCHANGED <<poolVars, calls, good, countVars, cancelled, sealed>>

\* The factory cleaned up, or the spawn task panicked; the error is recorded
\* under its class, which need not be a hard one.
SpawnFails(w) ==
    /\ worker[w] = "spawning"
    /\ worker' = [worker EXCEPT ![w] = "unbuilt"]
    /\ outcome' = [outcome EXCEPT !.errors = @ + 1]
    /\ hard' \in {hard, TRUE}
    /\ Record
    /\ UNCHANGED <<poolVars, session, calls, good, cancelled, sealed>>

Live == {w \in Workers : worker[w] = "ready"}

PoolBuilt ==
    /\ run = "spawning" /\ \A w \in Workers : worker[w] # "spawning"
    /\ run' = IF Live = {} THEN "driven" ELSE "gate"
    /\ outcome' = [outcome EXCEPT !.incomplete = Cardinality(Workers \ Live)]
    /\ UNCHANGED <<byRun, expired, workVars, hard, cancelled, traceVars>>

\* The traffic gate names a start instant; without a gate it is now.
GateOpens ==
    /\ run = "gate"
    /\ run' = "countdown"
    /\ UNCHANGED <<byRun, expired, workVars, countVars, cancelled, traceVars>>

\* mutant: a failed gate counts the requested workers, not the live ones
GateFailsForAll ==
    /\ run = "gate"
    /\ run' = "discard"
    /\ outcome' = [outcome EXCEPT !.incomplete = @ + Cardinality(Workers)]
    /\ UNCHANGED <<byRun, expired, workVars, hard, cancelled, traceVars>>

\* The gate fails, or the token is cancelled first.
GateFails ==
    /\ run = "gate"
    /\ run' = "discard"
    /\ outcome' = [outcome EXCEPT !.incomplete = @ + Cardinality(Live)]
    /\ UNCHANGED <<byRun, expired, workVars, hard, cancelled, traceVars>>

\* mutant: a cancelled wait returns without the sessions' teardown
CountdownAbandoned ==
    /\ run = "countdown" /\ cancelled
    /\ run' = "driven"
    /\ outcome' = [outcome EXCEPT !.incomplete = @ + Cardinality(Live)]
    /\ UNCHANGED <<byRun, expired, workVars, hard, cancelled, traceVars>>

CountdownCancelled ==
    /\ run = "countdown" /\ cancelled
    /\ run' = "discard"
    /\ outcome' = [outcome EXCEPT !.incomplete = @ + Cardinality(Live)]
    /\ UNCHANGED <<byRun, expired, workVars, hard, cancelled, traceVars>>

\* Every worker task exists before the watch releases them all.
ReleaseWorkers ==
    /\ run = "countdown"
    /\ run' = "running"
    /\ worker' = [w \in Workers |-> IF w \in Live THEN "loop" ELSE worker[w]]
    /\ UNCHANGED <<byRun, expired, session, calls, good, countVars, cancelled, traceVars>>

\* The sessions of a pool that does not start are torn down one by one.
Discard ==
    /\ run = "discard"
    /\ \/ Live = {} /\ run' = "driven" /\ UNCHANGED <<worker, session, outcome>>
       \/ \E w \in Live : /\ Shutdown(w, outcome)
                          /\ worker' = [worker EXCEPT ![w] = "discarded"]
                          /\ UNCHANGED run
    /\ UNCHANGED <<byRun, expired, calls, good, hard, cancelled, traceVars>>

\* mutant: the pool waits for as many outcomes as sessions were requested
PoolJoinedByAll ==
    /\ run = "running" /\ \A w \in Workers : worker[w] = "merged"
    /\ run' = "driven"
    /\ UNCHANGED <<byRun, expired, workVars, countVars, cancelled, traceVars>>

PoolJoined ==
    /\ run = "running" /\ \A w \in Workers : worker[w] \in Ended
    /\ run' = "driven"
    /\ UNCHANGED <<byRun, expired, workVars, countVars, cancelled, traceVars>>

-----------------------------------------------------------------------------
(***************************************************************************)
(* A worker: drive_until_deadline over the steps of patterns, then the     *)
(* teardown of its session.                                                *)
(***************************************************************************)
Attempt(w) ==
    /\ calls[w] < MaxCalls
    /\ calls' = [calls EXCEPT ![w] = @ + 1]
    /\ worker' = [worker EXCEPT ![w] = "calling"]
    /\ Record
    /\ UNCHANGED <<poolVars, session, good, countVars, cancelled, sealed>>

Moves(w, s) ==
    /\ worker' = [worker EXCEPT ![w] = s]
    /\ UNCHANGED <<poolVars, session, calls, good, countVars, cancelled, traceVars>>

\* Before a pattern the token and the deadline are looked at.
BeginPattern(w) ==
    /\ worker[w] = "loop"
    /\ \/ (cancelled \/ expired) /\ Moves(w, "stopping")
       \/ ~cancelled /\ ~expired /\ Attempt(w)

\* Before a further step of it only the token is.
NextStep(w) ==
    /\ worker[w] = "step"
    /\ \/ cancelled /\ Moves(w, "loop")
       \/ ~cancelled /\ Attempt(w)

\* A call succeeds, fails in a way that does not end the session, or finds the
\* session gone.  Only what has a response leaves a frame.  No watchdog and no timeout
\* of the pool's own is around it.
CallEnds(w) ==
    /\ worker[w] = "calling"
    /\ \E kind \in {"ok", "soft", "hard", "terminal"} :
       /\ good' = IF kind = "ok" THEN [good EXCEPT ![w] = @ + 1] ELSE good
       /\ hard' = (hard \/ kind \in {"hard", "terminal"})
       /\ \E next \in IF kind = "terminal" THEN {"stopping"} ELSE {"loop", "step"} :
             /\ next = "step" => calls[w] < MaxCalls
             /\ worker' = [worker EXCEPT ![w] = next]
       /\ IF kind \in {"ok", "soft"} THEN Record ELSE UNCHANGED <<trace, missing>>
    /\ UNCHANGED <<poolVars, session, calls, outcome, cancelled, sealed>>

\* The watch on the token drops the call.
CallCancelled(w) ==
    /\ worker[w] = "calling" /\ cancelled
    /\ worker' = [worker EXCEPT ![w] = "loop"]
    /\ hard' = TRUE
    /\ UNCHANGED <<poolVars, session, calls, good, outcome, cancelled, traceVars>>

\* mutant: a worker that returned without a call is complete
MergedIdle(w) ==
    [outcome EXCEPT !.total = @ + calls[w], !.successful = @ + good[w],
                    !.errors = @ + (calls[w] - good[w])]

\* What the pool adds for a worker that returned.
Merged(w) ==
    [outcome EXCEPT !.total = @ + calls[w], !.successful = @ + good[w],
                    !.errors = @ + (calls[w] - good[w]),
                    !.incomplete = @ + (IF calls[w] = 0 THEN 1 ELSE 0)]

WorkerStops(w) ==
    /\ worker[w] = "stopping"
    /\ worker' = [worker EXCEPT ![w] = "merged"]
    /\ Shutdown(w, Merged(w))
    /\ UNCHANGED <<poolVars, calls, good, hard, cancelled, traceVars>>

\* mutant: a panicked task is incomplete, but no error
WorkerPanicsUncounted(w) ==
    /\ worker[w] \in {"loop", "step", "calling", "stopping"}
    /\ worker' = [worker EXCEPT ![w] = "panicked"]
    /\ session' = [session EXCEPT ![w] = "dropped"]
    /\ outcome' = [outcome EXCEPT !.incomplete = @ + 1]
    /\ hard' = TRUE
    /\ UNCHANGED <<poolVars, calls, good, cancelled, traceVars>>

\* The task panics: its session is dropped and what it had counted is lost.
WorkerPanics(w) ==
    /\ worker[w] \in {"loop", "step", "calling", "stopping"}
    /\ worker' = [worker EXCEPT ![w] = "panicked"]
    /\ session' = [session EXCEPT ![w] = "dropped"]
    /\ outcome' = [outcome EXCEPT !.errors = @ + 1, !.incomplete = @ + 1]
    /\ hard' = TRUE
    /\ UNCHANGED <<poolVars, calls, good, cancelled, traceVars>>

-----------------------------------------------------------------------------
(***************************************************************************)
(* After the scenario; time and the embedder.                              *)
(***************************************************************************)
\* Run::execute cancels its token, which ends the process sampler.
ScenarioReturns ==
    /\ run = "driven"
    /\ run' = IF byRun THEN "teardown" ELSE "returned"
    /\ cancelled' = (cancelled \/ byRun)
    /\ UNCHANGED <<byRun, expired, workVars, countVars, traceVars>>

TeardownMain ==
    /\ run = "teardown"
    /\ run' = "finalize"
    /\ Shutdown(Main, outcome)
    /\ UNCHANGED <<byRun, expired, worker, calls, good, hard, cancelled, traceVars>>

\* finish: the last flush may fail too; a trace that is not whole fails the run.
FinalizeTrace ==
    /\ run = "finalize"
    /\ \/ trace = "off" /\ UNCHANGED <<trace, sealed>>
       \/ trace # "off" /\ sealed' = TRUE /\ trace' \in {trace, "failed"}
    /\ run' = IF trace' = "failed" THEN "error" ELSE "report"
    /\ UNCHANGED <<byRun, expired, workVars, countVars, cancelled, missing>>

DeadlineExpires ==
    /\ run = "running" /\ ~expired
    /\ expired' = TRUE
    /\ UNCHANGED <<run, byRun, workVars, countVars, cancelled, traceVars>>

Cancel ==
    /\ ~byRun /\ ~cancelled /\ run # "returned"
    /\ cancelled' = TRUE
    /\ UNCHANGED <<poolVars, workVars, countVars, traceVars>>

-----------------------------------------------------------------------------
Executor == BuildSession \/ ListTools \/ ScenarioReturns \/ TeardownMain \/ FinalizeTrace

Pool == \/ StartPool \/ PoolBuilt \/ CountdownCancelled \/ ReleaseWorkers \/ Discard
        \/ PoolJoined

Work(w) == \/ SpawnSucceeds(w) \/ SpawnFails(w)
           \/ BeginPattern(w) \/ NextStep(w) \/ CallCancelled(w)
           \/ WorkerStops(w)

Next == \/ Executor \/ Pool \/ GateOpens \/ GateFails \/ DeadlineExpires \/ Cancel
        \/ \E w \in Workers : Work(w) \/ CallEnds(w) \/ WorkerPanics(w)

Spec == Init /\ [][Next]_vars

\* Startup and teardown have deadlines of their own and the runtime polls every task.
\* Nothing makes a call end (the HTTP client has no timeout and a write to a pipe or a
\* socket none), but the token, which drops it.  Nothing makes a traffic gate answer
\* either; the pool only stops asking it when the token is cancelled.
Fairness ==
    /\ WF_vars(Executor) /\ WF_vars(Pool)
    /\ WF_vars(cancelled /\ GateFails)
    /\ WF_vars(DeadlineExpires)
    /\ \A w \in Workers : WF_vars(Work(w))

FairSpec == Spec /\ Fairness

-----------------------------------------------------------------------------
(***************************************************************************)
(* The inductive invariant.                                                *)
(***************************************************************************)
Lost == {w \in Workers : \/ worker[w] \in {"none", "unbuilt", "panicked", "discarded"}
                         \/ worker[w] = "ready" /\ run = "discard"
                         \/ worker[w] = "merged" /\ calls[w] = 0}

Building == run \in {"build", "list", "drive", "spawning"}

Unsure == {s \in Workers \cup {Main} : session[s] = "unsure"}

\* Where the run is says what its workers may do.
Working == CASE run \in {"build", "list", "drive"} -> {"none"}
             [] run = "spawning" -> {"spawning", "ready", "unbuilt"}
             [] run \in {"gate", "countdown"} -> {"ready", "unbuilt"}
             [] run = "discard" -> {"ready", "unbuilt", "discarded"}
             [] run = "running" -> {"unbuilt", "loop", "step", "calling", "stopping", "panicked", "merged"}
             [] OTHER -> {"none"} \cup Ended

\* What a worker does says what became of its session and its calls.
SessionOf(w) == CASE worker[w] \in {"none", "spawning", "unbuilt"} -> {"none"}
                  [] worker[w] \in {"merged", "discarded"} -> {"closed", "unsure"}
                  [] worker[w] = "panicked" -> {"dropped"}
                  [] OTHER -> {"open"}

WorkerInv == \A w \in Workers :
    /\ worker[w] \in Working
    /\ worker[w] = "none" => worker = [v \in Workers |-> "none"]
    /\ session[w] \in SessionOf(w)
    /\ worker[w] \in {"none", "spawning", "ready", "unbuilt", "discarded"} => calls[w] = 0
    /\ good[w] <= calls[w]
    /\ worker[w] = "calling" => good[w] < calls[w]

MainInv ==
    /\ ~byRun => run \notin {"build", "list", "teardown", "finalize", "report", "error"}
    /\ byRun => run # "returned"
    /\ session[Main] \in CASE run = "build" -> {"none"}
                            [] run = "error" -> {"none", "closed", "unsure"}
                            [] run \in {"finalize", "report"} -> {"closed", "unsure"}
                            [] OTHER -> {"open"}

\* Until the pool is built nothing but errors is counted.
CountInv ==
    /\ Building => outcome.incomplete = 0
    /\ run # "error" /\ ~Building => outcome.incomplete = Cardinality(Lost)
    /\ run # "error" => outcome.teardown = Cardinality(Unsure)

TraceInv ==
    /\ missing => trace = "failed"
    /\ run = "report" => trace # "failed"

IInv == TypeOK /\ WorkerInv /\ MainInv /\ CountInv /\ TraceInv

-----------------------------------------------------------------------------
\* The scenario has returned its outcome.
Driven == run \in {"driven", "teardown", "finalize", "report", "returned"}

In(s) == {w \in Workers : worker[w] = s}
Total(f) == SumFunctionOnSet(f, In("merged"))

\* Every requested worker is accounted for once, whichever failure it met: one that
\* was not built, that panicked, was discarded or returned without a call is
\* incomplete; and so is every session whose teardown is not known to have ended
\* well (drive_pooled, merge_worker_outcome, record_shutdown).
WorkersCounted == Driven =>
    /\ outcome.incomplete = Cardinality(Workers \ {w \in In("merged") : calls[w] > 0})
    /\ outcome.teardown = Cardinality({s \in DOMAIN session : session[s] = "unsure"})

\* The merged outcome holds the calls of the workers that returned, each once, and
\* one error more for each that was not built or panicked (merge_worker_outcome).
CallsCounted == Driven =>
    /\ outcome.total = Total(calls) /\ outcome.successful = Total(good)
    /\ outcome.errors = Total(calls) - Total(good) + Cardinality(In("unbuilt") \cup In("panicked"))

\* Report::passed, for a workload that is no diagnostic and broke no threshold.
Passed ==
    /\ run = "report"
    /\ outcome.total > 0 /\ outcome.successful \in 1..outcome.total
    /\ outcome.incomplete = 0 /\ outcome.teardown = 0 /\ ~hard

\* A run that passes used the concurrency it was asked for: every requested worker
\* made a call and ended, every session, the run's own included, was shut down
\* cleanly, and a trace that was asked for is whole
\* (Report::passed, Run::execute).
PassIsHonest == Passed =>
    /\ \A w \in Workers : worker[w] = "merged" /\ calls[w] > 0
    /\ \A s \in DOMAIN session : session[s] = "closed"
    /\ ~missing

\* No call is made while a session is still being built or the gate has not
\* answered: all workers are released together (drive_pooled).
StartsTogether ==
    (\E w \in Workers : calls[w] > 0) => \A w \in Workers : worker[w] \notin {"none", "spawning", "ready"}

\* When the scenario returns no session of the pool is left open, and none is
\* dropped but by a panic; the run's own is over when Run::execute is
\* (drive_pooled, drive_pooled_patterns, Run::execute).
NothingLeftOpen ==
    /\ Driven => \A w \in Workers : /\ session[w] # "open"
                                    /\ session[w] = "dropped" => worker[w] = "panicked"
    /\ run \in {"report", "error"} => session[Main] # "open"

\* A report is only returned with a trace that holds every frame, whichever worker's
\* write failed and when (TraceWriter::record, finish).
TraceIsWhole == run = "report" => ~missing

\* The counts of a report can be relied on: what was lost is counted, and a pass is one
\* of the whole pool (drive_pooled, Report::passed).
CountsAreHonest == WorkersCounted /\ PassIsHonest

\* The pool starts as one, leaves nothing behind, and a report comes with its whole
\* trace (drive_pooled, Run::execute, TraceWriter::finish).
PoolIsOrderly == TypeOK /\ StartsTogether /\ NothingLeftOpen /\ TraceIsWhole

\* A worker waits for an answer that nothing but the server gives it.
Stuck(w) == worker[w] = "calling" /\ ~cancelled

\* Only a server that never answers a call, or a traffic gate that never answers, keeps
\* a run that is not cancelled from ending; and no failure of others does
\* (drive_pooled, execute).
RunEnds ==
    \/ <>[](run = "gate" /\ ~cancelled)
    \/ \E w \in Workers : <>[]Stuck(w)
    \/ <>(run \in RunOver)
=============================================================================
