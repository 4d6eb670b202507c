------------------------------- MODULE Probes -------------------------------
(***************************************************************************)
(* The scenarios that judge single calls on fresh sessions: deadlock_probe,*)
(* race_check, cold_start and version_matrix (engine scenario/, with       *)
(* race_detector.rs).  A call and the counting of its result are one step: *)
(* nothing else of the scenario runs while it waits.                       *)
(***************************************************************************)
EXTENDS Scenario

CONSTANT Payloads    \* what a tool may answer: a value, and the order of its keys

VARIABLES
    round,       \* the iteration of cold_start, the row of version_matrix
    row,         \* the calls made in that row
    stored,      \* race_check: the responses, by worker
    ended        \* the rounds that ran to their end

probeVars == <<round, row, stored, ended>>

ProbeKinds == {"deadlock_probe", "race_check", "cold_start", "version_matrix"}

ProbeTypeOK ==
    /\ session \in [Sessions -> SessionStates]
    /\ left \subseteq Sessions /\ cancelled \in BOOLEAN
    /\ DOMAIN outcome = DOMAIN NoOutcome /\ \A f \in DOMAIN outcome : outcome[f] \in Nat
    /\ recorded \in [CallOutcome -> Nat]
    /\ round \in Nat /\ row \in Nat
    /\ DOMAIN stored \subseteq Sessions /\ \A w \in DOMAIN stored : stored[w] \in Payloads
    /\ ended \subseteq Nat

ProbeIdle == round = 0 /\ row = 0 /\ stored = <<>> /\ ended = {}

Return(o) == at' = "over" /\ outcome' = o /\ UNCHANGED <<kind, plan, left, session, recorded, cancelled, probeVars>>

\* An invalid plan is one error; so are cold_start's iterations below two with a
\* warm-up.  Without a factory cold_start and version_matrix do nothing.
InvalidPlan ==
    \/ kind \in {"deadlock_probe", "race_check"} /\ plan.count = 0
    \/ kind = "deadlock_probe" /\ plan.count > 1 /\ ~plan.factory
    \/ kind = "race_check" /\ (plan.count < 2 \/ ~plan.factory)
    \/ kind = "cold_start" /\ plan.warmup /\ plan.count < 2

RefusePlan == at = "start" /\ InvalidPlan /\ Return(Plus(NoOutcome, {"errors"}))

SkipPlan == /\ at = "start" /\ ~InvalidPlan
            /\ kind \in {"cold_start", "version_matrix"} /\ ~plan.factory
            /\ Return(outcome)

-----------------------------------------------------------------------------
(***************************************************************************)
(* deadlock_probe and race_check.                                          *)
(***************************************************************************)
ProbeMain ==
    /\ kind = "deadlock_probe" /\ at = "start" /\ ~InvalidPlan /\ plan.count = 1
    /\ Over
    /\ \/ /\ cancelled
          /\ outcome' = Plus(outcome, {"errors"}) /\ recorded' = Counted("Cancelled")
          /\ UNCHANGED session
       \/ /\ ~cancelled
          /\ \E r \in HangOutcomes :
                /\ outcome' = Plus(outcome, TallyProbe(r)) /\ recorded' = Counted(RecordedAs(r))
                /\ session' = [session EXCEPT ![0] = AfterCall(0, r)]
    /\ UNCHANGED <<kind, plan, left, cancelled, probeVars>>

ProbePool ==
    /\ at = "start" /\ ~InvalidPlan
    /\ kind \in {"race_check", "deadlock_probe"} /\ (kind = "deadlock_probe" => plan.count > 1)
    /\ PoolOpens(plan.count, "working", "joined")
    /\ UNCHANGED <<kind, plan, cancelled, probeVars>>

\* A worker that finds the token cancelled makes no call; deadlock_probe records that.
ProbeCancelled(w) ==
    /\ at = "working" /\ w \in left /\ cancelled
    /\ left' = left \ {w}
    /\ \E end \in {"closed", "unsure"} :
          /\ session' = [session EXCEPT ![w] = AfterShutdown(@, end)]
          /\ outcome' = MergeWorker(outcome, Plus(NoOutcome, {"errors"} \cup Failed(end)))
    /\ recorded' = (IF kind = "deadlock_probe" THEN Counted("Cancelled") ELSE recorded)
    /\ UNCHANGED <<kind, plan, at, cancelled, probeVars>>

\* One call, its judgement and the teardown; race_check keeps every response there
\* is, slow and failed ones too.
ProbeWorker(w) ==
    /\ at = "working" /\ w \in left /\ ~cancelled
    /\ left' = left \ {w}
    /\ \E r \in HangOutcomes, end \in {"closed", "unsure"} :
          /\ recorded' = Counted(RecordedAs(r))
          /\ session' = [session EXCEPT ![w] = AfterShutdown(AfterCall(w, r), end)]
          /\ outcome' = MergeWorker(outcome, Plus(NoOutcome, TallyProbe(r) \cup Failed(end)))
          /\ IF kind = "race_check" /\ r.verdict \in {"Ok", "Slow"}
             THEN \E p \in Payloads : stored' = [v \in DOMAIN stored \cup {w} |-> IF v = w THEN p ELSE stored[v]]
             ELSE UNCHANGED stored
    /\ UNCHANGED <<kind, plan, at, cancelled, round, row, ended>>

ProbeWorkerDies(w) ==
    /\ at = "working" /\ w \in left
    /\ WorkerDies(w)
    /\ UNCHANGED <<kind, plan, at, cancelled, probeVars>>

\* The order of an object's keys does not tell two responses apart.
Canonicalize(p) == p.value

Analyze(responses) == Cardinality({Canonicalize(responses[w]) : w \in DOMAIN responses}) > 1

\* With a response missing nothing is compared, and each missing one is an error.
JudgeResponses ==
    LET missing == plan.count - Cardinality(DOMAIN stored) IN
    IF missing # 0 THEN [outcome EXCEPT !.errors = Max({@, missing})]
    ELSE IF Analyze(stored) THEN Plus(outcome, {"divergences"}) ELSE outcome

\* mutant: the pool waits for an outcome of every worker that was asked for
ProbeJoinedByAll ==
    /\ kind \in {"race_check", "deadlock_probe"}
    /\ (at = "joined" \/ (at = "working" /\ left = {})) /\ outcome.incomplete = 0
    /\ Return(IF kind = "race_check" THEN JudgeResponses ELSE outcome)

\* The pool's last worker is joined.
ProbeJoined ==
    /\ kind \in {"race_check", "deadlock_probe"}
    /\ (at = "joined" \/ (at = "working" /\ left = {}))
    /\ Return(IF kind = "race_check" THEN JudgeResponses ELSE outcome)

-----------------------------------------------------------------------------
(***************************************************************************)
(* cold_start: a fresh session per iteration, one call on it.  version_-   *)
(* matrix: a session per revision, some calls on it.                       *)
(***************************************************************************)
Fresh == round + 1

Discard == kind = "cold_start" /\ plan.warmup /\ round = 0

Recording(class) == IF Discard THEN recorded ELSE Counted(class)

BeginRounds ==
    /\ kind \in {"cold_start", "version_matrix"} /\ at = "start" /\ ~InvalidPlan /\ plan.factory
    /\ at' = "round"
    /\ UNCHANGED <<kind, plan, left, session, outcome, recorded, cancelled, probeVars>>

\* The token is looked at before a round; cold_start's spawn is dropped with it.
RoundsEnd ==
    /\ at = "round" /\ (round = plan.count \/ cancelled)
    /\ Return(outcome)

\* mutant: a failed handshake of a row is only noted
SpawnFailsUncounted ==
    /\ at = "round" /\ round < plan.count /\ ~cancelled
    /\ \E e \in SessionErrors :
          /\ recorded' = Recording(ClassifyError(e))
          /\ at' = IF kind = "cold_start" /\ IsTerminalError(e) THEN "over" ELSE "round"
    /\ round' = round + 1
    /\ UNCHANGED <<kind, plan, left, session, outcome, cancelled, row, stored, ended>>

\* A failed spawn is an error; cold_start stops at a terminal one.
RoundSpawnFails ==
    /\ at = "round" /\ round < plan.count /\ ~cancelled
    /\ \E e \in SessionErrors :
          /\ recorded' = Recording(ClassifyError(e))
          /\ at' = IF kind = "cold_start" /\ IsTerminalError(e) THEN "over" ELSE "round"
    /\ outcome' = Plus(outcome, {"errors"})
    /\ round' = round + 1
    /\ UNCHANGED <<kind, plan, left, session, cancelled, row, stored, ended>>

RoundSpawned ==
    /\ at = "round" /\ round < plan.count /\ ~cancelled
    /\ session' = [session EXCEPT ![Fresh] = Spawned(Fresh)]
    /\ recorded' = (IF kind = "cold_start" THEN Recording("Success") ELSE recorded)
    /\ at' = "calls" /\ row' = 0
    /\ UNCHANGED <<kind, plan, left, outcome, cancelled, round, stored, ended>>

RowLength == IF kind = "cold_start" THEN 1 ELSE plan.calls

\* mutant: a row goes on after a call that did not answer
RowEndsAtErrors(r) == Ends(r)

RowEndsAt(r) == r.verdict = "Deadlock" \/ Ends(r)

\* The result is counted in any case, recorded but for the warm-up; a deadlock or
\* the end of the session ends the row, and cold_start altogether if the session is gone.
RoundCall ==
    /\ at = "calls" /\ row < RowLength /\ (kind = "version_matrix" => ~cancelled)
    /\ row' = row + 1
    /\ \E r \in HangOutcomes :
          /\ outcome' = Plus(outcome, Tally(r))
          /\ recorded' = Recording(RecordedAs(r))
          /\ session' = [session EXCEPT ![Fresh] = AfterCall(Fresh, r)]
          /\ at' = IF kind = "cold_start" /\ Ends(r) THEN "last"
                   ELSE IF RowEndsAt(r) THEN "close" ELSE "calls"
    /\ UNCHANGED <<kind, plan, left, cancelled, round, stored, ended>>

RowDone ==
    /\ at = "calls" /\ (row = RowLength \/ (cancelled /\ kind = "version_matrix"))
    /\ at' = "close"
    /\ ended' = IF row = RowLength THEN ended \cup {round} ELSE ended
    /\ UNCHANGED <<kind, plan, left, session, outcome, recorded, cancelled, round, row, stored>>

\* However the row ended its session is shut down.
RoundShutdown ==
    /\ at \in {"close", "last"}
    /\ \E end \in {"closed", "unsure"} :
          /\ session' = [session EXCEPT ![Fresh] = AfterShutdown(@, end)]
          /\ outcome' = Plus(outcome, Failed(end))
    /\ at' = IF at = "last" THEN "over" ELSE "round"
    /\ round' = round + 1
    /\ UNCHANGED <<kind, plan, left, recorded, cancelled, row, stored, ended>>

-----------------------------------------------------------------------------
ProbeStep ==
    \/ RefusePlan \/ SkipPlan \/ ProbeMain \/ ProbePool \/ ProbeJoined
    \/ BeginRounds \/ RoundsEnd \/ RoundSpawnFails \/ RoundSpawned
    \/ RoundCall \/ RowDone \/ RoundShutdown
    \/ \E w \in Sessions : ProbeCancelled(w) \/ ProbeWorker(w) \/ ProbeWorkerDies(w)
=============================================================================
