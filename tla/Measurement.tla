---------------------------- MODULE Measurement ----------------------------
(***************************************************************************)
(* How the figures of one report come about (core metrics, engine          *)
(* process.rs, run/executor.rs, run/thresholds.rs): worker threads record  *)
(* their calls without a common lock, a sampler follows the process of the *)
(* run's first session, and when drive has returned the thresholds are     *)
(* held against what both have.                                            *)
(***************************************************************************)
EXTENDS Integers, FiniteSetsExt, SequencesExt, Functions

CONSTANTS
    Threads,      \* worker threads that record calls
    Tools,        \* tools they call
    MaxCalls,     \* bound: calls of a run
    MaxSamples    \* bound: ticks at which the sampler sees the process

ASSUME MeasurementAssumption ==
    /\ IsFiniteSet(Threads) /\ IsFiniteSet(Tools) /\ Tools # {} /\ MaxCalls \in Nat /\ MaxSamples \in Nat
    /\ Tools \cap {"p50", "p99", "error_rate", "memory", "slope"} = {}

VARIABLES
    setup,        \* transport, and which processes serve the calls
    calls,        \* the calls made so far: what was recorded of each, and its server
    doing,        \* what each thread has still to do for its call
    outcomes,     \* Recorder: the counters of all calls
    latency,      \* Recorder: the latencies of all calls, by value
    perTool,      \* Recorder: the entry of each tool in the map; 0 for none
    entries,      \* the state behind each entry, also behind one no longer in the map
    samples,      \* the sampler's samples: instant, RSS and process
    report,       \* what the report was built from
    measured      \* "driving" | "sampled" | "reported"

measureVars == <<setup, calls, doing, outcomes, latency, perTool, entries, samples, report, measured>>

Outcomes == {"Success", "Hang", "ExpectedRejection", "ServerError"}

\* A call that hangs takes longer than one that does not; a rejection has no latency.
Latencies == {1, 2}
Contributes(o) == o \in {"Success", "Hang"}
LatencyOf(o) == IF o = "Hang" THEN 2 ELSE 1

Nothing == [o \in Outcomes |-> 0]
NoLatency == [l \in Latencies |-> 0]
Total(f) == SumFunction(f)

\* Either the run's first session serves the calls or sessions of the factory do;
\* only a stdio session has a process that can be sampled.
Servers == {"first", "factory"}
Setups == [stdio : BOOLEAN, servers : (SUBSET Servers) \ {{}}]

Idle == [phase |-> "idle"]

MeasureInit ==
    /\ setup \in Setups
    /\ calls = <<>> /\ doing = [t \in Threads |-> Idle]
    /\ outcomes = Nothing /\ latency = NoLatency
    /\ perTool = [tool \in Tools |-> 0] /\ entries = <<>>
    /\ samples = <<>> /\ report = {} /\ measured = "driving"

-----------------------------------------------------------------------------
(***************************************************************************)
(* Recorder::record_tool, one shared access at a time.                     *)
(***************************************************************************)
Bumped(counters, key) == [counters EXCEPT ![key] = @ + 1]

\* The call ended; OutcomeCounters::bump.
CallEnds(t) ==
    /\ measured = "driving" /\ doing[t] = Idle /\ Len(calls) < MaxCalls
    /\ \E o \in Outcomes, tool \in Tools, by \in setup.servers :
          /\ calls' = Append(calls, [outcome |-> o, tool |-> tool, by |-> by])
          /\ outcomes' = Bumped(outcomes, o)
          /\ doing' = [doing EXCEPT ![t] = [phase |-> IF Contributes(o) THEN "latency" ELSE "look",
                                            outcome |-> o, tool |-> tool]]
    /\ UNCHANGED <<setup, latency, perTool, entries, samples, report, measured>>

RecordLatency(t) ==
    /\ doing[t].phase = "latency"
    /\ latency' = Bumped(latency, LatencyOf(doing[t].outcome))
    /\ doing' = [doing EXCEPT ![t].phase = "look"]
    /\ UNCHANGED <<setup, calls, outcomes, perTool, entries, samples, report, measured>>

Holding(t, e) == [phase |-> "count", outcome |-> doing[t].outcome, tool |-> doing[t].tool, entry |-> e]

\* Under the read lock; it is dropped before the write lock is asked for.
LookUp(t) ==
    /\ doing[t].phase = "look"
    /\ doing' = [doing EXCEPT ![t] = IF perTool[@.tool] = 0 THEN [@ EXCEPT !.phase = "insert"]
                                     ELSE Holding(t, perTool[@.tool])]
    /\ UNCHANGED <<setup, calls, outcomes, latency, perTool, entries, samples, report, measured>>

\* mutant: insert what was missing at the look-up
InsertBlindly(t) ==
    /\ doing[t].phase = "insert"
    /\ entries' = Append(entries, [outcomes |-> Nothing, latency |-> NoLatency])
    /\ perTool' = [perTool EXCEPT ![doing[t].tool] = Len(entries) + 1]
    /\ doing' = [doing EXCEPT ![t] = Holding(t, Len(entries) + 1)]
    /\ UNCHANGED <<setup, calls, outcomes, latency, samples, report, measured>>

\* Under the write lock: entry().or_insert_with, because another thread may have been here.
InsertTool(t) ==
    /\ doing[t].phase = "insert"
    /\ IF perTool[doing[t].tool] # 0
       THEN UNCHANGED <<perTool, entries>>
       ELSE /\ entries' = Append(entries, [outcomes |-> Nothing, latency |-> NoLatency])
            /\ perTool' = [perTool EXCEPT ![doing[t].tool] = Len(entries) + 1]
    /\ doing' = [doing EXCEPT ![t] = Holding(t, perTool'[doing[t].tool])]
    /\ UNCHANGED <<setup, calls, outcomes, latency, samples, report, measured>>

\* Outside the locks, on the entry's own counters.
CountForTool(t) ==
    /\ doing[t].phase = "count"
    /\ entries' = [entries EXCEPT ![doing[t].entry].outcomes = Bumped(@, doing[t].outcome)]
    /\ doing' = [doing EXCEPT ![t] = IF Contributes(@.outcome) THEN [@ EXCEPT !.phase = "time"] ELSE Idle]
    /\ UNCHANGED <<setup, calls, outcomes, latency, perTool, samples, report, measured>>

TimeForTool(t) ==
    /\ doing[t].phase = "time"
    /\ entries' = [entries EXCEPT ![doing[t].entry].latency = Bumped(@, LatencyOf(doing[t].outcome))]
    /\ doing' = [doing EXCEPT ![t] = Idle]
    /\ UNCHANGED <<setup, calls, outcomes, latency, perTool, samples, report, measured>>

RecordTool(t) == CallEnds(t) \/ RecordLatency(t) \/ LookUp(t) \/ InsertTool(t) \/ CountForTool(t) \/ TimeForTool(t)

-----------------------------------------------------------------------------
(***************************************************************************)
(* ProcessSampler, and what drive's return does with it.                   *)
(***************************************************************************)
\* sample_loop up to its cancellation: a sample for each tick at which the process was
\* seen.  What it sees does not depend on what the threads record meanwhile.
SampleLoops ==
    {s \in UNION {[1..n -> [at : 1..(2 * MaxSamples), rss : 0..2, of : {"first"}]] : n \in 0..MaxSamples} :
        \A i \in DOMAIN s : IF i = 1 THEN s[i].at = 1 ELSE s[i].at - s[i - 1].at \in 1..2}

\* mutant: the idle first process stands for the ones that did the work
SampledAnyway ==
    /\ measured = "driving" /\ \A t \in Threads : doing[t] = Idle
    /\ measured' = "sampled"
    /\ samples' \in IF setup.stdio THEN SampleLoops ELSE {<<>>}
    /\ UNCHANGED <<setup, calls, doing, outcomes, latency, perTool, entries, report>>

\* finish.  The samples are dropped when sessions of the factory worked: it is their
\* processes that count, and nobody sampled those.
Sampled ==
    /\ measured = "driving" /\ \A t \in Threads : doing[t] = Idle
    /\ measured' = "sampled"
    /\ samples' \in IF setup.stdio /\ "factory" \notin setup.servers THEN SampleLoops ELSE {<<>>}
    /\ UNCHANGED <<setup, calls, doing, outcomes, latency, perTool, entries, report>>

\* snapshot_per_tool.
ToolState(tool) == IF perTool[tool] = 0 THEN [outcomes |-> Nothing, latency |-> NoLatency] ELSE entries[perTool[tool]]

\* value_at_quantile of a histogram that holds something.
Quantile(l, percent) ==
    Min({v \in Latencies : 100 * Total(Restrict(l, {u \in Latencies : u <= v})) >= percent * Total(l)})

\* aggregate: the growth from the first sample to the largest.
Growth == Max({s.rss : s \in Range(samples)}) - samples[1].rss

\* detect_leak, the least-squares slope, with the divisor on the other side.
Spread(f(_, _)) ==
    MapThenSumSet(LAMBDA p : f(samples[p[1]], samples[p[2]]), {p \in (DOMAIN samples) \X (DOMAIN samples) : p[1] < p[2]})
RunsAway == 2 * Spread(LAMBDA a, b : (b.at - a.at) * (b.rss - a.rss)) > Spread(LAMBDA a, b : (b.at - a.at) * (b.at - a.at))

MinSlopeSamples == 3

\* A tool stands for the budget it has of its own.
Kinds == {"p50", "p99", "error_rate", "memory", "slope"} \cup Tools

\* mutant: no latency sample is no latency
TooSlowIfAny(l, percent) == Total(l) > 0 /\ Quantile(l, percent) > 1
TooSlow(l, percent) == Total(l) = 0 \/ Quantile(l, percent) > 1

\* Of all thresholds that may be configured, those that this run violates; here half of
\* the requests may fail, the memory may grow by one and half of one a second.
Violated(k) ==
    CASE k = "p50" -> TooSlow(latency, 50)
      [] k = "p99" -> TooSlow(latency, 99)
      [] k = "error_rate" -> LET good == outcomes["Success"] + outcomes["ExpectedRejection"] IN
                             Total(outcomes) = 0 \/ 2 * (Total(outcomes) - good) > Total(outcomes)
      [] k = "memory" -> samples = <<>> \/ Growth > 1
      [] k = "slope" -> Len(samples) < MinSlopeSamples \/ RunsAway
      [] OTHER -> TooSlow(ToolState(k).latency, 99)

\* The snapshots and evaluate_thresholds; the sessions are shut down in between.
ReportBuilt ==
    /\ measured = "sampled" /\ measured' = "reported"
    /\ report' = {k \in Kinds : Violated(k)}
    /\ UNCHANGED <<setup, calls, doing, outcomes, latency, perTool, entries, samples>>

MeasureStep == (\E t \in Threads : RecordTool(t)) \/ Sampled \/ ReportBuilt

-----------------------------------------------------------------------------
MeasureTypeOK ==
    /\ setup \in Setups /\ Len(calls) <= MaxCalls /\ Len(samples) <= MaxSamples
    /\ \A t \in Threads : doing[t].phase \in {"idle", "latency", "look", "insert", "count", "time"}
    /\ \A tool \in Tools : perTool[tool] \in 0..Len(entries)
    /\ report \subseteq Kinds /\ measured \in {"driving", "sampled", "reported"}

CallsWith(P(_)) == Cardinality({i \in DOMAIN calls : P(calls[i])})

\* Once drive has returned, every call is in the counters of the run and of its tool,
\* and every one that was answered with a result in both histograms, whichever threads
\* met over the tool's entry (Recorder::record_tool).
EveryCallRecorded == measured # "driving" =>
    /\ \A o \in Outcomes : outcomes[o] = CallsWith(LAMBDA c : c.outcome = o)
    /\ Total(latency) = CallsWith(LAMBDA c : Contributes(c.outcome))
    /\ \A tool \in Tools :
          /\ Total(ToolState(tool).outcomes) = CallsWith(LAMBDA c : c.tool = tool)
          /\ Total(ToolState(tool).latency) = CallsWith(LAMBDA c : c.tool = tool /\ Contributes(c.outcome))

\* A threshold is only met by evidence: a latency budget by results of which at most one
\* in a hundred, or half of them, was late, an error rate by calls, a memory limit by
\* samples of the process that served every one of them (evaluate_thresholds,
\* evaluate_tool_slos).
LimitsAreMet == measured = "reported" =>
    /\ "p99" \notin report => \E i \in DOMAIN calls : Contributes(calls[i].outcome)
    /\ "p99" \notin report => 99 * CallsWith(LAMBDA c : c.outcome = "Hang") <= CallsWith(LAMBDA c : c.outcome = "Success")
    /\ "p50" \notin report => CallsWith(LAMBDA c : c.outcome = "Hang") <= CallsWith(LAMBDA c : c.outcome = "Success")
    /\ "error_rate" \notin report => calls # <<>> /\ Len(calls) >= 2 * CallsWith(LAMBDA c : c.outcome \in {"Hang", "ServerError"})
    /\ \A tool \in Tools : tool \notin report => \E i \in DOMAIN calls : calls[i].tool = tool
    /\ \/ {"memory", "slope"} \subseteq report
       \/ samples # <<>> /\ \A i \in DOMAIN calls, s \in Range(samples) : s.of = calls[i].by
=============================================================================
