--------------------------- MODULE CohortEvidence ---------------------------
(***************************************************************************)
(* How the report of a distributed run comes about (distributed shard.rs,  *)
(* policy.rs and aggregate.rs, cmd_run's distributed controller and        *)
(* worker): the workload is cut into shards, every worker holds its shard  *)
(* against a policy of its own and runs it, and the evidence they send is  *)
(* merged or refused.  The frames that carry it are DistributedRun's.      *)
(***************************************************************************)
EXTENDS Measurement

CONSTANTS
    Fleets,         \* the configured cohorts to begin with
    MaxWorkers,     \* numbers of workers are at most this, for u32::MAX
    Width           \* counters are below this, for 2^64

\* How a worker of another version may differ in what it sends: in what the controller
\* holds against the cohort, and in what it does not.
Noticed == {"index", "range", "count", "interval", "kind", "latency", "tools"}
Unnoticed == {"workers", "no_tools", "recounted"}
Quirk == {"none"} \cup Noticed \cup Unnoticed

ASSUME CohortAssumption ==
    /\ Fleets # {} /\ MaxWorkers \in Nat /\ Width \in Nat
    /\ \A f \in Fleets : /\ f.agents \subseteq Nat /\ IsFiniteSet(f.agents)
                          /\ f.workers \in Nat /\ f.calls \in Nat /\ f.quirk \in [f.agents -> Quirk]
                          /\ \A a \in f.agents : f.policy[a].workers \in Nat

VARIABLES
    fleet,          \* the configuration: agents, workers, target, policy, quirk; bound: calls
    shards,         \* what plan_shards made of it
    worker,         \* "idle" | "prepared" | "denied" | "running" | "finished", per agent
    allowing,       \* the hosts a worker's session may reach though they are restricted
    recorded,       \* what each worker's Recorder has
    merged,         \* what aggregate_evidence has so far
    cohort          \* "configured" | "planned" | "merging" | "merged" | "refused"

cohortVars == <<fleet, shards, worker, allowing, recorded, merged, cohort>>

\* An agent is a number, for the order of the names.
Agents == UNION {f.agents : f \in Fleets}
Calls == UNION {[1..n -> [outcome : Outcomes, tool : Tools]] : n \in 0..fleet.calls}

NoMetrics == [outcomes |-> Nothing, latency |-> NoLatency]
NothingMerged ==
    [agents |-> {}, kinds |-> {}, indices |-> {}, workers |-> 0, elapsed |-> 0, metrics |-> NoMetrics, tools |-> <<>>]

CohortInit(f) ==
    /\ fleet = f /\ shards = <<>> /\ merged = NothingMerged /\ cohort = "configured"
    /\ worker = [a \in Agents |-> "idle"] /\ allowing = [a \in Agents |-> {}]
    /\ recorded = [a \in Agents |-> <<>>]

-----------------------------------------------------------------------------
(***************************************************************************)
(* Controller: validate_distributed and plan_shards.                       *)
(***************************************************************************)
\* The rank of an agent among the sorted names.
Rank(a) == Cardinality({b \in fleet.agents : b < a})

\* mutant: one worker too many
ShareRoundedUp(a) ==
    LET n == Cardinality(fleet.agents) IN
    fleet.workers \div n + (IF Rank(a) <= fleet.workers % n /\ fleet.workers % n # 0 THEN 1 ELSE 0)

Share(a) ==
    LET n == Cardinality(fleet.agents) IN
    fleet.workers \div n + (IF Rank(a) < fleet.workers % n THEN 1 ELSE 0)

PlanShards ==
    /\ cohort = "configured"
    /\ IF Cardinality(fleet.agents) >= 2 /\ fleet.workers >= Cardinality(fleet.agents)
       THEN /\ shards' = [a \in fleet.agents |->
                            [index |-> Rank(a), count |-> Cardinality(fleet.agents), workers |-> Share(a)]]
            /\ worker' = [a \in Agents |-> IF a \in fleet.agents THEN "prepared" ELSE "idle"]
            /\ cohort' = "planned"
       ELSE cohort' = "refused" /\ UNCHANGED <<shards, worker>>
    /\ UNCHANGED <<fleet, allowing, recorded, merged>>

-----------------------------------------------------------------------------
(***************************************************************************)
(* Worker: AgentPolicy::authorize, and the run.                            *)
(***************************************************************************)
\* mutant: what the controller allows is allowed
ExceptionsOfBoth(a) == (fleet.policy[a].hosts \cap {fleet.target.host}) \cup fleet.target.hosts

\* What the controller allows is never looked at.
Exceptions(a) == fleet.policy[a].hosts \cap {fleet.target.host}

Authorizes(a) ==
    LET policy == fleet.policy[a]
        target == fleet.target
    IN  /\ shards[a].workers \in 1..policy.workers
        /\ target.secure \/ (policy.plaintext /\ ~target.credentials)
        /\ policy.hosts = {} \/ target.host \in policy.hosts
        /\ target.host # "restricted" \/ target.host \in policy.hosts

\* A denied worker tells the controller and ends; the others are cancelled.
Authorize(a) ==
    /\ cohort = "planned" /\ worker[a] = "prepared"
    /\ IF Authorizes(a)
       THEN /\ worker' = [worker EXCEPT ![a] = "running"]
            /\ allowing' = [allowing EXCEPT ![a] = Exceptions(a)]
            /\ UNCHANGED cohort
       ELSE /\ worker' = [worker EXCEPT ![a] = "denied"] /\ cohort' = "refused"
            /\ UNCHANGED allowing
    /\ UNCHANGED <<fleet, shards, recorded, merged>>

\* Nobody measures before all are ready.
RunShard(a) ==
    /\ cohort = "planned" /\ worker[a] = "running"
    /\ \A b \in fleet.agents : worker[b] \in {"running", "finished"}
    /\ recorded' \in {[recorded EXCEPT ![a] = calls_] : calls_ \in Calls}
    /\ worker' = [worker EXCEPT ![a] = "finished"]
    /\ UNCHANGED <<fleet, shards, allowing, merged, cohort>>

\* A Recorder's figures of a worker's calls, those that ended so and of these tools; how it
\* comes by them is Measurement's.
Figure(a, O, T) == Cardinality({i \in DOMAIN recorded[a] : recorded[a][i].outcome \in O /\ recorded[a][i].tool \in T})
MetricsOf(a, T) ==
    [outcomes |-> [o \in Outcomes |-> Figure(a, {o}, T)],
     latency |-> [l \in Latencies |-> Figure(a, {o \in Outcomes : Contributes(o) /\ LatencyOf(o) = l}, T)]]

\* build_evidence.  The kind stands for the target's protocol and tools and for the
\* layout of the histograms, which must be the same for all.
HonestEvidence(a) ==
    [shard |-> shards[a], elapsed |-> 1, kind |-> "same",
     metrics |-> MetricsOf(a, Tools),
     tools |-> [t \in {c.tool : c \in Range(recorded[a])} |-> MetricsOf(a, {t})]]

\* What a worker of another version may send instead: hello's binary_version is not
\* compared.  The number of workers is not held against the plan, a map of tools may be
\* missing, and counters that fit their histogram are believed.
Lossy(m) == [m EXCEPT !.latency = [l \in Latencies |-> 0]]
Recounted(m) == [outcomes |-> Bumped(m.outcomes, "Success"), latency |-> Bumped(m.latency, LatencyOf("Success"))]
Evidence(a) ==
    LET e == HonestEvidence(a) IN
    CASE fleet.quirk[a] = "none" -> e
      [] fleet.quirk[a] = "index" -> [e EXCEPT !.shard.index = 0]
      [] fleet.quirk[a] = "range" -> [e EXCEPT !.shard.index = e.shard.count]
      [] fleet.quirk[a] = "count" -> [e EXCEPT !.shard.count = 1]
      [] fleet.quirk[a] = "interval" -> [e EXCEPT !.elapsed = 0]
      [] fleet.quirk[a] = "kind" -> [e EXCEPT !.kind = "other"]
      [] fleet.quirk[a] = "latency" -> [e EXCEPT !.metrics = Lossy(@)]
      [] fleet.quirk[a] = "tools" -> [e EXCEPT !.tools = [t \in DOMAIN @ |-> Lossy(@[t])]]
      [] fleet.quirk[a] = "workers" -> [e EXCEPT !.shard.workers = @ + 1]
      [] fleet.quirk[a] = "no_tools" -> [e EXCEPT !.tools = <<>>]
      [] fleet.quirk[a] = "recounted" -> [e EXCEPT !.metrics = Recounted(@)]

-----------------------------------------------------------------------------
(***************************************************************************)
(* Controller: aggregate_evidence, one agent at a time in name order.      *)
(***************************************************************************)
Fits(n) == n < Width

\* checked_add of every counter, and of the samples of the histograms.
Added(f, g) == [x \in DOMAIN f |-> f[x] + g[x]]
AddedMetrics(m, n) == [outcomes |-> Added(m.outcomes, n.outcomes), latency |-> Added(m.latency, n.latency)]
Countable(m) == \A o \in Outcomes : Fits(m.outcomes[o])

\* decode_validated_metrics.
LatencyOutcomes(m) == m.outcomes["Success"] + m.outcomes["Hang"]
Decodes(m) == Fits(LatencyOutcomes(m)) /\ Total(m.latency) = LatencyOutcomes(m)

ToolMetrics(tools, t) == IF t \in DOMAIN tools THEN tools[t] ELSE NoMetrics
AddedTools(e) ==
    [t \in DOMAIN merged.tools \cup DOMAIN e.tools |->
        AddedMetrics(ToolMetrics(merged.tools, t), ToolMetrics(e.tools, t))]

\* mutant: a shard may be counted twice
MergesTwice(e) ==
    /\ e.shard.count = Cardinality(fleet.agents) /\ e.shard.index < e.shard.count /\ e.shard.workers > 0
    /\ merged.kinds \subseteq {e.kind}
    /\ merged.workers + e.shard.workers <= MaxWorkers
    /\ Decodes(e.metrics) /\ \A t \in DOMAIN e.tools : Decodes(e.tools[t])
    /\ Countable(AddedMetrics(merged.metrics, e.metrics))
    /\ \A t \in DOMAIN AddedTools(e) : Countable(AddedTools(e)[t])

Merges(e) ==
    /\ e.shard.count = Cardinality(fleet.agents) /\ e.shard.index < e.shard.count /\ e.shard.workers > 0
    /\ e.shard.index \notin merged.indices
    /\ merged.kinds \subseteq {e.kind}
    /\ merged.workers + e.shard.workers <= MaxWorkers
    /\ Decodes(e.metrics) /\ \A t \in DOMAIN e.tools : Decodes(e.tools[t])
    /\ Countable(AddedMetrics(merged.metrics, e.metrics))
    /\ \A t \in DOMAIN AddedTools(e) : Countable(AddedTools(e)[t])

\* final_evidence: every agent finished.
BeginMerge ==
    /\ cohort = "planned" /\ \A a \in fleet.agents : worker[a] = "finished"
    /\ cohort' = "merging"
    /\ UNCHANGED <<fleet, shards, worker, allowing, recorded, merged>>

MergeNext ==
    /\ cohort = "merging" /\ merged.agents # fleet.agents
    /\ \E a \in {Min(fleet.agents \ merged.agents)} : \E e \in {Evidence(a)} :
          IF Merges(e)
          THEN /\ merged' = [agents |-> merged.agents \cup {a}, kinds |-> merged.kinds \cup {e.kind},
                             indices |-> merged.indices \cup {e.shard.index}, workers |-> merged.workers + e.shard.workers,
                             elapsed |-> Max({merged.elapsed, e.elapsed}),
                             metrics |-> AddedMetrics(merged.metrics, e.metrics), tools |-> AddedTools(e)]
               /\ UNCHANGED cohort
          ELSE cohort' = "refused" /\ UNCHANGED merged
    /\ UNCHANGED <<fleet, shards, worker, allowing, recorded>>

\* summarize, which adds the counters up.
Summarized == Fits(Total(merged.metrics.outcomes)) /\ (Total(merged.metrics.outcomes) > 0 => merged.elapsed > 0)

EndMerge ==
    /\ cohort = "merging" /\ merged.agents = fleet.agents
    /\ cohort' = IF Summarized THEN "merged" ELSE "refused"
    /\ UNCHANGED <<fleet, shards, worker, allowing, recorded, merged>>

CohortStep ==
    \/ PlanShards
    \/ \E a \in fleet.agents : Authorize(a) \/ RunShard(a)
    \/ BeginMerge \/ MergeNext \/ EndMerge

-----------------------------------------------------------------------------
CohortTypeOK ==
    /\ fleet.agents \subseteq Agents /\ cohort \in {"configured", "planned", "merging", "merged", "refused"}
    /\ \A a \in Agents : /\ worker[a] \in {"idle", "prepared", "denied", "running", "finished"}
                         /\ Len(recorded[a]) <= fleet.calls
    /\ merged.agents \subseteq fleet.agents

AllCalls(o, T) == SumFunction([a \in fleet.agents |-> Figure(a, {o}, T)])

\* What the evidence says of all tools, or of one.
Said(a, t) == ToolMetrics(Evidence(a).tools, t)
AllSaid(o) == SumFunction([a \in fleet.agents |-> Evidence(a).metrics.outcomes[o]])
AllSaidOf(o, t) == SumFunction([a \in fleet.agents |-> Said(a, t).outcomes[o]])

\* The workload is spread as evenly as it goes.  The report of a cohort has every
\* worker's evidence once, sums of what they say and a latency for every result, or there
\* is none; and if no worker says another number of workers than it was given, leaves its
\* tools out or miscounts consistently, it is about the planned workload and has the
\* figures that one recorder of all calls would have (plan_shards, aggregate_evidence).
CohortIsExact ==
    /\ shards # <<>> =>
          /\ SumFunction([a \in fleet.agents |-> shards[a].workers]) = fleet.workers
          /\ \A a, b \in fleet.agents : shards[a].workers >= 1 /\ shards[a].workers - shards[b].workers <= 1
    /\ cohort = "merged" =>
          /\ merged.indices = 0..(Cardinality(fleet.agents) - 1)
          /\ merged.workers = SumFunction([a \in fleet.agents |-> Evidence(a).shard.workers])
          /\ \A o \in Outcomes : merged.metrics.outcomes[o] = AllSaid(o)
          /\ Total(merged.metrics.latency) = LatencyOutcomes(merged.metrics)
          /\ \A t \in Tools :
                LET m == ToolMetrics(merged.tools, t) IN
                /\ \A o \in Outcomes : m.outcomes[o] = AllSaidOf(o, t)
                /\ Total(m.latency) = LatencyOutcomes(m)
          /\ Total(merged.metrics.outcomes) \in 0..(Width - 1) /\ (merged.elapsed = 0 => merged.metrics = NoMetrics)
    /\ cohort = "merged" /\ (\A a \in fleet.agents : fleet.quirk[a] \notin Unnoticed) =>
          /\ merged.workers = fleet.workers
          /\ \A o \in Outcomes : merged.metrics.outcomes[o] = AllCalls(o, Tools)
          /\ \A t \in Tools, o \in Outcomes : ToolMetrics(merged.tools, t).outcomes[o] = AllCalls(o, {t})

\* A worker works only within the policy of the machine it is on, whatever the
\* controller asks for: no more workers, no credentials or calls in the clear, and a
\* restricted host only by that machine's own list (AgentPolicy::authorize).
WorkersKeepTheirPolicy == \A a \in fleet.agents :
    worker[a] \in {"running", "finished"} =>
        /\ shards[a].workers <= fleet.policy[a].workers
        /\ fleet.target.secure \/ (fleet.policy[a].plaintext /\ ~fleet.target.credentials)
        /\ fleet.target.host = "restricted" => "restricted" \in fleet.policy[a].hosts
        /\ allowing[a] \subseteq fleet.policy[a].hosts
=============================================================================
