---------------------------- MODULE HistoryStore ----------------------------
(***************************************************************************)
(* The baseline history (output history/store.rs, history/trend.rs): runs  *)
(* that share a directory read the samples of earlier runs, compare their  *)
(* own figures with the median of the latest ones and publish their own    *)
(* sample, a file named after the run, by way of a temporary file and a    *)
(* hard link.  A run may die between any two of its steps.                 *)
(***************************************************************************)
EXTENDS Integers, FiniteSetsExt

CONSTANTS
    Runs,          \* the processes that share the directory
    RunIds,        \* run ids, in the order in which the runs started
    Figures,       \* what a sample can say of its run
    Cohorts,       \* scenario, protocol version and fingerprint
    Window,        \* TrendPolicy: latest samples the baseline is made of
    MinSamples,    \* TrendPolicy: samples it needs to gate anything
    Limit,         \* HistoryStore: the samples load accepts (max_samples)
    Beginnings     \* what earlier runs may have left, and the samples the runs will have

ASSUME HistoryAssumption ==
    /\ RunIds \subseteq Nat /\ IsFiniteSet(RunIds) /\ IsFiniteSet(Runs)
    /\ Figures \subseteq [passed : BOOLEAN, p99 : Nat, rps : Nat, errors : Nat, deadlocks : Nat]
    /\ \A b \in Beginnings :
          /\ \A r \in Runs : b.own[r] \in [run : RunIds, cohort : Cohorts, figures : Figures]
          /\ \A s \in b.past : s \in [run : RunIds, cohort : Cohorts, figures : Figures]
          /\ \A s \in b.past : (\A r \in Runs : s.run < b.own[r].run) /\ (\A t \in b.past : s.run = t.run => s = t)
    /\ Window \in Nat \ {0} /\ MinSamples \in 1..Window /\ Limit \in Nat \ {0}

VARIABLES
    published,     \* the files of the directory, by run id
    temporary,     \* the temporary file of each run: "none" | "partial" | "whole"
    mine,          \* the sample each run has to record
    prior,         \* what each run has seen of the directory
    trend,         \* the trend it was given
    told,          \* what record told it
    step           \* where each run is

historyVars == <<published, temporary, mine, prior, trend, told>>

Sample == [run : RunIds, cohort : Cohorts, figures : Figures]
Present(dir) == DOMAIN dir
Seen(dir) == {dir[id] : id \in Present(dir)}

HistoryTypeOK ==
    /\ Seen(published) \subseteq Sample /\ \A id \in Present(published) : published[id].run = id
    /\ \A r \in Runs : /\ temporary[r] \in {"none", "partial", "whole"} /\ mine[r] \in Sample
                       /\ prior[r] \subseteq Sample
                       /\ trend[r].status \in {"none", "warming_up", "clean", "regressed"}
                       /\ told[r] \in {"nothing", "created", "present", "failed"}

NoTrend == [status |-> "none", baseline |-> {}, regressions |-> {}]

\* Other runs have left their samples; those of this behaviour started after them, and
\* two processes may carry the same run id.
HistoryInit(b) ==
    /\ mine = b.own
    /\ published = [id \in {s.run : s \in b.past} |-> CHOOSE s \in b.past : s.run = id]
    /\ temporary = [r \in Runs |-> "none"] /\ prior = [r \in Runs |-> {}]
    /\ trend = [r \in Runs |-> NoTrend] /\ told = [r \in Runs |-> "nothing"]

Goes(r, from, to) == step[r] = from /\ step' = [step EXCEPT ![r] = to]

-----------------------------------------------------------------------------
(***************************************************************************)
(* analyze_trend.                                                          *)
(***************************************************************************)
Eligible(seen, current) ==
    {s \in seen : s.figures.passed /\ s.run # current.run /\ s.cohort = current.cohort}

\* The latest of them: those that fewer than Window others follow.
Baseline(seen, current) ==
    LET eligible == Eligible(seen, current) IN
    {s \in eligible : Cardinality({t \in eligible : t.run > s.run}) < Window}

\* The k-th of the values that a figure has in the samples, in ascending order.
Ranked(base, f, k) ==
    CHOOSE v \in {s.figures[f] : s \in base} :
        Cardinality({s \in base : s.figures[f] < v}) < k /\ k <= Cardinality({s \in base : s.figures[f] <= v})

\* mutant: the index of the middle is one too low
MedianTooLow(base, f) ==
    LET n == Cardinality(base) IN
    IF n % 2 = 1 THEN 2 * Ranked(base, f, n \div 2) ELSE Ranked(base, f, n \div 2) + Ranked(base, f, n \div 2 + 1)

\* Twice the median.
Median2(base, f) ==
    LET n == Cardinality(base) IN
    IF n % 2 = 1 THEN 2 * Ranked(base, f, n \div 2 + 1)
    ELSE Ranked(base, f, n \div 2) + Ranked(base, f, n \div 2 + 1)

\* The gating metrics of build_metrics that are worse than their tolerance: a tenth of
\* the median for the latency and the throughput, half a point of error rate (figures
\* are in hundredths of it), and any deadlock more.
Regressions(base, now) ==
    {f \in {"p99", "rps", "errors", "deadlocks"} :
        LET usual == Median2(base, f) IN
        CASE f = "p99" -> usual > 0 /\ 10 * (2 * now[f] - usual) > usual
          [] f = "rps" -> usual > 0 /\ 10 * (usual - 2 * now[f]) > usual
          [] f = "errors" -> 2 * now[f] - usual > 100
          [] OTHER -> 2 * now[f] > usual}

AnalyzeTrend(base, now) ==
    IF Cardinality(base) < MinSamples THEN [status |-> "warming_up", baseline |-> base, regressions |-> {}]
    ELSE LET worse == Regressions(base, now) IN
         [status |-> IF worse # {} THEN "regressed" ELSE "clean", baseline |-> base, regressions |-> worse]

-----------------------------------------------------------------------------
(***************************************************************************)
(* HistoryStore::load and record.                                          *)
(***************************************************************************)
\* The enumeration begins: what is there now it will come across.
OpenDirectory(r) ==
    /\ Goes(r, "load", "enumerate")
    /\ prior' = [prior EXCEPT ![r] = Seen(published)]
    /\ UNCHANGED <<published, temporary, mine, trend, told>>

\* It ends: files that were published meanwhile may or may not be among those seen.
\* A temporary file has another extension.
ReadSamples(r) ==
    /\ step[r] = "enumerate"
    /\ \E seen \in SUBSET Seen(published) :
          /\ prior[r] \subseteq seen
          /\ IF Cardinality(seen) > Limit
             THEN Goes(r, "enumerate", "history_failed") /\ UNCHANGED <<prior, trend>>
             ELSE /\ Goes(r, "enumerate", "check") /\ prior' = [prior EXCEPT ![r] = seen]
                  /\ \E base \in {Baseline(seen, mine[r])} :
                        trend' = [trend EXCEPT ![r] = AnalyzeTrend(base, mine[r].figures)]
    /\ UNCHANGED <<published, temporary, mine, told>>

\* record: path.exists().
CheckExists(r) ==
    /\ Goes(r, "check", IF mine[r].run \in Present(published) THEN "compare" ELSE "write")
    /\ UNCHANGED historyVars

\* The temporary file has a name of its own; its text comes bit by bit.
CreateTemporary(r) ==
    /\ Goes(r, "write", "sync") /\ temporary' = [temporary EXCEPT ![r] = "partial"]
    /\ UNCHANGED <<published, mine, prior, trend, told>>

SyncTemporary(r) ==
    /\ Goes(r, "sync", "publish") /\ temporary' = [temporary EXCEPT ![r] = "whole"]
    /\ UNCHANGED <<published, mine, prior, trend, told>>

\* The directory with a sample in the file of its run.
Filed(dir, s) == [id \in Present(dir) \cup {s.run} |-> IF id = s.run THEN s ELSE dir[id]]

\* mutant: the file is renamed into its place
PublishByRename(r) ==
    /\ Goes(r, "publish", "unlink")
    /\ published' = Filed(published, mine[r])
    /\ told' = [told EXCEPT ![r] = "created"]
    /\ UNCHANGED <<temporary, mine, prior, trend>>

\* mutant: a link that cannot be made is taken for done
PublishDeaf(r) ==
    /\ Goes(r, "publish", "unlink")
    /\ published' = IF mine[r].run \in Present(published) THEN published ELSE Filed(published, mine[r])
    /\ told' = [told EXCEPT ![r] = "created"]
    /\ UNCHANGED <<temporary, mine, prior, trend>>

\* hard_link: it does not replace a file.
Publish(r) ==
    /\ Goes(r, "publish", "unlink")
    /\ IF mine[r].run \in Present(published) THEN UNCHANGED <<published, told>>
       ELSE /\ published' = Filed(published, mine[r])
            /\ told' = [told EXCEPT ![r] = "created"]
    /\ UNCHANGED <<temporary, mine, prior, trend>>

Unlink(r) ==
    /\ Goes(r, "unlink", IF told[r] = "created" THEN "recorded" ELSE "compare")
    /\ temporary' = [temporary EXCEPT ![r] = "none"]
    /\ UNCHANGED <<published, mine, prior, trend, told>>

\* compare_existing.
CompareExisting(r) ==
    /\ step[r] = "compare"
    /\ LET same == published[mine[r].run] = mine[r] IN
       /\ told' = [told EXCEPT ![r] = IF same THEN "present" ELSE "failed"]
       /\ Goes(r, "compare", IF same THEN "recorded" ELSE "history_failed")
    /\ UNCHANGED <<published, temporary, mine, prior, trend>>

\* Any of the file operations may fail; a temporary file that could not be written, or
\* linked, is removed.
StoreFails(r) ==
    /\ step[r] \in {"load", "enumerate", "check", "write", "sync", "publish", "compare"}
    /\ step' = [step EXCEPT ![r] = "history_failed"]
    /\ temporary' = [temporary EXCEPT ![r] = "none"] /\ told' = [told EXCEPT ![r] = "failed"]
    /\ UNCHANGED <<published, mine, prior, trend>>

HistoryStep(r) ==
    \/ OpenDirectory(r) \/ ReadSamples(r) \/ CheckExists(r) \/ CreateTemporary(r) \/ SyncTemporary(r)
    \/ Publish(r) \/ Unlink(r) \/ CompareExisting(r)

-----------------------------------------------------------------------------
(***************************************************************************)
(* What the store promises.                                                *)
(***************************************************************************)
\* A sample that is in the store stays there as it is, whoever else records, fails or
\* dies: a file appears whole, under a name that was free (hard_link, not rename).
SamplesAreKept == [][\A id \in Present(published) : published'[id] = published[id]]_published

\* Of all runs that record one id at most one is told that it created the sample, the
\* others that theirs is there only when the store holds that very sample, and a run
\* that is past its recording is in the store (record, compare_existing).
OneRecordPerRun ==
    /\ \A r, q \in Runs : told[r] = "created" /\ told[q] = "created" /\ mine[r].run = mine[q].run => r = q
    /\ \A r \in Runs : told[r] \in {"created", "present"} => mine[r] \in Seen(published)

\* A gate closes only on a real change for the worse: the run compares itself with
\* passing runs of its cohort, at least MinSamples of them and never itself, the latest
\* it has seen; and whatever figure is called regressed, at least half of these runs had
\* it better (analyze_trend, median).
RegressionIsReal == \A r \in Runs : trend[r].status = "regressed" =>
    LET base == trend[r].baseline
        now == mine[r].figures IN
    /\ Cardinality(base) \in MinSamples..Window /\ base \subseteq Eligible(prior[r], mine[r])
    /\ \A s \in base : \A t \in Eligible(prior[r], mine[r]) \ base : t.run < s.run
    /\ \A f \in trend[r].regressions :
          2 * Cardinality({s \in base : IF f = "rps" THEN s.figures[f] > now[f] ELSE s.figures[f] < now[f]})
              >= Cardinality(base)
=============================================================================
