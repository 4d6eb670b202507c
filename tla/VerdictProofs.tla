---------------------------- MODULE VerdictProofs ----------------------------
(***************************************************************************)
(* What the parts of a run's verdict promise, for every value of their     *)
(* constants.  The history store: a file that is there stays as it is, and *)
(* of the runs that carry one id one at most has created it.  The ending:  *)
(* a run that ends with a verdict has earned it.  The recorder: a figure   *)
(* lacks exactly the calls whose threads have not reached it yet.  A       *)
(* cohort: its report has every call of every worker, once.  A replay: a   *)
(* recorded answer is paired with an earlier request.  The MCP server: a   *)
(* request is answered once, under its id and in its turn.  A comparison   *)
(* with the history: what is called regressed is worse than half of it.    *)
(***************************************************************************)
EXTENDS Verdict, FiniteSums, FiniteSetTheorems, SequenceTheorems, TLAPS

\* A run that is told so has its sample in the store, and one that is to be compared finds a
\* file of its name there.
StoreInv ==
    /\ \A r \in Runs : told[r] \in {"created", "present"} =>
          mine[r].run \in DOMAIN published /\ published[mine[r].run] = mine[r]
    /\ \A r \in Runs : step[r] \in {"unlink", "compare"} => mine[r].run \in DOMAIN published
    /\ \A r, q \in Runs : told[r] = "created" /\ told[q] = "created" /\ mine[r].run = mine[q].run => r = q
    /\ DOMAIN step = Runs /\ DOMAIN told = Runs

\* A link adds a file and leaves the others.
LEMMA LinkAdds ==
    ASSUME NEW s, s.run \notin Present(published), published' = Filed(published, s)
    PROVE  /\ DOMAIN published' = DOMAIN published \cup {s.run} /\ published'[s.run] = s
           /\ \A id \in DOMAIN published : published'[id] = published[id]
BY DEF Filed, Present

\* What a step does to the store: it links a file under a free name, or leaves the store
\* as it is; and what it does to what the runs are told.
LEMMA StepsLink ==
    ASSUME [Next]_verdictVars
    PROVE  /\ mine' = mine
           /\ \/ published' = published
              \/ \E r \in Runs : mine[r].run \notin Present(published) /\ published' = Filed(published, mine[r])
<1>1. ASSUME NEW r \in Runs, HistoryStep(r) \/ StoreFails(r)
      PROVE  mine' = mine /\ (published' = published
                              \/ (mine[r].run \notin Present(published) /\ published' = Filed(published, mine[r])))
  BY <1>1 DEF HistoryStep, OpenDirectory, ReadSamples, CheckExists, CreateTemporary, SyncTemporary, Publish, Unlink,
              CompareExisting, StoreFails, historyVars
<1>2. CASE UNCHANGED historyVars
  BY <1>2 DEF historyVars
<1>3. [Next]_verdictVars => UNCHANGED historyVars \/ \E r \in Runs : HistoryStep(r) \/ StoreFails(r)
  BY DEF Next, Progress, EndingStep, Executed, Emit, History, Export, Judge, Fault, verdictVars, endingVars
<1>4. QED
  BY <1>1, <1>2, <1>3

\* A sample that is in the store stays there as it is (hard_link, not rename).
THEOREM SamplesStay == Spec => SamplesAreKept
<1>1. [Next]_verdictVars => [\A id \in Present(published) : published'[id] = published[id]]_published
  BY StepsLink, LinkAdds DEF Present
<1>2. QED
  BY <1>1, PTL DEF Spec, SamplesAreKept

-----------------------------------------------------------------------------
\* A step of a run that does not record leaves the store's part of the state alone, and
\* takes no run to a place where it has to find its file.
LEMMA OthersLeaveStore ==
    ASSUME StoreInv, NEW r \in Runs,
           /\ UNCHANGED historyVars
           /\ \E to \in {"emit", "load", "export", "judge", "done", "dead"} :
                 step' = step \/ step' = [step EXCEPT ![r] = to]
    PROVE  StoreInv'
BY DEF StoreInv, historyVars

\* A step that records keeps the promises.
LEMMA RecordingKeeps ==
    ASSUME StoreInv, NEW r \in Runs, HistoryStep(r) \/ StoreFails(r), mine' = mine
    PROVE  StoreInv'
<1> USE DEF StoreInv, Goes, Present
<1>1. CASE OpenDirectory(r) \/ CreateTemporary(r) \/ SyncTemporary(r)
  BY <1>1 DEF OpenDirectory, CreateTemporary, SyncTemporary
<1>2. CASE ReadSamples(r)
  <2>1. UNCHANGED <<published, told>> /\ \E to \in {"history_failed", "check"} : step' = [step EXCEPT ![r] = to]
    BY <1>2 DEF ReadSamples
  <2>2. QED
    BY <2>1
<1>3. CASE CheckExists(r)
  BY <1>3 DEF CheckExists, historyVars
<1>4. CASE Publish(r)
  <2>1. CASE mine[r].run \in DOMAIN published
    BY <1>4, <2>1 DEF Publish
  <2>2. CASE mine[r].run \notin DOMAIN published
    <3>1. /\ published' = Filed(published, mine[r]) /\ told' = [told EXCEPT ![r] = "created"]
          /\ step' = [step EXCEPT ![r] = "unlink"]
      BY <1>4, <2>2 DEF Publish
    <3>2. /\ DOMAIN published' = DOMAIN published \cup {mine[r].run} /\ published'[mine[r].run] = mine[r]
          /\ \A id \in DOMAIN published : published'[id] = published[id]
      BY <2>2, <3>1, LinkAdds
    <3>3. \A q \in Runs : told[q] = "created" => mine[q].run # mine[r].run
      BY <2>2
    <3>4. QED
      BY <3>1, <3>2, <3>3
  <2>3. QED
    BY <2>1, <2>2
<1>5. CASE Unlink(r)
  BY <1>5 DEF Unlink
<1>6. CASE CompareExisting(r)
  <2>1. /\ step[r] = "compare" /\ published' = published
        /\ \E to \in {"recorded", "history_failed"} : step' = [step EXCEPT ![r] = to]
        /\ \/ told' = [told EXCEPT ![r] = "present"] /\ published[mine[r].run] = mine[r]
           \/ told' = [told EXCEPT ![r] = "failed"]
    BY <1>6 DEF CompareExisting
  <2>2. QED
    BY <2>1
<1>7. CASE StoreFails(r)
  BY <1>7 DEF StoreFails
<1>8. QED
  BY <1>1, <1>2, <1>3, <1>4, <1>5, <1>6, <1>7 DEF HistoryStep

\* Every step keeps the invariant of the store.
LEMMA StoreKeeps == StoreInv /\ [Next]_verdictVars => StoreInv'
<1> SUFFICES ASSUME StoreInv, [Next]_verdictVars PROVE StoreInv'
  OBVIOUS
<1>1. CASE UNCHANGED <<step, historyVars>>
  BY <1>1 DEF StoreInv, historyVars
<1>2. ASSUME NEW r \in Runs, EndingStep(r) \/ Fault(r) PROVE StoreInv'
  <2>1. CASE HistoryStep(r) \/ StoreFails(r)
    BY <1>2, <2>1, StepsLink, RecordingKeeps
  <2>2. CASE ~(HistoryStep(r) \/ StoreFails(r))
    <3>1. UNCHANGED historyVars
      BY <1>2, <2>2 DEF EndingStep, Executed, Emit, History, Export, Judge, Fault, Exits, Goes
    <3>2. \E to \in {"emit", "load", "export", "judge", "done", "dead"} :
             step' = step \/ step' = [step EXCEPT ![r] = to]
      BY <1>2, <2>2 DEF EndingStep, Executed, Emit, History, Export, Judge, Fault, Exits, Goes, AfterReports
    <3>3. QED
      BY <3>1, <3>2, OthersLeaveStore
  <2>3. QED
    BY <2>1, <2>2
<1>3. QED
  BY <1>1, <1>2 DEF Next, Progress, verdictVars, endingVars

\* The invariant of the store.
LEMMA StoreInvariant == Spec => []StoreInv
<1>1. Init => StoreInv
  BY DEF Init, HistoryInit, StoreInv
<1>2. QED
  BY <1>1, StoreKeeps, PTL DEF Spec

\* Of all runs that carry one id at most one creates its file, and whoever is told that its
\* sample is there can rely on it (record, compare_existing).
THEOREM RecordsAreUnique == Spec => []OneRecordPerRun
<1>1. StoreInv => OneRecordPerRun
  BY DEF StoreInv, OneRecordPerRun, Seen, Present
<1>2. QED
  BY <1>1, StoreInvariant, PTL

-----------------------------------------------------------------------------
(***************************************************************************)
(* The exit status.                                                        *)
(***************************************************************************)
\* The collector took what the last request brought, as far as it says.
Taken(r) == status[r] = "success" /\ taken[r] \in {"whole", "part"} /\ says[r] = "nothing"

\* What an export has handed over at each step of it.
ExportInv ==
    /\ ExportTypeOK
    /\ \A r \in Exporters :
          /\ phase[r] \in {"idle", "prepare"} => attempts[r] = 0
          /\ phase[r] = "send" => attempts[r] < MaxAttempts
          /\ phase[r] = "body" /\ status[r] = "success" => taken[r] \in {"whole", "part"}
          /\ phase[r] = "done" /\ wanted[r] = "required" => Taken(r)
    /\ DOMAIN attempts = Exporters /\ DOMAIN status = Exporters /\ DOMAIN taken = Exporters /\ DOMAIN says = Exporters
    /\ DOMAIN exported = Exporters /\ DOMAIN phase = Exporters

\* A step of an export.
ExportMoves(r) == BeginExport(r) \/ ExportStep(r) \/ BodyBreaks(r)

\* An export keeps its invariant, and leaves what is over.
LEMMA ExportKeeps ==
    ASSUME ExportInv, NEW r \in Exporters, ExportMoves(r)
    PROVE  ExportInv' /\ wanted' = wanted /\ phase[r] \in {"idle", "prepare", "send", "body"}
           /\ \A q \in Exporters \ {r} : phase'[q] = phase[q]
<1> USE ExportAssumption DEF ExportInv, ExportTypeOK, ExportEnds, Unless, Statuses, Bodies, Taken
<1>1. CASE BeginExport(r)
  BY <1>1 DEF BeginExport
<1>2. CASE Prepare(r) \/ BodyBreaks(r)
  <2>1. /\ UNCHANGED <<wanted, attempts, status, taken, says>>
        /\ \/ phase[r] = "prepare" /\ phase' = [phase EXCEPT ![r] = "send"] /\ exported' = exported
           \/ /\ phase[r] \in {"prepare", "body"} /\ phase' = [phase EXCEPT ![r] = "failed"]
              /\ \E how \in {"impossible", "broken"} : exported' = [exported EXCEPT ![r] = how]
    BY <1>2 DEF Prepare, BodyBreaks
  <2>2. ExportTypeOK'
    BY <2>1
  <2>3. QED
    BY <2>1, <2>2
<1>3. CASE RequestLost(r)
  <2>1. phase[r] = "send" /\ UNCHANGED <<wanted, status, taken, says>> /\ attempts' = [attempts EXCEPT ![r] = @ + 1]
    BY <1>3 DEF RequestLost
  <2>2. attempts[r] \in 0..MaxAttempts /\ attempts'[r] = attempts[r] + 1 /\ attempts'[r] \in 0..MaxAttempts
    BY <2>1
  <2>3. \/ attempts'[r] < MaxAttempts /\ UNCHANGED <<exported, phase>>
        \/ /\ exported' = [exported EXCEPT ![r] = "unreachable"]
           /\ phase' = [phase EXCEPT ![r] = IF wanted[r] = "required" THEN "failed" ELSE "done"]
    BY <1>3, <2>2 DEF RequestLost
  <2>4. ExportTypeOK' /\ \A q \in Exporters \ {r} : phase'[q] = phase[q]
    <3>1. \A q \in Exporters : attempts'[q] \in 0..MaxAttempts
      BY <2>1, <2>2
    <3>2. QED
      BY <2>1, <2>3, <3>1
  <2>5. ASSUME NEW q \in Exporters
        PROVE  /\ phase'[q] \in {"idle", "prepare"} => attempts'[q] = 0
               /\ phase'[q] = "send" => attempts'[q] < MaxAttempts
               /\ phase'[q] = "body" /\ status'[q] = "success" => taken'[q] \in {"whole", "part"}
               /\ phase'[q] = "done" /\ wanted'[q] = "required" => Taken(q)'
    <3>1. CASE q # r
      BY <2>1, <2>4, <3>1
    <3>2. CASE q = r
      BY <2>1, <2>3, <3>2
    <3>3. QED
      BY <3>1, <3>2
  <2>6. QED
    BY <2>1, <2>3, <2>4, <2>5
<1>4. CASE ResponseArrives(r)
  <2>1. /\ phase[r] = "send" /\ UNCHANGED <<wanted, exported>> /\ attempts' = [attempts EXCEPT ![r] = @ + 1]
        /\ phase' = [phase EXCEPT ![r] = "body"]
    BY <1>4 DEF ResponseArrives
  <2>2. attempts[r] \in 0..MaxAttempts /\ attempts'[r] = attempts[r] + 1 /\ attempts'[r] \in 0..MaxAttempts
    BY <2>1
  <2>3. PICK s \in Statuses, share \in {"whole", "part"}, b \in Bodies :
           /\ status' = [status EXCEPT ![r] = s]
           /\ taken' = [taken EXCEPT ![r] = IF s = "success" THEN share ELSE "none"]
           /\ says' = [says EXCEPT ![r] = b]
    BY <1>4 DEF ResponseArrives
  <2>4. ExportTypeOK'
    BY <2>1, <2>2, <2>3
  <2>5. QED
    BY <2>1, <2>3, <2>4
<1>5. CASE Accepted(r)
  BY <1>5 DEF Accepted
<1>6. CASE Retries(r) \/ Refused(r)
  BY <1>6 DEF Retries, Refused
<1>7. QED
  BY <1>1, <1>2, <1>3, <1>4, <1>5, <1>6 DEF ExportMoves, ExportStep

AtTheStore == {"load", "enumerate", "check", "write", "sync", "publish", "unlink", "compare", "recorded"}
Compared == AtTheStore \ {"load", "enumerate"}

\* What a run has when it is past its recording, and past its export.
Kept(r) ==
    /\ Formats \subseteq written[r]
    /\ history[r] # "off" => told[r] \in {"created", "present"} /\ "trend" \in written[r] /\ trend[r].status # "none"
Exported(r) == r \in Exporters /\ wanted[r] # "off" => phase[r] = "done"

\* What holds of a run at each step of its ending.
RunInv(r) ==
    /\ step[r] \in Unfinished \cup {"done", "dead"} /\ exit[r] \in {"none", "zero", "nonzero"}
    /\ history[r] \in {"off", "on", "required"} /\ written[r] \subseteq Formats \cup {"trend"}
    /\ told[r] \in {"nothing", "created", "present", "failed"}
    /\ trend[r].status \in {"none", "warming_up", "clean", "regressed"}
    /\ trend[r].status = "clean" => ~(Cardinality(trend[r].baseline) < MinSamples)
    /\ step[r] \in AtTheStore => history[r] # "off" /\ Formats \subseteq written[r]
    /\ step[r] \in Compared => trend[r].status # "none"
    /\ step[r] = "recorded" => told[r] \in {"created", "present"}
    /\ step[r] \in {"export", "judge"} => Kept(r)
    /\ step[r] = "judge" => Exported(r)
    /\ exit[r] # "none" => step[r] = "done"
    /\ exit[r] = "zero" => mine[r].figures.passed /\ Kept(r) /\ Exported(r) /\ ~HistoryGate(r)

\* The functions of the runs have all of them in their domains, and the samples are samples.
StateInv ==
    /\ DOMAIN step = Runs /\ DOMAIN exit = Runs /\ DOMAIN written = Runs /\ DOMAIN told = Runs
    /\ DOMAIN trend = Runs /\ DOMAIN prior = Runs /\ DOMAIN temporary = Runs
    /\ Seen(published) \subseteq Sample /\ \A id \in Present(published) : published[id].run = id
    /\ \A r \in Runs : /\ mine[r] \in Sample /\ prior[r] \subseteq Sample
                       /\ temporary[r] \in {"none", "partial", "whole"}

\* A run that does not move keeps what holds of it.
LEMMA OthersKeep ==
    ASSUME NEW q, RunInv(q), UNCHANGED <<history, wanted, mine>>,
           step'[q] = step[q], exit'[q] = exit[q], written'[q] = written[q], told'[q] = told[q],
           trend'[q] = trend[q], q \in Exporters => phase'[q] = phase[q]
    PROVE  RunInv(q)'
BY DEF RunInv, Kept, Exported, HistoryGate

\* The trend says warming up of a baseline that is too short, and of no other.
LEMMA TrendIs ==
    ASSUME NEW base, NEW now
    PROVE  LET t == AnalyzeTrend(base, now) IN
           /\ t.baseline = base /\ t.status \in {"warming_up", "clean", "regressed"}
           /\ t.status = "clean" => ~(Cardinality(base) < MinSamples)
BY DEF AnalyzeTrend

\* The step of a run that records leaves the other runs alone.
LEMMA RecordsAlone ==
    ASSUME StateInv, NEW r \in Runs, HistoryStep(r) \/ StoreFails(r)
    PROVE  /\ mine' = mine /\ \A q \in Runs \ {r} : step'[q] = step[q] /\ told'[q] = told[q] /\ trend'[q] = trend[q]
           /\ DOMAIN step' = Runs /\ DOMAIN told' = Runs /\ DOMAIN trend' = Runs
<1> USE DEF StateInv, Goes
<1>1. CASE OpenDirectory(r) \/ CheckExists(r) \/ CreateTemporary(r) \/ SyncTemporary(r) \/ Unlink(r)
  BY <1>1 DEF OpenDirectory, CheckExists, CreateTemporary, SyncTemporary, Unlink, historyVars
<1>2. CASE ReadSamples(r)
  <2>1. /\ mine' = mine /\ told' = told
        /\ \E to \in {"history_failed", "check"} : step' = [step EXCEPT ![r] = to]
        /\ trend' = trend \/ \E t : trend' = [trend EXCEPT ![r] = t]
    BY <1>2 DEF ReadSamples
  <2>2. QED
    BY <2>1
<1>3. CASE Publish(r)
  BY <1>3 DEF Publish
<1>4. CASE CompareExisting(r)
  BY <1>4 DEF CompareExisting
<1>5. CASE StoreFails(r)
  BY <1>5 DEF StoreFails
<1>6. QED
  BY <1>1, <1>2, <1>3, <1>4, <1>5 DEF HistoryStep

\* What the store's part of the state is made of stays so.
LEMMA RecordingTyped ==
    ASSUME StateInv, NEW r \in Runs, HistoryStep(r) \/ StoreFails(r), UNCHANGED <<written, exit>>
    PROVE  StateInv'
<1>1. mine' = mine /\ DOMAIN step' = Runs /\ DOMAIN told' = Runs /\ DOMAIN trend' = Runs
  BY RecordsAlone
<1>2. Seen(published)' \subseteq Sample /\ \A id \in Present(published)' : published'[id].run = id
  <2>1. CASE published' = published
    BY <2>1 DEF StateInv, Seen, Present
  <2>2. CASE Publish(r) /\ mine[r].run \notin Present(published)
    <3>1. published' = Filed(published, mine[r])
      BY <2>2 DEF Publish
    <3>2. /\ DOMAIN published' = DOMAIN published \cup {mine[r].run} /\ published'[mine[r].run] = mine[r]
          /\ \A id \in DOMAIN published : published'[id] = published[id]
      BY <2>2, <3>1, LinkAdds
    <3>3. QED
      BY <3>2 DEF StateInv, Seen, Present
  <2>3. QED
    BY <2>1, <2>2 DEF HistoryStep, OpenDirectory, ReadSamples, CheckExists, CreateTemporary, SyncTemporary, Publish,
                      Unlink, CompareExisting, StoreFails, historyVars
<1>3. DOMAIN prior' = Runs /\ \A q \in Runs : prior'[q] \subseteq Sample
  <2>1. prior' = prior \/ \E seen \in SUBSET Seen(published) : prior' = [prior EXCEPT ![r] = seen]
    BY DEF HistoryStep, OpenDirectory, ReadSamples, CheckExists, CreateTemporary, SyncTemporary, Publish,
           Unlink, CompareExisting, StoreFails, historyVars
  <2>2. QED
    BY <2>1 DEF StateInv
<1>4. DOMAIN temporary' = Runs /\ \A q \in Runs : temporary'[q] \in {"none", "partial", "whole"}
  <2>1. temporary' = temporary \/ \E t \in {"none", "partial", "whole"} : temporary' = [temporary EXCEPT ![r] = t]
    BY DEF HistoryStep, OpenDirectory, ReadSamples, CheckExists, CreateTemporary, SyncTemporary, Publish,
           Unlink, CompareExisting, StoreFails, historyVars
  <2>2. QED
    BY <2>1 DEF StateInv
<1>5. QED
  BY <1>1, <1>2, <1>3, <1>4 DEF StateInv

\* A step that records keeps what holds of its run.
LEMMA RecordingHolds ==
    ASSUME StateInv, NEW r \in Runs, RunInv(r), HistoryStep(r) \/ StoreFails(r),
           UNCHANGED <<written, exit, history, wanted, phase>>
    PROVE  RunInv(r)'
<1> USE DEF RunInv, Goes, Kept, Exported, HistoryGate, AtTheStore, Compared, Unfinished
<1>0. mine' = mine
  BY RecordsAlone
<1>1. CASE OpenDirectory(r) \/ CreateTemporary(r) \/ SyncTemporary(r)
  BY <1>1, <1>0 DEF OpenDirectory, CreateTemporary, SyncTemporary, StateInv
<1>2. CASE ReadSamples(r)
  <2>1. /\ step[r] = "enumerate" /\ UNCHANGED told
        /\ \/ step' = [step EXCEPT ![r] = "history_failed"] /\ trend' = trend
           \/ /\ step' = [step EXCEPT ![r] = "check"]
              /\ \E base : trend' = [trend EXCEPT ![r] = AnalyzeTrend(base, mine[r].figures)]
    BY <1>2 DEF ReadSamples
  <2>2. CASE step' = [step EXCEPT ![r] = "history_failed"] /\ trend' = trend
    BY <1>0, <2>1, <2>2 DEF StateInv
  <2>3. CASE /\ step' = [step EXCEPT ![r] = "check"]
             /\ \E base : trend' = [trend EXCEPT ![r] = AnalyzeTrend(base, mine[r].figures)]
    <3>1. PICK base : trend'[r] = AnalyzeTrend(base, mine[r].figures)
      BY <2>3 DEF StateInv
    <3>2. /\ trend'[r].baseline = base /\ trend'[r].status \in {"warming_up", "clean", "regressed"}
          /\ trend'[r].status = "clean" => ~(Cardinality(base) < MinSamples)
      BY <3>1, TrendIs
    <3>3. step'[r] = "check" /\ exit'[r] = "none"
      BY <2>1, <2>3 DEF StateInv
    <3>4. QED
      BY <1>0, <2>1, <3>2, <3>3
  <2>4. QED
    BY <2>1, <2>2, <2>3
<1>3. CASE CheckExists(r)
  BY <1>3, <1>0 DEF CheckExists, historyVars, StateInv
<1>4. CASE Publish(r)
  BY <1>4, <1>0 DEF Publish, StateInv
<1>5. CASE Unlink(r)
  BY <1>5, <1>0 DEF Unlink, StateInv
<1>6. CASE CompareExisting(r)
  BY <1>6, <1>0 DEF CompareExisting, StateInv
<1>7. CASE StoreFails(r)
  BY <1>7, <1>0 DEF StoreFails, StateInv
<1>8. QED
  BY <1>1, <1>2, <1>3, <1>4, <1>5, <1>6, <1>7 DEF HistoryStep

\* A step that records does nothing else.
Records(r) == (HistoryStep(r) \/ StoreFails(r)) /\ UNCHANGED <<history, written, exit, exportVars>>

\* The other steps of a run's ending: to where they lead and what they leave.
LEMMA EndingHolds ==
    ASSUME StateInv, ExportInv, NEW r \in Runs, RunInv(r), EndingStep(r) \/ Fault(r),
           ~Records(r)
    PROVE  /\ RunInv(r)' /\ UNCHANGED <<history, historyVars>> /\ wanted' = wanted
           /\ \A q \in Runs \ {r} : /\ step'[q] = step[q] /\ exit'[q] = exit[q] /\ written'[q] = written[q]
                                    /\ q \in Exporters => phase'[q] = phase[q]
           /\ DOMAIN step' = Runs /\ DOMAIN exit' = Runs /\ DOMAIN written' = Runs
           /\ ExportInv'
<1> USE DEF RunInv, StateInv, Goes, Exits, Kept, Exported, HistoryGate, AtTheStore, Compared, Unfinished, historyVars
<1>1. CASE Executed(r) \/ Judge(r) \/ (step[r] \in Unfinished /\ step' = [step EXCEPT ![r] = "dead"]
                                       /\ UNCHANGED <<history, written, exit, historyVars, exportVars>>)
  <2>1. UNCHANGED <<history, written, historyVars, exportVars>>
    BY <1>1 DEF Executed, Judge
  <2>2. ExportInv'
    BY <2>1 DEF ExportInv, ExportTypeOK, Taken, exportVars
  <2>3. CASE Executed(r)
    BY <2>1, <2>2, <2>3 DEF Executed, exportVars
  <2>4. CASE Judge(r)
    BY <2>1, <2>2, <2>4 DEF Judge, exportVars
  <2>5. CASE step[r] \in Unfinished /\ step' = [step EXCEPT ![r] = "dead"] /\ exit' = exit
    BY <2>1, <2>2, <2>5 DEF exportVars
  <2>6. QED
    BY <1>1, <2>3, <2>4, <2>5
<1>2. CASE Emit(r)
  <2>1. UNCHANGED <<history, historyVars, exportVars>> /\ step[r] = "emit"
    BY <1>2 DEF Emit
  <2>2. ExportInv'
    BY <2>1 DEF ExportInv, ExportTypeOK, Taken, exportVars
  <2>3. CASE written[r] = Formats /\ Goes(r, "emit", AfterReports(r)) /\ UNCHANGED <<written, exit>>
    BY <2>1, <2>2, <2>3 DEF AfterReports, exportVars
  <2>4. CASE (\E f \in Formats \ written[r] : written' = [written EXCEPT ![r] = @ \cup {f}]) /\ UNCHANGED <<step, exit>>
    BY <2>1, <2>2, <2>4 DEF exportVars
  <2>5. CASE Exits(r, "emit", "nonzero") /\ UNCHANGED written
    BY <2>1, <2>2, <2>5 DEF exportVars
  <2>6. QED
    BY <1>2, <2>3, <2>4, <2>5 DEF Emit
<1>3. CASE History(r)
  <2>1. UNCHANGED <<history, historyVars, exportVars>>
    BY <1>3 DEF History, Records
  <2>2. ExportInv'
    BY <2>1 DEF ExportInv, ExportTypeOK, Taken, exportVars
  <2>3. CASE (Exits(r, "history_failed", "nonzero") \/ Exits(r, "recorded", "nonzero")) /\ UNCHANGED written
    BY <2>1, <2>2, <2>3 DEF exportVars
  <2>4. CASE Goes(r, "recorded", "export") /\ UNCHANGED exit /\ written' = [written EXCEPT ![r] = @ \cup {"trend"}]
    BY <2>1, <2>2, <2>4 DEF exportVars
  <2>5. QED
    BY <1>3, <2>3, <2>4 DEF History, Records
<1>4. CASE Export(r) \/ (Exporting(r) /\ BodyBreaks(r) /\ step[r] = "export"
                         /\ UNCHANGED <<step, history, written, exit, historyVars>>)
  <2>1. UNCHANGED <<history, written, historyVars>> /\ step[r] = "export"
    BY <1>4 DEF Export
  <2>2. CASE Exporting(r) /\ ExportMoves(r) /\ UNCHANGED <<step, exit>>
    <3>1. ExportInv' /\ wanted' = wanted /\ \A q \in Exporters \ {r} : phase'[q] = phase[q]
      BY <2>2, ExportKeeps DEF Exporting
    <3>2. QED
      BY <2>1, <2>2, <3>1
  <2>3. CASE UNCHANGED exportVars
    <3>1. ExportInv' /\ UNCHANGED <<wanted, phase>>
      BY <2>3 DEF ExportInv, ExportTypeOK, Taken, exportVars
    <3>2. CASE (~Exporting(r) \/ phase[r] = "done") /\ Goes(r, "export", "judge") /\ UNCHANGED exit
      BY <2>1, <3>1, <3>2 DEF Exporting
    <3>3. CASE Exits(r, "export", "nonzero")
      BY <2>1, <3>1, <3>3
    <3>4. CASE Exporting(r) /\ ExportMoves(r) /\ UNCHANGED <<step, exit>>
      BY <2>2, <3>4
    <3>5. QED
      BY <1>4, <3>2, <3>3, <3>4 DEF Export, ExportMoves
  <2>4. QED
    BY <1>4, <2>2, <2>3 DEF Export, ExportMoves
<1>5. QED
  BY <1>1, <1>2, <1>3, <1>4 DEF EndingStep, Fault, Records

\* Some run began somewhere.
LEMMA BeginningsAreSome == (CHOOSE b \in Beginnings : TRUE) \in Beginnings
BY VerdictAssumption

\* All of it together.
EndingInv == StoreInv /\ StateInv /\ ExportInv /\ \A r \in Runs : RunInv(r)

\* What the invariant begins with.
LEMMA EndingBegins == Init => EndingInv
<1> SUFFICES ASSUME Init PROVE EndingInv
  OBVIOUS
<1>1. PICK b \in Beginnings : HistoryInit(b) /\ history = b.history /\ wanted = b.wanted
  <2>1. PICK b \in IF part = "ending" THEN Beginnings ELSE {CHOOSE b \in Beginnings : TRUE} :
           HistoryInit(b) /\ history = b.history /\ wanted = b.wanted
    BY DEF Init
  <2>2. CASE part = "ending"
    BY <2>1, <2>2
  <2>3. CASE part # "ending"
    <3>1. b = CHOOSE c \in Beginnings : TRUE
      BY <2>1, <2>3
    <3>2. QED
      BY <2>1, <3>1, BeginningsAreSome
  <2>4. QED
    BY <2>2, <2>3
<1>2. StateInv
  <2>1. \A r \in Runs : mine[r] \in Sample
    BY <1>1, HistoryAssumption DEF HistoryInit, Sample
  <2>2. Seen(published) \subseteq Sample /\ \A id \in Present(published) : published[id].run = id
    <3>1. \A s \in b.past : s \in Sample
      BY <1>1, HistoryAssumption DEF Sample
    <3>2. /\ DOMAIN published = {s.run : s \in b.past}
          /\ \A id \in DOMAIN published : published[id] = CHOOSE s \in b.past : s.run = id
      BY <1>1 DEF HistoryInit
    <3>3. \A id \in DOMAIN published : published[id] \in b.past /\ published[id].run = id
      BY <3>2
    <3>4. QED
      BY <3>1, <3>3 DEF Seen, Present
  <2>3. QED
    BY <1>1, <2>1, <2>2 DEF StateInv, Init, HistoryInit
<1>3. StoreInv
  BY <1>1 DEF StoreInv, Init, HistoryInit
<1>4. ExportInv
  BY <1>1, VerdictAssumption, ExportAssumption DEF ExportInv, ExportTypeOK, Init, ExportInit, Bodies
<1>5. \A r \in Runs : RunInv(r)
  BY <1>1, VerdictAssumption DEF RunInv, Init, HistoryInit, NoTrend, Unfinished, AtTheStore, Compared
<1>6. QED
  BY <1>2, <1>3, <1>4, <1>5 DEF EndingInv

\* Every step keeps the invariant.
LEMMA EndingKeeps == EndingInv /\ [Next]_verdictVars => EndingInv'
<1> SUFFICES ASSUME EndingInv, [Next]_verdictVars PROVE EndingInv'
  OBVIOUS
<1> USE DEF EndingInv
<1>1. StoreInv'
  BY StoreKeeps
<1>2. CASE UNCHANGED endingVars
  <2>1. StateInv' /\ ExportInv'
    BY <1>2 DEF StateInv, ExportInv, ExportTypeOK, Taken, Seen, Present, endingVars, historyVars, exportVars
  <2>2. \A r \in Runs : RunInv(r)'
    BY <1>2, OthersKeep DEF endingVars, historyVars, exportVars
  <2>3. QED
    BY <1>1, <2>1, <2>2
<1>3. ASSUME NEW r \in Runs, EndingStep(r) \/ Fault(r) PROVE EndingInv'
  <2>1. CASE Records(r)
    <3>1. UNCHANGED <<history, written, exit, exportVars>>
      BY <2>1 DEF Records
    <3>2. ExportInv' /\ UNCHANGED <<wanted, phase>>
      BY <3>1 DEF ExportInv, ExportTypeOK, Taken, exportVars
    <3>3. StateInv' /\ RunInv(r)'
      BY <2>1, <3>1, <3>2, RecordingTyped, RecordingHolds DEF Records
    <3>4. \A q \in Runs \ {r} : RunInv(q)'
      BY <2>1, <3>1, <3>2, RecordsAlone, OthersKeep DEF Records
    <3>5. QED
      BY <1>1, <3>2, <3>3, <3>4
  <2>2. CASE ~Records(r)
    <3>1. /\ RunInv(r)' /\ UNCHANGED <<history, historyVars>> /\ wanted' = wanted /\ ExportInv'
          /\ \A q \in Runs \ {r} : /\ step'[q] = step[q] /\ exit'[q] = exit[q] /\ written'[q] = written[q]
                                   /\ q \in Exporters => phase'[q] = phase[q]
          /\ DOMAIN step' = Runs /\ DOMAIN exit' = Runs /\ DOMAIN written' = Runs
      BY <1>3, <2>2, EndingHolds
    <3>2. StateInv'
      BY <3>1 DEF StateInv, Seen, Present, historyVars
    <3>3. \A q \in Runs \ {r} : RunInv(q)'
      BY <3>1, OthersKeep DEF historyVars
    <3>4. QED
      BY <1>1, <3>1, <3>2, <3>3
  <2>3. QED
    BY <2>1, <2>2
<1>4. QED
  BY <1>2, <1>3 DEF Next, Progress, verdictVars

\* A pipeline may rely on the exit status: zero means a run that passed, all its files, its
\* sample in the history, a baseline where one is required, and, where that is required, a
\* collector that answered the last request with success and, if it says what it rejects,
\* took the whole payload (run_from_config_with_output).
THEOREM ExitIsEarned == Spec => []EndingIsEarned
<1>1. EndingInv => EndingIsEarned
  <2> SUFFICES ASSUME EndingInv PROVE EndingIsEarned
    OBVIOUS
  <2> USE DEF EndingInv, RunInv, StateInv, Kept
  <2>1. EndingTypeOK
    BY DEF EndingTypeOK, HistoryTypeOK, ExportInv
  <2>2. ASSUME NEW r \in Runs, told[r] \in {"created", "present"}
        PROVE  mine[r].run \in Present(published) /\ published[mine[r].run] = mine[r] /\ mine[r] \in Seen(published)
    BY <2>2 DEF StoreInv, Present, Seen
  <2>3. GreenIsEarned
    BY <2>2 DEF GreenIsEarned, Exported, HistoryGate, ExportInv, Taken, SaysWhatItRejects
  <2>4. FailureIsRecorded
    BY <2>2 DEF FailureIsRecorded
  <2>5. QED
    BY <2>1, <2>3, <2>4 DEF EndingIsEarned
<1>2. QED
  BY <1>1, EndingBegins, EndingKeeps, PTL DEF Spec

-----------------------------------------------------------------------------
(***************************************************************************)
(* The figures of a run.                                                   *)
(***************************************************************************)
\* The calls that ended in one of O on one of T, and the threads that still have to count
\* such a call somewhere: those that are in one of the phases P.
Made(O, T) == {i \in DOMAIN calls : calls[i].outcome \in O /\ calls[i].tool \in T}
Yet(P, O, T) == {t \in Threads : doing[t].phase \in P /\ doing[t].outcome \in O /\ doing[t].tool \in T}

\* A figure n that lacks what the threads in P have yet to count.
Lacking(n, P, O, T) == n + Cardinality(Yet(P, O, T)) = Cardinality(Made(O, T))

\* The outcome that takes so long.
Late(l) == {IF l = 1 THEN "Success" ELSE "Hang"}

BeforeCount == {"latency", "look", "insert", "count"}

Counter == [outcomes : [Outcomes -> Nat], latency : [Latencies -> Nat]]
Job == [phase : {"latency", "look", "insert"}, outcome : Outcomes, tool : Tools]
Held == [phase : {"count", "time"}, outcome : Outcomes, tool : Tools, entry : Nat]

ThreadOK(t) ==
    /\ doing[t] \in {Idle} \cup Job \cup Held
    /\ doing[t].phase \in {"latency", "time"} => Contributes(doing[t].outcome)
    /\ doing[t].phase \in {"count", "time"} => doing[t].entry = perTool[doing[t].tool] /\ doing[t].entry # 0

RecorderOK ==
    /\ setup \in Setups /\ calls \in Seq([outcome : Outcomes, tool : Tools, by : setup.servers]) /\ Len(calls) <= MaxCalls
    /\ DOMAIN doing = Threads /\ \A t \in Threads : ThreadOK(t)
    /\ outcomes \in [Outcomes -> Nat] /\ latency \in [Latencies -> Nat]
    /\ entries \in Seq(Counter) /\ perTool \in [Tools -> 0..Len(entries)]
    /\ \A a, b \in Tools : perTool[a] = perTool[b] /\ perTool[a] # 0 => a = b

\* Every figure lacks the calls that the threads on their way have not counted there yet.
FiguresLack ==
    /\ \A o \in Outcomes : Lacking(outcomes[o], {}, {o}, Tools)
    /\ \A l \in Latencies : Lacking(latency[l], {"latency"}, Late(l), Tools)
    /\ \A tool \in Tools, o \in Outcomes : Lacking(ToolState(tool).outcomes[o], BeforeCount, {o}, {tool})
    /\ \A tool \in Tools, l \in Latencies : Lacking(ToolState(tool).latency[l], BeforeCount \cup {"time"}, Late(l), {tool})

SamplesOK ==
    /\ Len(samples) <= MaxSamples
    /\ samples # <<>> => setup.servers = {"first"} /\ \A s \in Range(samples) : s.of = "first"

FiguresInv ==
    /\ RecorderOK /\ FiguresLack /\ SamplesOK /\ LimitsAreMet
    /\ report \subseteq Kinds /\ measured \in {"driving", "sampled", "reported"}
    /\ measured # "driving" => \A t \in Threads : doing[t] = Idle

-----------------------------------------------------------------------------
\* Made and Yet are finite.
LEMMA FiguresFinite ==
    ASSUME RecorderOK
    PROVE  /\ \A O, T : IsFiniteSet(Made(O, T)) /\ Cardinality(Made(O, T)) \in Nat
           /\ \A P, O, T : IsFiniteSet(Yet(P, O, T)) /\ Cardinality(Yet(P, O, T)) \in Nat
<1>1. IsFiniteSet(DOMAIN calls)
  <2>1. DOMAIN calls = 1..Len(calls) /\ Len(calls) \in Nat
    BY DEF RecorderOK
  <2>2. QED
    BY <2>1, FS_Interval
<1>2. \A O, T : Made(O, T) \subseteq DOMAIN calls
  BY DEF Made
<1>3. \A P, O, T : Yet(P, O, T) \subseteq Threads
  BY DEF Yet
<1>4. \A O, T : IsFiniteSet(Made(O, T))
  BY <1>1, <1>2, FS_Subset
<1>5. \A P, O, T : IsFiniteSet(Yet(P, O, T))
  BY <1>3, MeasurementAssumption, FS_Subset
<1>6. QED
  BY <1>4, <1>5, FS_CardinalityType

\* One thread goes on to count what it counted, or not yet: the figure n' of what t does.
LEMMA ThreadCounts ==
    ASSUME RecorderOK, UNCHANGED calls, NEW t \in Threads, DOMAIN doing' = Threads,
           \A u \in Threads \ {t} : doing'[u] = doing[u],
           NEW P, NEW O, NEW T, NEW n \in Nat, NEW m \in Nat, Lacking(n, P, O, T),
           \/ m = n /\ (t \in Yet(P, O, T) <=> t \in Yet(P, O, T)')
           \/ m = n + 1 /\ t \in Yet(P, O, T) /\ t \notin Yet(P, O, T)'
    PROVE  m + Cardinality(Yet(P, O, T)') = Cardinality(Made(O, T)')
<1> DEFINE Y == Yet(P, O, T)
<1>1. \A u \in Threads \ {t} : u \in Yet(P, O, T)' <=> u \in Y
  BY DEF Yet
<1>2. Yet(P, O, T)' \subseteq Threads /\ Y \subseteq Threads
  BY DEF Yet
<1>3. IsFiniteSet(Y) /\ Cardinality(Y) \in Nat /\ Cardinality(Made(O, T)) \in Nat /\ Made(O, T)' = Made(O, T)
  BY FiguresFinite DEF Made
<1>4. CASE m = n /\ (t \in Y <=> t \in Yet(P, O, T)')
  <2>1. Yet(P, O, T)' = Y
    BY <1>1, <1>2, <1>4
  <2>2. QED
    BY <1>3, <1>4, <2>1 DEF Lacking
<1>5. CASE m = n + 1 /\ t \in Y /\ t \notin Yet(P, O, T)'
  <2>1. Yet(P, O, T)' = Y \ {t}
    BY <1>1, <1>2, <1>5
  <2>2. Cardinality(Y \ {t}) = Cardinality(Y) - 1
    BY <1>3, <1>5, FS_RemoveElement
  <2>3. n + Cardinality(Y) = Cardinality(Made(O, T))
    BY DEF Lacking
  <2> HIDE DEF Y
  <2>4. m + (Cardinality(Y) - 1) = Cardinality(Made(O, T))
    BY <1>3, <1>5, <2>3
  <2>5. QED
    BY <1>3, <2>1, <2>2, <2>4 DEF Lacking
<1>6. QED
  BY <1>4, <1>5

\* A call that ends is lacking where its thread has yet to count it, or is counted at once.
LEMMA CallIsLacking ==
    ASSUME RecorderOK, NEW t \in Threads, DOMAIN doing' = Threads, doing[t] = Idle,
           \A u \in Threads \ {t} : doing'[u] = doing[u],
           NEW c \in [outcome : Outcomes, tool : Tools, by : setup.servers], calls' = Append(calls, c),
           NEW P, "idle" \notin P, NEW O, NEW T, NEW n \in Nat, NEW m \in Nat, Lacking(n, P, O, T),
           IF c.outcome \in O /\ c.tool \in T
           THEN \/ m = n /\ t \in Yet(P, O, T)'
                \/ m = n + 1 /\ t \notin Yet(P, O, T)'
           ELSE m = n /\ t \notin Yet(P, O, T)'
    PROVE  m + Cardinality(Yet(P, O, T)') = Cardinality(Made(O, T)')
<1> DEFINE Y == Yet(P, O, T)
           M == Made(O, T)
           k == Len(calls) + 1
<1>0. calls \in Seq([outcome : Outcomes, tool : Tools, by : setup.servers]) /\ Len(calls) \in Nat
  BY DEF RecorderOK
<1>1. \A u \in Threads \ {t} : u \in Yet(P, O, T)' <=> u \in Y
  BY DEF Yet
<1>2. Yet(P, O, T)' \subseteq Threads /\ Y \subseteq Threads /\ t \notin Y
  BY DEF Yet, Idle
<1>3. /\ IsFiniteSet(Y) /\ Cardinality(Y) \in Nat /\ IsFiniteSet(M) /\ Cardinality(M) \in Nat
  BY FiguresFinite
<1>4. DOMAIN calls' = DOMAIN calls \cup {k} /\ k \notin DOMAIN calls /\ calls'[k] = c
      /\ \A i \in DOMAIN calls : calls'[i] = calls[i]
  BY <1>0
<1>5. Made(O, T)' = IF c.outcome \in O /\ c.tool \in T THEN M \cup {k} ELSE M
  BY <1>4 DEF Made
<1>6. k \notin M
  BY <1>4 DEF Made
<1>7. Cardinality(M \cup {k}) = Cardinality(M) + 1 /\ Cardinality(Y \cup {t}) = Cardinality(Y) + 1
  BY <1>2, <1>3, <1>6, FS_AddElement
<1>8. n + Cardinality(Y) = Cardinality(M)
  BY DEF Lacking
<1>9. t \in Yet(P, O, T)' => Yet(P, O, T)' = Y \cup {t}
  BY <1>1, <1>2
<1>10. t \notin Yet(P, O, T)' => Yet(P, O, T)' = Y
  <2> SUFFICES ASSUME t \notin Yet(P, O, T)' PROVE \A u : u \in Yet(P, O, T)' <=> u \in Y
    OBVIOUS
  <2>1. \A u \in Threads : u \in Yet(P, O, T)' <=> u \in Y
    BY <1>1, <1>2
  <2>2. QED
    BY <1>2, <2>1
<1> HIDE DEF Y, M, k
<1>11. CASE c.outcome \in O /\ c.tool \in T
  <2>1. Made(O, T)' = M \cup {k}
    BY <1>5, <1>11
  <2>2. CASE m = n /\ t \in Yet(P, O, T)'
    <3>1. m + Cardinality(Y \cup {t}) = Cardinality(M \cup {k})
      BY <1>3, <1>7, <1>8, <2>2
    <3>2. QED
      BY <1>9, <2>1, <2>2, <3>1 DEF Lacking
  <2>3. CASE m = n + 1 /\ t \notin Yet(P, O, T)'
    <3>1. m + Cardinality(Y) = Cardinality(M \cup {k})
      BY <1>3, <1>7, <1>8, <2>3
    <3>2. QED
      BY <1>10, <2>1, <2>3, <3>1 DEF Lacking
  <2>4. QED
    BY <1>11, <2>2, <2>3
<1>12. CASE ~(c.outcome \in O /\ c.tool \in T)
  <2>1. Made(O, T)' = M
    BY <1>5, <1>12
  <2>2. QED
    BY <1>8, <1>10, <1>12, <2>1 DEF Lacking
<1>13. QED
  BY <1>11, <1>12

\* What a thread is doing tells what it knows.
LEMMA ThreadKnows ==
    ASSUME RecorderOK, NEW t \in Threads
    PROVE  /\ doing[t] = Idle \/ doing[t] \in Job \/ doing[t] \in Held
           /\ doing[t].phase # "idle" => doing[t].outcome \in Outcomes /\ doing[t].tool \in Tools
           /\ doing[t].phase \in {"count", "time"} => doing[t] \in Held
BY DEF RecorderOK, ThreadOK, Idle, Job, Held

\* A thread that does nothing stays what it is while the map only grows.
LEMMA OtherThreads ==
    ASSUME RecorderOK, NEW u \in Threads, doing'[u] = doing[u],
           \A a \in Tools : perTool[a] # 0 => perTool'[a] = perTool[a]
    PROVE  ThreadOK(u)'
<1>1. ThreadOK(u)
  BY DEF RecorderOK
<1>2. doing[u] \in {Idle} \cup Job \cup Held /\ (doing[u].phase \in {"count", "time"} => doing[u].tool \in Tools)
  BY ThreadKnows, <1>1 DEF ThreadOK
<1>3. doing[u].phase \in {"count", "time"} => doing[u].entry = perTool'[doing[u].tool] /\ doing[u].entry # 0
  BY <1>1, <1>2 DEF ThreadOK
<1>4. QED
  BY <1>1, <1>2, <1>3 DEF ThreadOK, Job, Held, Idle

\* While the run is driven the report is still to come.
LEMMA Driving ==
    ASSUME FiguresInv, measured = "driving", UNCHANGED <<samples, report, measured, setup>>, RecorderOK', FiguresLack'
    PROVE  FiguresInv'
<1>1. SamplesOK'
  BY DEF FiguresInv, SamplesOK
<1>2. LimitsAreMet'
  BY DEF LimitsAreMet
<1>3. QED
  BY <1>1, <1>2 DEF FiguresInv

\* A thread that is busy records, and the run is being driven.
LEMMA BusyDrives ==
    ASSUME FiguresInv, NEW t \in Threads, doing[t].phase # "idle"
    PROVE  measured = "driving" /\ RecorderOK /\ FiguresLack
BY DEF FiguresInv, Idle

\* The figures are numbers.
LEMMA FiguresAreNumbers ==
    ASSUME RecorderOK
    PROVE  /\ \A o \in Outcomes : outcomes[o] \in Nat
           /\ \A l \in Latencies : latency[l] \in Nat
           /\ \A tool \in Tools : ToolState(tool) \in Counter
<1>1. \A tool \in Tools : perTool[tool] # 0 => entries[perTool[tool]] \in Counter
  BY DEF RecorderOK
<1>2. [outcomes |-> Nothing, latency |-> NoLatency] \in Counter
  BY DEF Counter, Nothing, NoLatency
<1>3. QED
  BY <1>1, <1>2 DEF RecorderOK, ToolState

\* OutcomeCounters::bump: the call is in the counter of its outcome, and nowhere else yet.
LEMMA CallEndKeeps ==
    ASSUME FiguresInv, NEW t \in Threads, CallEnds(t)
    PROVE  FiguresInv'
<1>0. RecorderOK /\ FiguresLack /\ measured = "driving" /\ doing[t] = Idle
  BY DEF CallEnds, FiguresInv
<1>1. PICK o \in Outcomes, tl \in Tools, by \in setup.servers :
        /\ calls' = Append(calls, [outcome |-> o, tool |-> tl, by |-> by])
        /\ outcomes' = Bumped(outcomes, o)
        /\ doing' = [doing EXCEPT ![t] = [phase |-> IF Contributes(o) THEN "latency" ELSE "look",
                                          outcome |-> o, tool |-> tl]]
  BY DEF CallEnds
<1> DEFINE c == [outcome |-> o, tool |-> tl, by |-> by]
<1>2. /\ setup' = setup /\ latency' = latency /\ perTool' = perTool /\ entries' = entries
      /\ samples' = samples /\ report' = report /\ measured' = measured /\ Len(calls) < MaxCalls
  BY DEF CallEnds
<1>3. /\ DOMAIN doing' = Threads /\ \A u \in Threads \ {t} : doing'[u] = doing[u]
      /\ doing'[t] = [phase |-> IF Contributes(o) THEN "latency" ELSE "look", outcome |-> o, tool |-> tl]
  BY <1>0, <1>1 DEF RecorderOK
<1>4. /\ doing'[t].phase = (IF Contributes(o) THEN "latency" ELSE "look")
      /\ doing'[t].outcome = o /\ doing'[t].tool = tl
  BY <1>3
<1>5. c \in [outcome : Outcomes, tool : Tools, by : setup.servers] /\ calls' = Append(calls, c)
      /\ c.outcome = o /\ c.tool = tl
  BY <1>1
<1>6. RecorderOK'
  <2>1. ThreadOK(t)'
    BY <1>3 DEF ThreadOK, Job
  <2>2. \A u \in Threads \ {t} : ThreadOK(u)'
    BY <1>0, <1>2, <1>3, OtherThreads
  <2>3. outcomes' \in [Outcomes -> Nat]
    BY <1>0, <1>1 DEF RecorderOK, Bumped
  <2>4. calls' \in Seq([outcome : Outcomes, tool : Tools, by : setup.servers]) /\ Len(calls') <= MaxCalls
    BY <1>0, <1>2, <1>5, MeasurementAssumption DEF RecorderOK
  <2>5. QED
    BY <1>0, <1>2, <1>3, <2>1, <2>2, <2>3, <2>4 DEF RecorderOK
<1> HIDE DEF c
<1>7. FiguresLack'
  <2>1. \A p \in Outcomes : Lacking(outcomes[p], {}, {p}, Tools)'
    <3> SUFFICES ASSUME NEW p \in Outcomes PROVE Lacking(outcomes[p], {}, {p}, Tools)'
      OBVIOUS
    <3>1. outcomes[p] \in Nat /\ outcomes'[p] = (IF p = o THEN outcomes[p] + 1 ELSE outcomes[p])
      BY <1>0, <1>1 DEF RecorderOK, Bumped
    <3>2. t \notin Yet({}, {p}, Tools)'
      BY DEF Yet
    <3>3. Lacking(outcomes[p], {}, {p}, Tools)
      BY <1>0 DEF FiguresLack
    <3> DEFINE m == outcomes'[p]
               n == outcomes[p]
               P == {}
    <3>4. n \in Nat /\ m \in Nat /\ "idle" \notin P
      BY <3>1
    <3>5. IF c.outcome \in {p} /\ c.tool \in Tools THEN m = n + 1 ELSE m = n
      BY <1>5, <3>1
    <3> HIDE DEF m, n, P
    <3>6. Lacking(n, P, {p}, Tools) /\ t \notin Yet(P, {p}, Tools)'
      BY <3>2, <3>3 DEF n, P
    <3>7. m + Cardinality(Yet(P, {p}, Tools)') = Cardinality(Made({p}, Tools)')
      BY <1>0, <1>3, <1>5, <3>4, <3>5, <3>6, CallIsLacking
    <3>8. QED
      BY <3>7 DEF m, P, Lacking
  <2>2. \A l \in Latencies : Lacking(latency[l], {"latency"}, Late(l), Tools)'
    <3> SUFFICES ASSUME NEW l \in Latencies PROVE Lacking(latency[l], {"latency"}, Late(l), Tools)'
      OBVIOUS
    <3>1. latency[l] \in Nat /\ Lacking(latency[l], {"latency"}, Late(l), Tools)
      BY <1>0 DEF RecorderOK, FiguresLack
    <3>2. t \in Yet({"latency"}, Late(l), Tools)' <=> o \in Late(l) /\ tl \in Tools
      BY <1>4 DEF Yet, Late, Contributes
    <3> DEFINE n == latency[l]
               P == {"latency"}
    <3>3. n \in Nat /\ "idle" \notin P
      BY <3>1
    <3> HIDE DEF n, P
    <3>4. Lacking(n, P, Late(l), Tools) /\ (t \in Yet(P, Late(l), Tools)' <=> o \in Late(l) /\ tl \in Tools)
      BY <3>1, <3>2 DEF n, P
    <3>5. n + Cardinality(Yet(P, Late(l), Tools)') = Cardinality(Made(Late(l), Tools)')
      BY <1>0, <1>3, <1>5, <3>3, <3>4, CallIsLacking
    <3>6. QED
      BY <1>2, <3>5 DEF n, P, Lacking
  <2>3. \A tool \in Tools, p \in Outcomes : Lacking(ToolState(tool).outcomes[p], BeforeCount, {p}, {tool})'
    <3> SUFFICES ASSUME NEW tool \in Tools, NEW p \in Outcomes
                 PROVE  Lacking(ToolState(tool).outcomes[p], BeforeCount, {p}, {tool})'
      OBVIOUS
    <3> DEFINE n == ToolState(tool).outcomes[p]
    <3>1. n \in Nat /\ Lacking(n, BeforeCount, {p}, {tool})
      BY <1>0, FiguresAreNumbers DEF FiguresLack, Counter
    <3>2. t \in Yet(BeforeCount, {p}, {tool})' <=> o \in {p} /\ tl \in {tool}
      BY <1>4 DEF Yet, BeforeCount
    <3>3. ToolState(tool)' = ToolState(tool) /\ "idle" \notin BeforeCount
      BY <1>2 DEF ToolState, BeforeCount
    <3> HIDE DEF n
    <3>4. n + Cardinality(Yet(BeforeCount, {p}, {tool})') = Cardinality(Made({p}, {tool})')
      BY <1>0, <1>3, <1>5, <3>1, <3>2, <3>3, CallIsLacking
    <3>5. QED
      BY <3>3, <3>4 DEF n, Lacking
  <2>4. \A tool \in Tools, l \in Latencies :
           Lacking(ToolState(tool).latency[l], BeforeCount \cup {"time"}, Late(l), {tool})'
    <3> SUFFICES ASSUME NEW tool \in Tools, NEW l \in Latencies
                 PROVE  Lacking(ToolState(tool).latency[l], BeforeCount \cup {"time"}, Late(l), {tool})'
      OBVIOUS
    <3> DEFINE n == ToolState(tool).latency[l]
               B == BeforeCount \cup {"time"}
    <3>1. n \in Nat /\ Lacking(n, B, Late(l), {tool})
      BY <1>0, FiguresAreNumbers DEF FiguresLack, Counter
    <3>2. t \in Yet(B, Late(l), {tool})' <=> o \in Late(l) /\ tl \in {tool}
      BY <1>4 DEF Yet, BeforeCount
    <3>3. ToolState(tool)' = ToolState(tool) /\ "idle" \notin B
      BY <1>2 DEF ToolState, BeforeCount
    <3> HIDE DEF n, B
    <3>4. n + Cardinality(Yet(B, Late(l), {tool})') = Cardinality(Made(Late(l), {tool})')
      BY <1>0, <1>3, <1>5, <3>1, <3>2, <3>3, CallIsLacking
    <3>5. QED
      BY <3>3, <3>4 DEF n, B, Lacking
  <2>5. QED
    BY <2>1, <2>2, <2>3, <2>4 DEF FiguresLack
<1>8. QED
  BY <1>0, <1>2, <1>6, <1>7, Driving

-----------------------------------------------------------------------------
\* A thread that goes on with a call to the next phase, with what it counts on the way: in
\* the latencies of the run, and in the outcomes and the latencies of the tool.
Proceeds(t, from, to, o, tl) ==
    /\ DOMAIN doing' = Threads /\ \A u \in Threads \ {t} : doing'[u] = doing[u]
    /\ doing[t].phase = from /\ doing[t].outcome = o /\ doing[t].tool = tl
    /\ doing'[t].phase = to /\ (to # "idle" => doing'[t].outcome = o /\ doing'[t].tool = tl)
    /\ \/ from = "latency" /\ to = "look"
       \/ from = "look" /\ to \in {"insert", "count"}
       \/ from = "insert" /\ to = "count"
       \/ from = "count" /\ to = IF Contributes(o) THEN "time" ELSE "idle"
       \/ from = "time" /\ to = "idle"

Counted(new, old, one) == new = IF one THEN old + 1 ELSE old

LEMMA GoingOn ==
    ASSUME RecorderOK, FiguresLack, UNCHANGED <<calls, outcomes>>, NEW t \in Threads,
           NEW from, NEW to, NEW o \in Outcomes, NEW tl \in Tools, Proceeds(t, from, to, o, tl),
           \A l \in Latencies : Counted(latency'[l], latency[l], from = "latency" /\ o \in Late(l)),
           \A tool \in Tools, p \in Outcomes :
              Counted(ToolState(tool)'.outcomes[p], ToolState(tool).outcomes[p], from = "count" /\ tl = tool /\ o = p),
           \A tool \in Tools, l \in Latencies :
              Counted(ToolState(tool)'.latency[l], ToolState(tool).latency[l], from = "time" /\ tl = tool /\ o \in Late(l))
    PROVE  FiguresLack'
<1>1. DOMAIN doing' = Threads /\ \A u \in Threads \ {t} : doing'[u] = doing[u]
  BY DEF Proceeds
<1>2. \A P, O, T : t \in Yet(P, O, T) <=> from \in P /\ o \in O /\ tl \in T
  BY DEF Proceeds, Yet
<1>3. \A P, O, T : "idle" \notin P => (t \in Yet(P, O, T)' <=> to \in P /\ o \in O /\ tl \in T)
  <2> SUFFICES ASSUME NEW P, NEW O, NEW T, "idle" \notin P PROVE t \in Yet(P, O, T)' <=> to \in P /\ o \in O /\ tl \in T
    OBVIOUS
  <2>1. t \in Yet(P, O, T)' <=> doing'[t].phase \in P /\ doing'[t].outcome \in O /\ doing'[t].tool \in T
    BY DEF Yet
  <2>2. QED
    BY <2>1 DEF Proceeds
<1>4. \A p \in Outcomes : Lacking(outcomes[p], {}, {p}, Tools)'
  <2> SUFFICES ASSUME NEW p \in Outcomes PROVE Lacking(outcomes[p], {}, {p}, Tools)'
    OBVIOUS
  <2> DEFINE n == outcomes[p]
             P == {}
  <2>1. n \in Nat /\ Lacking(n, P, {p}, Tools) /\ "idle" \notin P
    BY FiguresAreNumbers DEF FiguresLack
  <2>2. t \in Yet(P, {p}, Tools) <=> t \in Yet(P, {p}, Tools)'
    BY DEF Yet
  <2> HIDE DEF n, P
  <2>3. n + Cardinality(Yet(P, {p}, Tools)') = Cardinality(Made({p}, Tools)')
    BY <1>1, <2>1, <2>2, ThreadCounts
  <2>4. QED
    BY <2>3 DEF n, P, Lacking
<1>5. \A l \in Latencies : Lacking(latency[l], {"latency"}, Late(l), Tools)'
  <2> SUFFICES ASSUME NEW l \in Latencies PROVE Lacking(latency[l], {"latency"}, Late(l), Tools)'
    OBVIOUS
  <2> DEFINE n == latency[l]
             m == latency'[l]
             P == {"latency"}
  <2>1. n \in Nat /\ Lacking(n, P, Late(l), Tools) /\ "idle" \notin P
    BY FiguresAreNumbers DEF FiguresLack
  <2>2. Counted(m, n, from = "latency" /\ o \in Late(l)) /\ m \in Nat
    BY <2>1 DEF Counted
  <2>3. \/ m = n /\ ~(from \in P /\ o \in Late(l)) /\ ~(to \in P)
        \/ m = n + 1 /\ from \in P /\ o \in Late(l) /\ ~(to \in P)
    BY <2>2 DEF Counted, Proceeds
  <2> HIDE DEF n, m, P
  <2>4. \/ m = n /\ (t \in Yet(P, Late(l), Tools) <=> t \in Yet(P, Late(l), Tools)')
        \/ m = n + 1 /\ t \in Yet(P, Late(l), Tools) /\ t \notin Yet(P, Late(l), Tools)'
    BY <1>2, <1>3, <2>1, <2>3
  <2>5. m + Cardinality(Yet(P, Late(l), Tools)') = Cardinality(Made(Late(l), Tools)')
    BY <1>1, <2>1, <2>2, <2>4, ThreadCounts
  <2>6. QED
    BY <2>5 DEF m, P, Lacking
<1>6. \A tool \in Tools, p \in Outcomes : Lacking(ToolState(tool).outcomes[p], BeforeCount, {p}, {tool})'
  <2> SUFFICES ASSUME NEW tool \in Tools, NEW p \in Outcomes
               PROVE  Lacking(ToolState(tool).outcomes[p], BeforeCount, {p}, {tool})'
    OBVIOUS
  <2> DEFINE n == ToolState(tool).outcomes[p]
             m == ToolState(tool)'.outcomes[p]
             one == o \in {p} /\ tl \in {tool}
  <2>1. n \in Nat /\ Lacking(n, BeforeCount, {p}, {tool})
    BY FiguresAreNumbers DEF FiguresLack, Counter
  <2>2. Counted(m, n, from = "count" /\ one)
    OBVIOUS
  <2> HIDE DEF n, m, one
  <2>3. m \in Nat /\ (IF from = "count" /\ one THEN m = n + 1 ELSE m = n)
    BY <2>1, <2>2 DEF Counted
  <2>4. /\ to \in BeforeCount <=> (from \in BeforeCount /\ from # "count")
        /\ from = "count" => from \in BeforeCount
        /\ "idle" \notin BeforeCount
    BY DEF Proceeds, BeforeCount
  <2>5. \/ m = n /\ (t \in Yet(BeforeCount, {p}, {tool}) <=> t \in Yet(BeforeCount, {p}, {tool})')
        \/ m = n + 1 /\ t \in Yet(BeforeCount, {p}, {tool}) /\ t \notin Yet(BeforeCount, {p}, {tool})'
    BY <1>2, <1>3, <2>3, <2>4 DEF one
  <2>6. m + Cardinality(Yet(BeforeCount, {p}, {tool})') = Cardinality(Made({p}, {tool})')
    BY <1>1, <2>1, <2>3, <2>5, ThreadCounts
  <2>7. QED
    BY <2>6 DEF m, Lacking
<1>7. \A tool \in Tools, l \in Latencies : Lacking(ToolState(tool).latency[l], BeforeCount \cup {"time"}, Late(l), {tool})'
  <2> SUFFICES ASSUME NEW tool \in Tools, NEW l \in Latencies
               PROVE  Lacking(ToolState(tool).latency[l], BeforeCount \cup {"time"}, Late(l), {tool})'
    OBVIOUS
  <2> DEFINE n == ToolState(tool).latency[l]
             m == ToolState(tool)'.latency[l]
             B == BeforeCount \cup {"time"}
             O == Late(l)
             one == o \in O /\ tl \in {tool}
  <2>1. n \in Nat /\ Lacking(n, B, O, {tool})
    BY FiguresAreNumbers DEF FiguresLack, Counter
  <2>2. Counted(m, n, from = "time" /\ one)
    BY DEF Counted
  <2>3. /\ one => (to \in B <=> (from \in B /\ from # "time"))
        /\ from = "time" => from \in B
        /\ "idle" \notin B
    BY DEF Proceeds, BeforeCount, Late, Contributes
  <2> HIDE DEF n, m, B, O
  <2>4. m \in Nat /\ (IF from = "time" /\ one THEN m = n + 1 ELSE m = n)
    BY <2>1, <2>2 DEF Counted
  <2>5. \/ m = n /\ (t \in Yet(B, O, {tool}) <=> t \in Yet(B, O, {tool})')
        \/ m = n + 1 /\ t \in Yet(B, O, {tool}) /\ t \notin Yet(B, O, {tool})'
    BY <1>2, <1>3, <2>3, <2>4
  <2>6. m + Cardinality(Yet(B, O, {tool})') = Cardinality(Made(O, {tool})')
    BY <1>1, <2>1, <2>4, <2>5, ThreadCounts
  <2>7. QED
    BY <2>6 DEF m, B, O, Lacking
<1>8. QED
  BY <1>4, <1>5, <1>6, <1>7 DEF FiguresLack

\* latency_all.record.
LEMMA LatencyKeeps ==
    ASSUME FiguresInv, NEW t \in Threads, RecordLatency(t)
    PROVE  FiguresInv'
<1>0. RecorderOK /\ FiguresLack /\ measured = "driving" /\ doing[t].phase = "latency"
  BY BusyDrives DEF RecordLatency
<1>1. doing[t] \in Job /\ Contributes(doing[t].outcome)
  <2>1. ThreadOK(t)
    BY <1>0 DEF RecorderOK
  <2>2. doing[t] \in Job
    BY <1>0, ThreadKnows DEF Idle, Held
  <2>3. QED
    BY <1>0, <2>1, <2>2 DEF ThreadOK
<1> PICK o \in Outcomes, tl \in Tools : doing[t] = [phase |-> "latency", outcome |-> o, tool |-> tl]
  BY <1>0, <1>1 DEF Job
<1>2. /\ latency' = Bumped(latency, LatencyOf(o)) /\ doing' = [doing EXCEPT ![t].phase = "look"]
      /\ setup' = setup /\ calls' = calls /\ outcomes' = outcomes /\ perTool' = perTool /\ entries' = entries
      /\ samples' = samples /\ report' = report /\ measured' = measured
  BY DEF RecordLatency
<1>3. /\ DOMAIN doing' = Threads /\ \A u \in Threads \ {t} : doing'[u] = doing[u]
      /\ doing'[t] = [phase |-> "look", outcome |-> o, tool |-> tl]
  BY <1>0, <1>2 DEF RecorderOK
<1>4. RecorderOK'
  <2>1. ThreadOK(t)'
    BY <1>3 DEF ThreadOK, Job
  <2>2. \A u \in Threads \ {t} : ThreadOK(u)'
    BY <1>0, <1>2, <1>3, OtherThreads
  <2>3. latency' \in [Latencies -> Nat]
    <3>1. latency \in [Latencies -> Nat]
      BY <1>0 DEF RecorderOK
    <3>2. PICK k \in Latencies : k = LatencyOf(o)
      BY DEF LatencyOf, Latencies
    <3>3. latency' = [latency EXCEPT ![k] = @ + 1]
      BY <1>2, <3>2 DEF Bumped
    <3>4. QED
      BY <3>1, <3>3
  <2>4. QED
    BY <1>0, <1>2, <1>3, <2>1, <2>2, <2>3 DEF RecorderOK
<1>5. FiguresLack'
  <2>1. Proceeds(t, "latency", "look", o, tl)
    BY <1>3 DEF Proceeds
  <2>2. \A l \in Latencies : Counted(latency'[l], latency[l], "latency" = "latency" /\ o \in Late(l))
    <3>1. \A l \in Latencies : o \in Late(l) <=> LatencyOf(o) = l
      BY <1>1 DEF Late, LatencyOf, Latencies, Contributes
    <3>2. \A l \in Latencies : latency'[l] = IF LatencyOf(o) = l THEN latency[l] + 1 ELSE latency[l]
      BY <1>0, <1>2 DEF RecorderOK, Bumped
    <3>3. QED
      BY <3>1, <3>2 DEF Counted
  <2>3. \A tool \in Tools : ToolState(tool)' = ToolState(tool)
    BY <1>2 DEF ToolState
  <2>4. /\ \A tool \in Tools, p \in Outcomes :
              Counted(ToolState(tool)'.outcomes[p], ToolState(tool).outcomes[p], "latency" = "count" /\ tl = tool /\ o = p)
        /\ \A tool \in Tools, l \in Latencies :
              Counted(ToolState(tool)'.latency[l], ToolState(tool).latency[l], "latency" = "time" /\ tl = tool /\ o \in Late(l))
    BY <2>3 DEF Counted
  <2>5. QED
    BY <1>0, <1>2, <2>1, <2>2, <2>4, GoingOn
<1>6. QED
  BY <1>0, <1>2, <1>4, <1>5, Driving

\* The look-up under the read lock.
LEMMA LookUpKeeps ==
    ASSUME FiguresInv, NEW t \in Threads, LookUp(t)
    PROVE  FiguresInv'
<1>0. RecorderOK /\ FiguresLack /\ measured = "driving" /\ doing[t].phase = "look"
  BY BusyDrives DEF LookUp
<1>1. doing[t] \in Job
  BY <1>0, ThreadKnows DEF Idle, Held
<1> PICK o \in Outcomes, tl \in Tools : doing[t] = [phase |-> "look", outcome |-> o, tool |-> tl]
  BY <1>0, <1>1 DEF Job
<1>2. /\ doing' = [doing EXCEPT ![t] = IF perTool[tl] = 0 THEN [doing[t] EXCEPT !.phase = "insert"]
                                       ELSE Holding(t, perTool[tl])]
      /\ setup' = setup /\ calls' = calls /\ outcomes' = outcomes /\ perTool' = perTool /\ entries' = entries
      /\ samples' = samples /\ report' = report /\ measured' = measured /\ latency' = latency
  BY DEF LookUp
<1>3. /\ DOMAIN doing' = Threads /\ \A u \in Threads \ {t} : doing'[u] = doing[u]
      /\ doing'[t] = IF perTool[tl] = 0 THEN [phase |-> "insert", outcome |-> o, tool |-> tl]
                     ELSE [phase |-> "count", outcome |-> o, tool |-> tl, entry |-> perTool[tl]]
  BY <1>0, <1>2 DEF RecorderOK, Holding
<1>4. RecorderOK'
  <2>1. ThreadOK(t)'
    <3>1. perTool[tl] \in Nat
      BY <1>0 DEF RecorderOK
    <3>2. CASE perTool[tl] = 0
      BY <1>3, <3>2 DEF ThreadOK, Job
    <3>3. CASE perTool[tl] # 0
      <4>1. doing'[t] \in Held /\ doing'[t].phase = "count" /\ doing'[t].tool = tl /\ doing'[t].entry = perTool[tl]
        BY <1>3, <3>1, <3>3 DEF Held
      <4>2. QED
        BY <1>2, <3>3, <4>1 DEF ThreadOK
    <3>4. QED
      BY <3>2, <3>3
  <2>2. \A u \in Threads \ {t} : ThreadOK(u)'
    BY <1>0, <1>2, <1>3, OtherThreads
  <2>3. QED
    BY <1>0, <1>2, <1>3, <2>1, <2>2 DEF RecorderOK
<1>5. FiguresLack'
  <2> DEFINE to == IF perTool[tl] = 0 THEN "insert" ELSE "count"
  <2>1. Proceeds(t, "look", to, o, tl)
    BY <1>3 DEF Proceeds
  <2>2. \A tool \in Tools : ToolState(tool)' = ToolState(tool)
    BY <1>2 DEF ToolState
  <2>3. /\ \A l \in Latencies : Counted(latency'[l], latency[l], "look" = "latency" /\ o \in Late(l))
        /\ \A tool \in Tools, p \in Outcomes :
              Counted(ToolState(tool)'.outcomes[p], ToolState(tool).outcomes[p], "look" = "count" /\ tl = tool /\ o = p)
        /\ \A tool \in Tools, l \in Latencies :
              Counted(ToolState(tool)'.latency[l], ToolState(tool).latency[l], "look" = "time" /\ tl = tool /\ o \in Late(l))
    BY <1>2, <2>2 DEF Counted
  <2> HIDE DEF to
  <2>4. QED
    BY <1>0, <1>2, <2>1, <2>3, GoingOn
<1>6. QED
  BY <1>0, <1>2, <1>4, <1>5, Driving

\* entry().or_insert_with under the write lock: the entry is the one that is there, or new.
LEMMA InsertKeeps ==
    ASSUME FiguresInv, NEW t \in Threads, InsertTool(t)
    PROVE  FiguresInv'
<1>0. RecorderOK /\ FiguresLack /\ measured = "driving" /\ doing[t].phase = "insert"
  BY BusyDrives DEF InsertTool
<1>1. doing[t] \in Job
  BY <1>0, ThreadKnows DEF Idle, Held
<1> PICK o \in Outcomes, tl \in Tools : doing[t] = [phase |-> "insert", outcome |-> o, tool |-> tl]
  BY <1>0, <1>1 DEF Job
<1> DEFINE k == Len(entries) + 1
           new == [outcomes |-> Nothing, latency |-> NoLatency]
<1>2. /\ IF perTool[tl] # 0 THEN UNCHANGED <<perTool, entries>>
         ELSE entries' = Append(entries, new) /\ perTool' = [perTool EXCEPT ![tl] = k]
      /\ doing' = [doing EXCEPT ![t] = Holding(t, perTool'[tl])]
      /\ setup' = setup /\ calls' = calls /\ outcomes' = outcomes
      /\ samples' = samples /\ report' = report /\ measured' = measured /\ latency' = latency
  BY DEF InsertTool
<1>3. /\ DOMAIN doing' = Threads /\ \A u \in Threads \ {t} : doing'[u] = doing[u]
      /\ doing'[t] = [phase |-> "count", outcome |-> o, tool |-> tl, entry |-> perTool'[tl]]
  BY <1>0, <1>2 DEF RecorderOK, Holding
<1>4. /\ entries \in Seq(Counter) /\ perTool \in [Tools -> 0..Len(entries)] /\ Len(entries) \in Nat
      /\ \A a, b \in Tools : perTool[a] = perTool[b] /\ perTool[a] # 0 => a = b
  BY <1>0 DEF RecorderOK
<1>5. new \in Counter
  BY DEF Counter, Nothing, NoLatency
<1>6. /\ entries' \in Seq(Counter) /\ perTool' \in [Tools -> 0..Len(entries')] /\ perTool'[tl] # 0 /\ perTool'[tl] \in Nat
      /\ \A a, b \in Tools : perTool'[a] = perTool'[b] /\ perTool'[a] # 0 => a = b
      /\ \A a \in Tools : perTool[a] # 0 => perTool'[a] = perTool[a]
      /\ \A a \in Tools : ToolState(a)' = ToolState(a)
  <2>1. CASE perTool[tl] # 0
    <3>1. perTool' = perTool /\ entries' = entries
      BY <1>2, <2>1
    <3>2. QED
      BY <1>4, <2>1, <3>1 DEF ToolState
  <2>2. CASE perTool[tl] = 0
    <3>1. entries' = Append(entries, new) /\ perTool' = [perTool EXCEPT ![tl] = k]
      BY <1>2, <2>2
    <3> HIDE DEF new
    <3>2. /\ entries' \in Seq(Counter) /\ Len(entries') = k /\ entries'[k] = new
          /\ \A i \in 1..Len(entries) : entries'[i] = entries[i]
      BY <1>4, <1>5, <3>1
    <3>3. \A a \in Tools : perTool'[a] = (IF a = tl THEN k ELSE perTool[a]) /\ perTool[a] \in 0..Len(entries)
      BY <1>4, <3>1
    <3>4. k # 0 /\ k \in 0..k /\ k \notin 0..Len(entries) /\ (0..Len(entries)) \subseteq 0..k
      BY <1>4
    <3>5. perTool' \in [Tools -> 0..Len(entries')]
      BY <1>4, <3>1, <3>2, <3>4
    <3>6. \A a, b \in Tools : perTool'[a] = perTool'[b] /\ perTool'[a] # 0 => a = b
      BY <1>4, <3>3, <3>4
    <3>7. \A a \in Tools : perTool[a] # 0 => perTool'[a] = perTool[a]
      BY <2>2, <3>3
    <3>8. \A a \in Tools : ToolState(a)' = ToolState(a)
      <4> SUFFICES ASSUME NEW a \in Tools PROVE ToolState(a)' = ToolState(a)
        OBVIOUS
      <4>1. CASE a = tl
        <5>1. perTool'[a] = k /\ perTool[a] = 0
          BY <2>2, <3>3, <4>1
        <5>2. ToolState(a)' = new /\ ToolState(a) = new
          BY <3>2, <3>4, <5>1 DEF ToolState, new
        <5>3. QED
          BY <5>2
      <4>2. CASE a # tl
        <5>1. perTool'[a] = perTool[a] /\ perTool[a] \in 0..Len(entries)
          BY <3>3, <4>2
        <5>2. perTool[a] # 0 => entries'[perTool[a]] = entries[perTool[a]]
          BY <1>4, <3>2, <5>1
        <5>3. QED
          BY <5>1, <5>2 DEF ToolState
      <4>3. QED
        BY <4>1, <4>2
    <3>9. perTool'[tl] = k
      BY <3>3
    <3>10. k # 0 /\ k \in Nat
      BY <1>4
    <3>11. QED
      BY <3>2, <3>5, <3>6, <3>7, <3>8, <3>9, <3>10
  <2>3. QED
    BY <2>1, <2>2
<1> HIDE DEF k, new
<1>7. RecorderOK'
  <2>1. ThreadOK(t)'
    <3>1. doing'[t] \in Held /\ doing'[t].phase = "count" /\ doing'[t].tool = tl /\ doing'[t].entry = perTool'[tl]
      BY <1>3, <1>6 DEF Held
    <3>2. QED
      BY <1>6, <3>1 DEF ThreadOK
  <2>2. \A u \in Threads \ {t} : ThreadOK(u)'
    BY <1>0, <1>3, <1>6, OtherThreads
  <2>3. QED
    BY <1>0, <1>2, <1>3, <1>6, <2>1, <2>2 DEF RecorderOK
<1>8. FiguresLack'
  <2>1. Proceeds(t, "insert", "count", o, tl)
    BY <1>3 DEF Proceeds
  <2>2. /\ \A l \in Latencies : Counted(latency'[l], latency[l], "insert" = "latency" /\ o \in Late(l))
        /\ \A tool \in Tools, p \in Outcomes :
              Counted(ToolState(tool)'.outcomes[p], ToolState(tool).outcomes[p], "insert" = "count" /\ tl = tool /\ o = p)
        /\ \A tool \in Tools, l \in Latencies :
              Counted(ToolState(tool)'.latency[l], ToolState(tool).latency[l], "insert" = "time" /\ tl = tool /\ o \in Late(l))
    BY <1>2, <1>6 DEF Counted
  <2>3. QED
    BY <1>0, <1>2, <2>1, <2>2, GoingOn
<1>9. QED
  BY <1>0, <1>2, <1>7, <1>8, Driving

\* What a thread counts for its tool, in the entry it holds, is counted for that tool alone.
LEMMA EntryCounts ==
    ASSUME RecorderOK, NEW tl \in Tools, perTool[tl] # 0, NEW new \in Counter,
           entries' = [entries EXCEPT ![perTool[tl]] = new], perTool' = perTool
    PROVE  /\ entries' \in Seq(Counter) /\ Len(entries') = Len(entries)
           /\ ToolState(tl)' = new
           /\ \A a \in Tools \ {tl} : ToolState(a)' = ToolState(a)
<1> DEFINE e == perTool[tl]
<1>1. /\ entries \in Seq(Counter) /\ \A a \in Tools : perTool[a] \in 0..Len(entries)
      /\ \A a, b \in Tools : perTool[a] = perTool[b] /\ perTool[a] # 0 => a = b
  BY DEF RecorderOK
<1>2. e \in 1..Len(entries)
  BY <1>1
<1>3. entries' = [entries EXCEPT ![e] = new]
  OBVIOUS
<1>4. ToolState(tl) = entries[e] /\ ToolState(tl)' = entries'[e]
  BY DEF ToolState
<1> HIDE DEF e
<1>5. /\ entries' \in Seq(Counter) /\ Len(entries') = Len(entries) /\ entries'[e] = new
      /\ \A i \in 1..Len(entries) : i # e => entries'[i] = entries[i]
  BY <1>1, <1>2, <1>3
<1>6. ASSUME NEW a \in Tools \ {tl} PROVE ToolState(a)' = ToolState(a)
  <2>1. perTool[a] # 0 => perTool[a] # e /\ perTool[a] \in 1..Len(entries)
    BY <1>1 DEF e
  <2>2. perTool[a] # 0 => entries'[perTool[a]] = entries[perTool[a]]
    BY <1>5, <2>1
  <2>3. QED
    BY <2>2 DEF ToolState
<1>7. QED
  BY <1>4, <1>5, <1>6

\* The tool's own counter.
LEMMA CountKeeps ==
    ASSUME FiguresInv, NEW t \in Threads, CountForTool(t)
    PROVE  FiguresInv'
<1>0. RecorderOK /\ FiguresLack /\ measured = "driving" /\ doing[t].phase = "count"
  BY BusyDrives DEF CountForTool
<1>1. doing[t] \in Held /\ ThreadOK(t)
  BY <1>0, ThreadKnows DEF RecorderOK
<1> PICK o \in Outcomes, tl \in Tools, e \in Nat : doing[t] = [phase |-> "count", outcome |-> o, tool |-> tl, entry |-> e]
  BY <1>0, <1>1 DEF Held
<1>2. e = perTool[tl] /\ perTool[tl] # 0
  BY <1>1 DEF ThreadOK
<1> DEFINE x == Bumped(entries[e].outcomes, o)
           new == [entries[e] EXCEPT !.outcomes = x]
           to == IF Contributes(o) THEN "time" ELSE "idle"
<1>3. /\ entries' = [entries EXCEPT ![e] = new]
      /\ doing' = [doing EXCEPT ![t] = IF Contributes(o) THEN [doing[t] EXCEPT !.phase = "time"] ELSE Idle]
      /\ setup' = setup /\ calls' = calls /\ outcomes' = outcomes /\ perTool' = perTool
      /\ samples' = samples /\ report' = report /\ measured' = measured /\ latency' = latency
  <2>0. doing[t].outcome = o /\ doing[t].entry = e
    OBVIOUS
  <2>1. entries' = [entries EXCEPT ![doing[t].entry].outcomes = Bumped(@, doing[t].outcome)]
    BY DEF CountForTool
  <2>2. doing' = [doing EXCEPT ![t] = IF Contributes(doing[t].outcome) THEN [doing[t] EXCEPT !.phase = "time"] ELSE Idle]
    BY DEF CountForTool
  <2>3. entries' = [entries EXCEPT ![e] = new]
    BY <2>0, <2>1 DEF Bumped
  <2>4. doing' = [doing EXCEPT ![t] = IF Contributes(o) THEN [doing[t] EXCEPT !.phase = "time"] ELSE Idle]
    BY <2>0, <2>2
  <2>5. QED
    BY <2>3, <2>4 DEF CountForTool
<1>4. /\ DOMAIN doing' = Threads /\ \A u \in Threads \ {t} : doing'[u] = doing[u]
      /\ doing'[t] = IF Contributes(o) THEN [phase |-> "time", outcome |-> o, tool |-> tl, entry |-> e] ELSE Idle
  <2>1. DOMAIN doing = Threads
    BY <1>0 DEF RecorderOK
  <2>2. [doing[t] EXCEPT !.phase = "time"] = [phase |-> "time", outcome |-> o, tool |-> tl, entry |-> e]
    OBVIOUS
  <2>3. doing'[t] = IF Contributes(o) THEN [doing[t] EXCEPT !.phase = "time"] ELSE Idle
    BY <1>3, <2>1
  <2>4. QED
    BY <1>3, <2>1, <2>2, <2>3
<1>5. ToolState(tl) = entries[e] /\ ToolState(tl) \in Counter
  BY <1>0, <1>2, FiguresAreNumbers DEF ToolState
<1>6. x \in [Outcomes -> Nat] /\ x[o] = entries[e].outcomes[o] + 1
      /\ \A p \in Outcomes : p # o => x[p] = entries[e].outcomes[p]
  BY <1>5 DEF Counter, Bumped
<1>7. new \in Counter /\ new.outcomes = x /\ new.latency = entries[e].latency
  BY <1>5, <1>6 DEF Counter
<1> HIDE DEF x, new
<1>8. /\ entries' \in Seq(Counter) /\ Len(entries') = Len(entries)
      /\ ToolState(tl)' = new
      /\ \A a \in Tools \ {tl} : ToolState(a)' = ToolState(a)
  BY <1>0, <1>2, <1>3, <1>7, EntryCounts
<1>9. ToolState(tl)'.outcomes = x /\ ToolState(tl)'.latency = ToolState(tl).latency
  BY <1>5, <1>7, <1>8
<1>10. RecorderOK'
  <2>1. ThreadOK(t)'
    <3>1. CASE Contributes(o)
      <4>1. /\ doing'[t] \in Held /\ doing'[t].phase = "time" /\ doing'[t].tool = tl
            /\ doing'[t].entry = e /\ doing'[t].outcome = o
        BY <1>4, <3>1 DEF Held
      <4>2. QED
        BY <1>2, <1>3, <3>1, <4>1 DEF ThreadOK
    <3>2. CASE ~Contributes(o)
      BY <1>4, <3>2 DEF ThreadOK, Idle
    <3>3. QED
      BY <3>1, <3>2
  <2>2. \A u \in Threads \ {t} : ThreadOK(u)'
    BY <1>0, <1>3, <1>4, OtherThreads
  <2>3. QED
    BY <1>0, <1>3, <1>4, <1>8, <2>1, <2>2 DEF RecorderOK
<1>11. FiguresLack'
  <2>1. Proceeds(t, "count", to, o, tl)
    BY <1>4 DEF Proceeds, Idle
  <2>2. \A l \in Latencies : Counted(latency'[l], latency[l], "count" = "latency" /\ o \in Late(l))
    BY <1>3 DEF Counted
  <2>3. \A tool \in Tools, p \in Outcomes :
           Counted(ToolState(tool)'.outcomes[p], ToolState(tool).outcomes[p], "count" = "count" /\ tl = tool /\ o = p)
    BY <1>5, <1>6, <1>8, <1>9 DEF Counted
  <2>4. \A tool \in Tools, l \in Latencies :
           Counted(ToolState(tool)'.latency[l], ToolState(tool).latency[l], "count" = "time" /\ tl = tool /\ o \in Late(l))
    BY <1>8, <1>9 DEF Counted
  <2> HIDE DEF to
  <2>5. QED
    BY <1>0, <1>3, <2>1, <2>2, <2>3, <2>4, GoingOn
<1>12. QED
  BY <1>0, <1>3, <1>10, <1>11, Driving

\* The tool's own latencies.
LEMMA TimeKeeps ==
    ASSUME FiguresInv, NEW t \in Threads, TimeForTool(t)
    PROVE  FiguresInv'
<1>0. RecorderOK /\ FiguresLack /\ measured = "driving" /\ doing[t].phase = "time"
  BY BusyDrives DEF TimeForTool
<1>1. doing[t] \in Held /\ ThreadOK(t)
  BY <1>0, ThreadKnows DEF RecorderOK
<1> PICK o \in Outcomes, tl \in Tools, e \in Nat : doing[t] = [phase |-> "time", outcome |-> o, tool |-> tl, entry |-> e]
  BY <1>0, <1>1 DEF Held
<1>2. e = perTool[tl] /\ perTool[tl] # 0 /\ Contributes(o)
  BY <1>1 DEF ThreadOK
<1> PICK k \in Latencies : k = LatencyOf(o)
  BY DEF LatencyOf, Latencies
<1> DEFINE x == [entries[e].latency EXCEPT ![k] = @ + 1]
           new == [entries[e] EXCEPT !.latency = x]
<1>3. /\ entries' = [entries EXCEPT ![e] = new]
      /\ doing' = [doing EXCEPT ![t] = Idle]
      /\ setup' = setup /\ calls' = calls /\ outcomes' = outcomes /\ perTool' = perTool
      /\ samples' = samples /\ report' = report /\ measured' = measured /\ latency' = latency
  <2>0. LatencyOf(doing[t].outcome) = k /\ doing[t].entry = e
    OBVIOUS
  <2>1. entries' = [entries EXCEPT ![doing[t].entry].latency = Bumped(@, LatencyOf(doing[t].outcome))]
    BY DEF TimeForTool
  <2>2. entries' = [entries EXCEPT ![e] = new]
    BY <2>0, <2>1 DEF Bumped
  <2>3. QED
    BY <2>2 DEF TimeForTool
<1>4. DOMAIN doing' = Threads /\ doing'[t] = Idle /\ \A u \in Threads \ {t} : doing'[u] = doing[u]
  BY <1>0, <1>3 DEF RecorderOK
<1>5. ToolState(tl) = entries[e] /\ ToolState(tl) \in Counter
  BY <1>0, <1>2, FiguresAreNumbers DEF ToolState
<1>6. /\ x \in [Latencies -> Nat]
      /\ \A l \in Latencies : x[l] = IF k = l THEN entries[e].latency[l] + 1 ELSE entries[e].latency[l]
  BY <1>5 DEF Counter
<1>7. new \in Counter /\ new.latency = x /\ new.outcomes = entries[e].outcomes
  BY <1>5, <1>6 DEF Counter
<1> HIDE DEF x, new
<1>8. /\ entries' \in Seq(Counter) /\ Len(entries') = Len(entries)
      /\ ToolState(tl)' = new
      /\ \A a \in Tools \ {tl} : ToolState(a)' = ToolState(a)
  BY <1>0, <1>2, <1>3, <1>7, EntryCounts
<1>9. ToolState(tl)'.latency = x /\ ToolState(tl)'.outcomes = ToolState(tl).outcomes
  BY <1>5, <1>7, <1>8
<1>10. RecorderOK'
  <2>1. ThreadOK(t)'
    BY <1>4 DEF ThreadOK, Idle
  <2>2. \A u \in Threads \ {t} : ThreadOK(u)'
    BY <1>0, <1>3, <1>4, OtherThreads
  <2>3. QED
    BY <1>0, <1>3, <1>4, <1>8, <2>1, <2>2 DEF RecorderOK
<1>11. FiguresLack'
  <2>1. Proceeds(t, "time", "idle", o, tl)
    BY <1>4 DEF Proceeds, Idle
  <2>2. \A l \in Latencies : Counted(latency'[l], latency[l], "time" = "latency" /\ o \in Late(l))
    BY <1>3 DEF Counted
  <2>3. \A tool \in Tools, p \in Outcomes :
           Counted(ToolState(tool)'.outcomes[p], ToolState(tool).outcomes[p], "time" = "count" /\ tl = tool /\ o = p)
    BY <1>8, <1>9 DEF Counted
  <2>4. \A tool \in Tools, l \in Latencies :
           Counted(ToolState(tool)'.latency[l], ToolState(tool).latency[l], "time" = "time" /\ tl = tool /\ o \in Late(l))
    <3>1. \A l \in Latencies : o \in Late(l) <=> k = l
      BY <1>2 DEF Late, LatencyOf, Latencies, Contributes
    <3>2. QED
      BY <1>5, <1>6, <1>8, <1>9, <3>1 DEF Counted
  <2>5. QED
    BY <1>0, <1>3, <2>1, <2>2, <2>3, <2>4, GoingOn
<1>12. QED
  BY <1>0, <1>3, <1>10, <1>11, Driving

-----------------------------------------------------------------------------
\* What the counters of one report add up to.
LEMMA TotalOfTwo ==
    ASSUME NEW f \in [Latencies -> Nat]
    PROVE  Total(f) = f[1] + f[2] /\ Total(Restrict(f, {1})) = f[1] /\ Total(Restrict(f, {1, 2})) = Total(f)
<1> DEFINE g == Restrict(f, {1})
           h == Restrict(f, {1, 2})
<1>1. /\ DOMAIN f = {1} \cup {2} /\ f[1] \in Int /\ f[2] \in Int
      /\ DOMAIN g = {1} /\ g[1] = f[1] /\ h = f
  BY DEF Latencies, Restrict
<1>2. IsFiniteSet({}) /\ {} \cup {1} = {1}
  BY FS_EmptySet
<1>3. IsFiniteSet({1}) /\ 2 \notin {1} /\ 1 \notin {}
  <2>1. IsFiniteSet({1})
    BY FS_Singleton
  <2>2. QED
    BY <2>1
<1>4. \A w : w[1] \in Int => SumFunctionOnSet(w, {1}) = w[1]
  <2> SUFFICES ASSUME NEW w, w[1] \in Int PROVE SumFunctionOnSet(w, {1}) = w[1]
    OBVIOUS
  <2>1. SumFunctionOnSet(w, {} \cup {1}) = SumFunctionOnSet(w, {}) + w[1]
    BY <1>2, <1>3, SumGrows
  <2>2. SumFunctionOnSet(w, {}) = 0
    BY SumOfNone
  <2>3. QED
    BY <1>2, <2>1, <2>2
<1>5. SumFunctionOnSet(f, {1} \cup {2}) = SumFunctionOnSet(f, {1}) + f[2]
  BY <1>1, <1>3, SumGrows
<1>6. SumFunctionOnSet(f, DOMAIN f) = f[1] + f[2]
  BY <1>1, <1>4, <1>5
<1>7. SumFunctionOnSet(g, DOMAIN g) = g[1]
  BY <1>1, <1>4
<1>8. QED
  BY <1>1, <1>6, <1>7 DEF Total, SumFunction

LEMMA TotalOfFour ==
    ASSUME NEW f \in [Outcomes -> Nat]
    PROVE  Total(f) = f["Success"] + f["Hang"] + f["ExpectedRejection"] + f["ServerError"]
<1> DEFINE A == {"Success"}
           B == A \cup {"Hang"}
           C == B \cup {"ExpectedRejection"}
           D == C \cup {"ServerError"}
<1>1. DOMAIN f = D /\ \A o \in D : f[o] \in Int
  BY DEF Outcomes
<1>2. IsFiniteSet({}) /\ IsFiniteSet(A) /\ A = {} \cup {"Success"}
  BY FS_EmptySet, FS_Singleton
<1>3. IsFiniteSet(B) /\ IsFiniteSet(C)
  BY <1>2, FS_AddElement
<1>4. "Success" \notin {} /\ "Hang" \notin A /\ "ExpectedRejection" \notin B /\ "ServerError" \notin C
  OBVIOUS
<1>5. A \subseteq D /\ B \subseteq D /\ C \subseteq D
  OBVIOUS
<1> HIDE DEF B, C, D
<1>6. SumFunctionOnSet(f, D) = SumFunctionOnSet(f, C) + f["ServerError"]
  BY <1>1, <1>3, <1>4, SumGrows DEF D
<1>7. SumFunctionOnSet(f, C) = SumFunctionOnSet(f, B) + f["ExpectedRejection"]
  BY <1>1, <1>3, <1>4, <1>5, SumGrows DEF C
<1>8. SumFunctionOnSet(f, B) = SumFunctionOnSet(f, A) + f["Hang"]
  BY <1>1, <1>2, <1>4, <1>5, SumGrows DEF B
<1>9. SumFunctionOnSet(f, {} \cup {"Success"}) = SumFunctionOnSet(f, {}) + f["Success"]
  BY <1>1, <1>2, <1>4, <1>5, SumGrows
<1>10. SumFunctionOnSet(f, A) = f["Success"]
  BY <1>1, <1>2, <1>5, <1>9, SumOfNone
<1>11. \A o \in Outcomes : f[o] \in Nat
  OBVIOUS
<1>12. SumFunctionOnSet(f, D) = f["Success"] + f["Hang"] + f["ExpectedRejection"] + f["ServerError"]
  BY <1>6, <1>7, <1>8, <1>10, <1>11 DEF Outcomes
<1>13. QED
  BY <1>1, <1>12 DEF Total, SumFunction

\* The calls of disjoint outcomes add up.
LEMMA MadeAdds ==
    ASSUME RecorderOK, NEW A, NEW B, A \cap B = {}, NEW T
    PROVE  Cardinality(Made(A \cup B, T)) = Cardinality(Made(A, T)) + Cardinality(Made(B, T))
<1>1. Made(A \cup B, T) = Made(A, T) \cup Made(B, T) /\ Made(A, T) \cap Made(B, T) = {}
  BY DEF Made
<1>2. IsFiniteSet(Made(A, T)) /\ IsFiniteSet(Made(B, T))
  BY FiguresFinite
<1>3. Cardinality(Made(A, T)) \in Nat /\ Cardinality(Made(B, T)) \in Nat
  BY FiguresFinite
<1>4. Cardinality(Made(A, T) \cup Made(B, T)) =
         Cardinality(Made(A, T)) + Cardinality(Made(B, T)) - Cardinality(Made(A, T) \cap Made(B, T))
  BY <1>2, FS_Union
<1>5. Cardinality(Made(A, T) \cap Made(B, T)) = 0
  BY <1>1, FS_EmptySet
<1>6. Cardinality(Made(A, T) \cup Made(B, T)) = Cardinality(Made(A, T)) + Cardinality(Made(B, T)) - 0
  BY <1>4, <1>5
<1>7. Cardinality(Made(A \cup B, T)) = Cardinality(Made(A, T)) + Cardinality(Made(B, T)) - 0
  BY <1>1, <1>6, Zenon
<1>8. QED
  BY <1>3, <1>7

\* When no thread has anything left to count, every figure is the number of the calls.
LEMMA NothingLacks ==
    ASSUME RecorderOK, FiguresLack, \A t \in Threads : doing[t] = Idle
    PROVE  /\ \A o \in Outcomes : outcomes[o] = Cardinality(Made({o}, Tools))
           /\ \A l \in Latencies : latency[l] = Cardinality(Made(Late(l), Tools))
           /\ \A tool \in Tools, o \in Outcomes : ToolState(tool).outcomes[o] = Cardinality(Made({o}, {tool}))
           /\ \A tool \in Tools, l \in Latencies : ToolState(tool).latency[l] = Cardinality(Made(Late(l), {tool}))
<1>1. \A P, O, T : "idle" \notin P => Yet(P, O, T) = {}
  BY DEF Yet, Idle
<1>2. \A P, O, T : "idle" \notin P => Cardinality(Yet(P, O, T)) = 0
  BY <1>1, FS_EmptySet
<1>3. \A n \in Nat : \A P, O, T : "idle" \notin P /\ Lacking(n, P, O, T) => n = Cardinality(Made(O, T))
  <2> SUFFICES ASSUME NEW n \in Nat, NEW P, NEW O, NEW T, "idle" \notin P, Lacking(n, P, O, T)
               PROVE  n = Cardinality(Made(O, T))
    OBVIOUS
  <2>1. n + Cardinality(Yet(P, O, T)) = Cardinality(Made(O, T))
    BY DEF Lacking
  <2>2. QED
    BY <1>2, <2>1
<1>4. "idle" \notin {} /\ "idle" \notin {"latency"} /\ "idle" \notin BeforeCount /\ "idle" \notin BeforeCount \cup {"time"}
  BY DEF BeforeCount
<1>5. ASSUME NEW o \in Outcomes PROVE outcomes[o] = Cardinality(Made({o}, Tools))
  <2>1. outcomes[o] \in Nat /\ Lacking(outcomes[o], {}, {o}, Tools)
    BY FiguresAreNumbers DEF FiguresLack
  <2>2. QED
    BY <1>3, <1>4, <2>1
<1>6. ASSUME NEW l \in Latencies PROVE latency[l] = Cardinality(Made(Late(l), Tools))
  <2>1. latency[l] \in Nat /\ Lacking(latency[l], {"latency"}, Late(l), Tools)
    BY FiguresAreNumbers DEF FiguresLack
  <2>2. QED
    BY <1>3, <1>4, <2>1
<1>7. ASSUME NEW tool \in Tools, NEW o \in Outcomes PROVE ToolState(tool).outcomes[o] = Cardinality(Made({o}, {tool}))
  <2>1. ToolState(tool).outcomes[o] \in Nat /\ Lacking(ToolState(tool).outcomes[o], BeforeCount, {o}, {tool})
    BY FiguresAreNumbers DEF FiguresLack, Counter
  <2>2. QED
    BY <1>3, <1>4, <2>1
<1>8. ASSUME NEW tool \in Tools, NEW l \in Latencies PROVE ToolState(tool).latency[l] = Cardinality(Made(Late(l), {tool}))
  <2>1. /\ ToolState(tool).latency[l] \in Nat
        /\ Lacking(ToolState(tool).latency[l], BeforeCount \cup {"time"}, Late(l), {tool})
    BY FiguresAreNumbers DEF FiguresLack, Counter
  <2>2. QED
    BY <1>3, <1>4, <2>1
<1>9. QED
  BY <1>5, <1>6, <1>7, <1>8

\* The totals of a report then.
LEMMA TotalsAreMade ==
    ASSUME RecorderOK, FiguresLack, \A t \in Threads : doing[t] = Idle
    PROVE  /\ Total(latency) = Cardinality(Made({"Success", "Hang"}, Tools))
           /\ Total(outcomes) = Cardinality(Made(Outcomes, Tools))
           /\ \A tool \in Tools : /\ Total(ToolState(tool).latency) = Cardinality(Made({"Success", "Hang"}, {tool}))
                                  /\ Total(ToolState(tool).outcomes) = Cardinality(Made(Outcomes, {tool}))
<1> DEFINE n(o, T) == Cardinality(Made({o}, T))
<1>1. ASSUME NEW T, NEW f \in [Latencies -> Nat], \A l \in Latencies : f[l] = Cardinality(Made(Late(l), T))
      PROVE  Total(f) = Cardinality(Made({"Success", "Hang"}, T))
  <2>1. Late(1) = {"Success"} /\ Late(2) = {"Hang"} /\ {"Success"} \cap {"Hang"} = {}
        /\ {"Success"} \cup {"Hang"} = {"Success", "Hang"}
    BY DEF Late
  <2>2. Total(f) = f[1] + f[2] /\ 1 \in Latencies /\ 2 \in Latencies
    BY TotalOfTwo DEF Latencies
  <2>3. f[1] = Cardinality(Made({"Success"}, T)) /\ f[2] = Cardinality(Made({"Hang"}, T))
    BY <1>1, <2>1, <2>2
  <2>4. Cardinality(Made({"Success"} \cup {"Hang"}, T)) = Cardinality(Made({"Success"}, T)) + Cardinality(Made({"Hang"}, T))
    BY <2>1, MadeAdds
  <2>5. QED
    BY <2>1, <2>2, <2>3, <2>4
<1>2. ASSUME NEW T, NEW f \in [Outcomes -> Nat], \A o \in Outcomes : f[o] = n(o, T)
      PROVE  Total(f) = Cardinality(Made(Outcomes, T))
  <2> DEFINE A == {"Success"}
             B == A \cup {"Hang"}
             C == B \cup {"ExpectedRejection"}
             D == C \cup {"ServerError"}
  <2>1. Outcomes = D /\ A \cap {"Hang"} = {} /\ B \cap {"ExpectedRejection"} = {} /\ C \cap {"ServerError"} = {}
    BY DEF Outcomes
  <2>2. Total(f) = f["Success"] + f["Hang"] + f["ExpectedRejection"] + f["ServerError"]
    BY TotalOfFour
  <2> HIDE DEF B, C, D, n
  <2>3. /\ f["Success"] = n("Success", T) /\ f["Hang"] = n("Hang", T)
        /\ f["ExpectedRejection"] = n("ExpectedRejection", T) /\ f["ServerError"] = n("ServerError", T)
    BY <1>2 DEF Outcomes
  <2>4. Cardinality(Made(D, T)) = Cardinality(Made(C, T)) + n("ServerError", T)
    BY <2>1, MadeAdds DEF D, n
  <2>5. Cardinality(Made(C, T)) = Cardinality(Made(B, T)) + n("ExpectedRejection", T)
    BY <2>1, MadeAdds DEF C, n
  <2>6. Cardinality(Made(B, T)) = Cardinality(Made(A, T)) + n("Hang", T)
    BY <2>1, MadeAdds DEF B, n
  <2>7. Cardinality(Made(A, T)) = n("Success", T)
    BY DEF n
  <2>8. QED
    BY <2>1, <2>2, <2>3, <2>4, <2>5, <2>6, <2>7
<1>3. latency \in [Latencies -> Nat] /\ outcomes \in [Outcomes -> Nat]
  BY DEF RecorderOK
<1>4. \A tool \in Tools : ToolState(tool).latency \in [Latencies -> Nat] /\ ToolState(tool).outcomes \in [Outcomes -> Nat]
  BY FiguresAreNumbers DEF Counter
<1>5. Total(latency) = Cardinality(Made({"Success", "Hang"}, Tools))
  BY <1>1, <1>3, NothingLacks
<1>6. Total(outcomes) = Cardinality(Made(Outcomes, Tools))
  BY <1>2, <1>3, NothingLacks
<1>7. \A tool \in Tools : Total(ToolState(tool).latency) = Cardinality(Made({"Success", "Hang"}, {tool}))
  BY <1>1, <1>4, NothingLacks
<1>8. \A tool \in Tools : Total(ToolState(tool).outcomes) = Cardinality(Made(Outcomes, {tool}))
  BY <1>2, <1>4, NothingLacks
<1>9. QED
  BY <1>5, <1>6, <1>7, <1>8

\* What is known of every call.
LEMMA CallsAreKnown ==
    ASSUME RecorderOK
    PROVE  \A i \in DOMAIN calls :
              calls[i].outcome \in Outcomes /\ calls[i].tool \in Tools /\ calls[i].by \in setup.servers
<1> DEFINE C == [outcome : Outcomes, tool : Tools, by : setup.servers]
<1>1. calls \in Seq(C)
  BY DEF RecorderOK
<1>2. \A c \in C : c.outcome \in Outcomes /\ c.tool \in Tools /\ c.by \in setup.servers
  OBVIOUS
<1> HIDE DEF C
<1>3. \A i \in DOMAIN calls : calls[i] \in C
  BY <1>1
<1>4. QED
  BY <1>2, <1>3

\* Once drive has returned nothing is missing.
LEMMA AllAreRecorded == FiguresInv => EveryCallRecorded
<1> SUFFICES ASSUME FiguresInv, measured # "driving" PROVE EveryCallRecorded
  BY DEF EveryCallRecorded
<1>1. RecorderOK /\ FiguresLack /\ \A t \in Threads : doing[t] = Idle
  BY DEF FiguresInv
<1>2. \A i \in DOMAIN calls : calls[i].outcome \in Outcomes /\ calls[i].tool \in Tools
  BY <1>1, CallsAreKnown
<1>3. \A o \in Outcomes : outcomes[o] = CallsWith(LAMBDA c : c.outcome = o)
  <2>1. \A o \in Outcomes : Made({o}, Tools) = {i \in DOMAIN calls : calls[i].outcome = o}
    BY <1>2 DEF Made
  <2>2. QED
    BY <1>1, <2>1, NothingLacks DEF CallsWith
<1>4. Total(latency) = CallsWith(LAMBDA c : Contributes(c.outcome))
  <2>1. Made({"Success", "Hang"}, Tools) = {i \in DOMAIN calls : Contributes(calls[i].outcome)}
    BY <1>2 DEF Made, Contributes
  <2>2. QED
    BY <1>1, <2>1, TotalsAreMade DEF CallsWith
<1>5. \A tool \in Tools : Total(ToolState(tool).outcomes) = CallsWith(LAMBDA c : c.tool = tool)
  <2>1. \A tool \in Tools : Made(Outcomes, {tool}) = {i \in DOMAIN calls : calls[i].tool = tool}
    BY <1>2 DEF Made
  <2>2. QED
    BY <1>1, <2>1, TotalsAreMade DEF CallsWith
<1>6. \A tool \in Tools : Total(ToolState(tool).latency) = CallsWith(LAMBDA c : c.tool = tool /\ Contributes(c.outcome))
  <2>1. \A tool \in Tools : Made({"Success", "Hang"}, {tool}) =
                              {i \in DOMAIN calls : calls[i].tool = tool /\ Contributes(calls[i].outcome)}
    BY <1>2 DEF Made, Contributes
  <2>2. QED
    BY <1>1, <2>1, TotalsAreMade DEF CallsWith
<1>7. QED
  BY <1>3, <1>4, <1>5, <1>6 DEF EveryCallRecorded

\* A percentile that is not late: the calls of the first value are that share of all.
LEMMA NotTooSlow ==
    ASSUME NEW f \in [Latencies -> Nat], NEW percent \in Nat, percent <= 100, ~TooSlow(f, percent)
    PROVE  f[1] + f[2] # 0 /\ 100 * f[1] >= percent * (f[1] + f[2])
<1> DEFINE held(v) == Total(Restrict(f, {u \in Latencies : u <= v}))
           S == {v \in Latencies : 100 * held(v) >= percent * Total(f)}
<1>1. f[1] \in Nat /\ f[2] \in Nat
  BY DEF Latencies
<1>2. {u \in Latencies : u <= 1} = {1} /\ {u \in Latencies : u <= 2} = {1, 2}
  BY DEF Latencies
<1>3. held(1) = f[1] /\ held(2) = f[1] + f[2] /\ Total(f) = f[1] + f[2]
  BY <1>2, TotalOfTwo
<1>4. Total(f) # 0 /\ ~(Min(S) > 1)
  BY DEF TooSlow, Quantile
<1> DEFINE n == f[1] + f[2]
<1>5. n \in Nat /\ 100 * n >= percent * n
  <2>1. n \in Nat
    BY <1>1
  <2> HIDE DEF n
  <2>2. QED
    BY <2>1
<1>6. 2 \in S
  BY <1>3, <1>5 DEF Latencies
<1>7. \A v \in S : v = 1 \/ v = 2
  BY DEF Latencies
<1> HIDE DEF held
<1>8. Min(S) \in S
  <2>1. \E x \in S : \A y \in S : x <= y
    <3>1. CASE 1 \in S
      <4>1. \A y \in S : 1 <= y
        BY <1>7
      <4>2. QED
        BY <3>1, <4>1
    <3>2. CASE 1 \notin S
      <4>1. \A y \in S : 2 <= y
        BY <1>7, <3>2
      <4>2. QED
        BY <1>6, <4>1
    <3>3. QED
      BY <3>1, <3>2
  <2> HIDE DEF S
  <2>2. QED
    BY <2>1, Zenon DEF Min
<1>9. 1 \in S
  <2>1. Min(S) = 1 \/ Min(S) = 2
    BY <1>7, <1>8
  <2>2. Min(S) = 1
    BY <1>4, <2>1
  <2>3. QED
    BY <1>8, <2>2
<1>10. QED
  BY <1>3, <1>4, <1>9

\* What lacks does not change while nothing is recorded.
LEMMA FiguresSame ==
    ASSUME RecorderOK, FiguresLack, UNCHANGED <<setup, calls, doing, outcomes, latency, perTool, entries>>
    PROVE  RecorderOK' /\ FiguresLack'
<1>1. /\ setup' = setup /\ calls' = calls /\ doing' = doing /\ outcomes' = outcomes /\ latency' = latency
      /\ perTool' = perTool /\ entries' = entries
  OBVIOUS
<1>2. RecorderOK'
  BY <1>1 DEF RecorderOK, ThreadOK
<1>3. \A P, O, T : Yet(P, O, T)' = Yet(P, O, T) /\ Made(O, T)' = Made(O, T)
  BY <1>1 DEF Yet, Made
<1>4. \A tool \in Tools : ToolState(tool)' = ToolState(tool)
  BY <1>1 DEF ToolState
<1>5. \A o \in Outcomes : Lacking(outcomes[o], {}, {o}, Tools)'
  BY <1>1, <1>3 DEF FiguresLack, Lacking
<1>6. \A l \in Latencies : Lacking(latency[l], {"latency"}, Late(l), Tools)'
  BY <1>1, <1>3 DEF FiguresLack, Lacking
<1>7. ASSUME NEW tool \in Tools, NEW o \in Outcomes
      PROVE  Lacking(ToolState(tool).outcomes[o], BeforeCount, {o}, {tool})'
  <2>1. Lacking(ToolState(tool).outcomes[o], BeforeCount, {o}, {tool})
    BY DEF FiguresLack
  <2>2. QED
    BY <1>3, <1>4, <2>1 DEF Lacking
<1>8. ASSUME NEW tool \in Tools, NEW l \in Latencies
      PROVE  Lacking(ToolState(tool).latency[l], BeforeCount \cup {"time"}, Late(l), {tool})'
  <2>1. Lacking(ToolState(tool).latency[l], BeforeCount \cup {"time"}, Late(l), {tool})
    BY DEF FiguresLack
  <2>2. QED
    BY <1>3, <1>4, <2>1 DEF Lacking
<1>9. QED
  BY <1>2, <1>5, <1>6, <1>7, <1>8 DEF FiguresLack

\* drive returns: what was sampled is of the process that served all calls, if anything is.
LEMMA SamplingKeeps ==
    ASSUME FiguresInv, Sampled
    PROVE  FiguresInv'
<1>1. /\ setup' = setup /\ calls' = calls /\ doing' = doing /\ outcomes' = outcomes /\ latency' = latency
      /\ perTool' = perTool /\ entries' = entries /\ report' = report /\ measured' = "sampled"
      /\ \A t \in Threads : doing[t] = Idle
  BY DEF Sampled
<1>2. RecorderOK' /\ FiguresLack'
  BY <1>1, FiguresSame DEF FiguresInv
<1>3. SamplesOK'
  <2>1. CASE setup.stdio /\ "factory" \notin setup.servers
    <3>1. setup.servers = {"first"}
      <4>1. setup \in Setups
        BY DEF FiguresInv, RecorderOK
      <4>2. setup.servers \in SUBSET {"first", "factory"} /\ setup.servers # {}
        BY <4>1 DEF Setups, Servers
      <4>3. QED
        BY <2>1, <4>2
    <3>2. samples' \in SampleLoops
      BY <2>1 DEF Sampled
    <3>3. PICK n \in 0..MaxSamples : samples' \in [1..n -> [at : 1..(2 * MaxSamples), rss : 0..2, of : {"first"}]]
      BY <3>2 DEF SampleLoops
    <3>4. DOMAIN samples' = 1..n /\ n \in Nat
      BY <3>3, MeasurementAssumption
    <3>5. Len(samples') <= MaxSamples
      BY <3>3, <3>4, MeasurementAssumption
    <3>6. \A i \in 1..n : samples'[i].of = "first"
      BY <3>3
    <3>7. \A s \in Range(samples') : s.of = "first"
      BY <3>4, <3>6 DEF Range
    <3>8. QED
      BY <1>1, <3>1, <3>5, <3>7 DEF SamplesOK
  <2>2. CASE ~(setup.stdio /\ "factory" \notin setup.servers)
    <3>1. samples' = <<>>
      BY <2>2 DEF Sampled
    <3>2. Len(<<>>) <= MaxSamples
      BY MeasurementAssumption
    <3>3. QED
      BY <3>1, <3>2 DEF SamplesOK
  <2>3. QED
    BY <2>1, <2>2
<1>4. QED
  BY <1>1, <1>2, <1>3 DEF FiguresInv, LimitsAreMet

\* The thresholds are held against the figures of all calls.
LEMMA ReportKeeps ==
    ASSUME FiguresInv, ReportBuilt
    PROVE  FiguresInv'
<1>1. /\ setup' = setup /\ calls' = calls /\ doing' = doing /\ outcomes' = outcomes /\ latency' = latency
      /\ perTool' = perTool /\ entries' = entries /\ samples' = samples /\ measured' = "reported"
      /\ report' = {k \in Kinds : Violated(k)} /\ \A t \in Threads : doing[t] = Idle
  BY DEF ReportBuilt, FiguresInv
<1>2. RecorderOK /\ FiguresLack /\ SamplesOK
  BY DEF FiguresInv
<1>3. RecorderOK' /\ FiguresLack' /\ SamplesOK'
  BY <1>1, <1>2, FiguresSame DEF SamplesOK
<1> DEFINE N(O) == Cardinality(Made(O, Tools))
<1>4. /\ \A i \in DOMAIN calls : calls[i].outcome \in Outcomes /\ calls[i].tool \in Tools
      /\ calls \in Seq([outcome : Outcomes, tool : Tools, by : setup.servers])
  BY <1>2, CallsAreKnown DEF RecorderOK
<1>5. \A O : IsFiniteSet(Made(O, Tools)) /\ N(O) \in Nat
  BY <1>2, FiguresFinite
<1>6. latency[1] = N({"Success"}) /\ latency[2] = N({"Hang"}) /\ latency \in [Latencies -> Nat]
  <2>1. Late(1) = {"Success"} /\ Late(2) = {"Hang"} /\ 1 \in Latencies /\ 2 \in Latencies
    BY DEF Late, Latencies
  <2>2. QED
    BY <1>1, <1>2, <2>1, NothingLacks DEF RecorderOK
<1>7. CallsWith(LAMBDA c : c.outcome = "Hang")' = N({"Hang"}) /\ CallsWith(LAMBDA c : c.outcome = "Success")' = N({"Success"})
  <2>1. /\ Made({"Hang"}, Tools) = {i \in DOMAIN calls : calls[i].outcome = "Hang"}
        /\ Made({"Success"}, Tools) = {i \in DOMAIN calls : calls[i].outcome = "Success"}
    BY <1>4 DEF Made
  <2>2. QED
    BY <1>1, <2>1 DEF CallsWith
<1>8. "p99" \notin report' => /\ \E i \in DOMAIN calls : Contributes(calls[i].outcome)
                              /\ 99 * N({"Hang"}) <= N({"Success"})
  <2> SUFFICES ASSUME "p99" \notin report' PROVE /\ \E i \in DOMAIN calls : Contributes(calls[i].outcome)
                                                 /\ 99 * N({"Hang"}) <= N({"Success"})
    OBVIOUS
  <2>1. ~TooSlow(latency, 99)
    BY <1>1 DEF Kinds, Violated
  <2>2. latency[1] + latency[2] # 0 /\ 100 * latency[1] >= 99 * (latency[1] + latency[2])
    BY <1>6, <2>1, NotTooSlow
  <2>3. N({"Success"}) # 0 \/ N({"Hang"}) # 0
    BY <1>6, <2>2
  <2>4. Made({"Success"}, Tools) # {} \/ Made({"Hang"}, Tools) # {}
    BY <2>3, FS_EmptySet
  <2>5. \E i \in DOMAIN calls : Contributes(calls[i].outcome)
    BY <2>4 DEF Made, Contributes
  <2>6. 99 * N({"Hang"}) <= N({"Success"})
    <3> DEFINE a == N({"Success"})
               b == N({"Hang"})
    <3>1. a \in Nat /\ b \in Nat /\ 100 * a >= 99 * (a + b)
      BY <1>5, <1>6, <2>2
    <3> HIDE DEF a, b
    <3>2. 99 * b <= a
      BY <3>1
    <3>3. QED
      BY <3>2 DEF a, b
  <2>7. QED
    BY <2>5, <2>6
<1>9. "p50" \notin report' => N({"Hang"}) <= N({"Success"})
  <2> SUFFICES ASSUME "p50" \notin report' PROVE N({"Hang"}) <= N({"Success"})
    OBVIOUS
  <2>1. ~TooSlow(latency, 50)
    BY <1>1 DEF Kinds, Violated
  <2>2. 100 * latency[1] >= 50 * (latency[1] + latency[2])
    BY <1>6, <2>1, NotTooSlow
  <2> DEFINE a == N({"Success"})
             b == N({"Hang"})
  <2>3. a \in Nat /\ b \in Nat /\ 100 * a >= 50 * (a + b)
    BY <1>5, <1>6, <2>2
  <2> HIDE DEF a, b
  <2>4. b <= a
    BY <2>3
  <2>5. QED
    BY <2>4 DEF a, b
<1>10. "error_rate" \notin report' =>
         calls # <<>> /\ Len(calls) >= 2 * CallsWith(LAMBDA c : c.outcome \in {"Hang", "ServerError"})'
  <2> SUFFICES ASSUME "error_rate" \notin report'
               PROVE  calls # <<>> /\ Len(calls) >= 2 * CallsWith(LAMBDA c : c.outcome \in {"Hang", "ServerError"})'
    OBVIOUS
  <2> DEFINE good == outcomes["Success"] + outcomes["ExpectedRejection"]
             bad == N({"Hang"} \cup {"ServerError"})
  <2>1. Total(outcomes) # 0 /\ ~(2 * (Total(outcomes) - good) > Total(outcomes))
    BY <1>1 DEF Kinds, Violated
  <2>2. Total(outcomes) = Len(calls) /\ Len(calls) \in Nat
    <3>1. Made(Outcomes, Tools) = 1..Len(calls) /\ Len(calls) \in Nat
      BY <1>4 DEF Made
    <3>2. \A n \in Nat : Cardinality(1..n) = n
      <4> SUFFICES ASSUME NEW n \in Nat PROVE Cardinality(1..n) = n
        OBVIOUS
      <4>1. Cardinality(1..n) = IF 1 > n THEN 0 ELSE n - 1 + 1
        BY FS_Interval
      <4>2. QED
        BY <4>1
    <3>3. QED
      BY <1>1, <1>2, <3>1, <3>2, TotalsAreMade
  <2>3. Total(outcomes) = outcomes["Success"] + outcomes["Hang"] + outcomes["ExpectedRejection"] + outcomes["ServerError"]
        /\ \A o \in Outcomes : outcomes[o] \in Nat
    BY <1>2, TotalOfFour DEF RecorderOK
  <2>4. bad = outcomes["Hang"] + outcomes["ServerError"]
    <3>1. {"Hang"} \cap {"ServerError"} = {} /\ "Hang" \in Outcomes /\ "ServerError" \in Outcomes
      BY DEF Outcomes
    <3>2. bad = N({"Hang"}) + N({"ServerError"})
      BY <1>2, <3>1, MadeAdds
    <3>3. QED
      BY <1>1, <1>2, <3>1, <3>2, NothingLacks
  <2>5. CallsWith(LAMBDA c : c.outcome \in {"Hang", "ServerError"})' = bad
    <3>1. Made({"Hang"} \cup {"ServerError"}, Tools) = {i \in DOMAIN calls : calls[i].outcome \in {"Hang", "ServerError"}}
      BY <1>4 DEF Made
    <3>2. QED
      BY <1>1, <3>1 DEF CallsWith
  <2> HIDE DEF bad
  <2>6. Len(calls) >= 2 * bad /\ Len(calls) # 0
    BY <2>1, <2>2, <2>3, <2>4 DEF Outcomes
  <2>7. QED
    BY <2>5, <2>6
<1>11. \A tool \in Tools : tool \notin report' => \E i \in DOMAIN calls : calls[i].tool = tool
  <2> SUFFICES ASSUME NEW tool \in Tools, tool \notin report' PROVE \E i \in DOMAIN calls : calls[i].tool = tool
    OBVIOUS
  <2>1. tool \in Kinds /\ ~Violated(tool)
    BY <1>1 DEF Kinds
  <2>2. tool # "p50" /\ tool # "p99" /\ tool # "error_rate" /\ tool # "memory" /\ tool # "slope"
    BY MeasurementAssumption
  <2>3. ~TooSlow(ToolState(tool).latency, 99)
    BY <2>1, <2>2 DEF Violated
  <2>4. Total(ToolState(tool).latency) # 0
    BY <2>3 DEF TooSlow
  <2>5. Made({"Success", "Hang"}, {tool}) # {}
    BY <1>1, <1>2, <2>4, TotalsAreMade, FS_EmptySet
  <2>6. QED
    BY <2>5 DEF Made
<1>12. \/ {"memory", "slope"} \subseteq report'
       \/ samples # <<>> /\ \A i \in DOMAIN calls, s \in Range(samples) : s.of = calls[i].by
  <2>1. CASE samples = <<>>
    <3>1. Violated("memory") /\ Violated("slope")
      BY <2>1 DEF Violated, MinSlopeSamples
    <3>2. QED
      BY <1>1, <3>1 DEF Kinds
  <2>2. CASE samples # <<>>
    BY <1>2, <2>2, CallsAreKnown DEF SamplesOK
  <2>3. QED
    BY <2>1, <2>2
<1>13. LimitsAreMet'
  <2> HIDE DEF N
  <2>1. /\ "p99" \notin report' => \E i \in DOMAIN calls' : Contributes(calls'[i].outcome)
        /\ "p99" \notin report' => 99 * CallsWith(LAMBDA c : c.outcome = "Hang")' <= CallsWith(LAMBDA c : c.outcome = "Success")'
        /\ "p50" \notin report' => CallsWith(LAMBDA c : c.outcome = "Hang")' <= CallsWith(LAMBDA c : c.outcome = "Success")'
    BY <1>1, <1>7, <1>8, <1>9
  <2>2. "error_rate" \notin report' =>
           calls' # <<>> /\ Len(calls') >= 2 * CallsWith(LAMBDA c : c.outcome \in {"Hang", "ServerError"})'
    BY <1>1, <1>10
  <2>3. /\ \A tool \in Tools : tool \notin report' => \E i \in DOMAIN calls' : calls'[i].tool = tool
        /\ \/ {"memory", "slope"} \subseteq report'
           \/ samples' # <<>> /\ \A i \in DOMAIN calls', s \in Range(samples') : s.of = calls'[i].by
    BY <1>1, <1>11, <1>12
  <2>4. QED
    BY <2>1, <2>2, <2>3 DEF LimitsAreMet, CallsWith
<1>14. QED
  BY <1>1, <1>3, <1>13 DEF FiguresInv

\* A step of the measurement keeps the figures, and so does a step of anything else.
LEMMA FiguresKeep == FiguresInv /\ MeasureStep => FiguresInv'
BY CallEndKeeps, LatencyKeeps, LookUpKeeps, InsertKeeps, CountKeeps, TimeKeeps, SamplingKeeps, ReportKeeps
   DEF MeasureStep, RecordTool

LEMMA FiguresStutter == FiguresInv /\ UNCHANGED measureVars => FiguresInv'
<1> SUFFICES ASSUME FiguresInv, UNCHANGED measureVars PROVE FiguresInv'
  OBVIOUS
<1>1. /\ setup' = setup /\ calls' = calls /\ doing' = doing /\ outcomes' = outcomes /\ latency' = latency
      /\ perTool' = perTool /\ entries' = entries /\ samples' = samples /\ report' = report /\ measured' = measured
  BY DEF measureVars
<1>2. RecorderOK' /\ FiguresLack'
  BY <1>1, FiguresSame DEF FiguresInv
<1>3. SamplesOK' /\ LimitsAreMet'
  BY <1>1 DEF FiguresInv, SamplesOK, LimitsAreMet, CallsWith
<1>4. QED
  BY <1>1, <1>2, <1>3 DEF FiguresInv

LEMMA FiguresBegin == MeasureInit => FiguresInv
<1> SUFFICES ASSUME MeasureInit PROVE FiguresInv
  OBVIOUS
<1>1. /\ setup \in Setups /\ calls = <<>> /\ doing = [t \in Threads |-> Idle]
      /\ outcomes = Nothing /\ latency = NoLatency /\ perTool = [tool \in Tools |-> 0] /\ entries = <<>>
      /\ samples = <<>> /\ report = {} /\ measured = "driving"
  BY DEF MeasureInit
<1>2. RecorderOK
  <2>1. \A t \in Threads : ThreadOK(t)
    BY <1>1 DEF ThreadOK, Idle
  <2>2. outcomes \in [Outcomes -> Nat] /\ latency \in [Latencies -> Nat]
    BY <1>1 DEF Nothing, NoLatency
  <2>3. calls \in Seq([outcome : Outcomes, tool : Tools, by : setup.servers]) /\ Len(calls) <= MaxCalls
    BY <1>1, MeasurementAssumption
  <2>4. entries \in Seq(Counter) /\ perTool \in [Tools -> 0..Len(entries)]
    BY <1>1
  <2>5. QED
    BY <1>1, <2>1, <2>2, <2>3, <2>4 DEF RecorderOK
<1>3. FiguresLack
  <2>1. \A P, O, T : Cardinality(Made(O, T)) = 0 /\ ("idle" \notin P => Cardinality(Yet(P, O, T)) = 0)
    <3>1. \A P, O, T : Made(O, T) = {} /\ ("idle" \notin P => Yet(P, O, T) = {})
      BY <1>1 DEF Made, Yet, Idle
    <3>2. QED
      BY <3>1, FS_EmptySet
  <2>2. \A P, O, T : "idle" \notin P => Lacking(0, P, O, T)
    BY <2>1 DEF Lacking
  <2>3. /\ \A o \in Outcomes : outcomes[o] = 0
        /\ \A l \in Latencies : latency[l] = 0
        /\ \A tool \in Tools : /\ \A o \in Outcomes : ToolState(tool).outcomes[o] = 0
                               /\ \A l \in Latencies : ToolState(tool).latency[l] = 0
    BY <1>1 DEF ToolState, Nothing, NoLatency
  <2>4. "idle" \notin {} /\ "idle" \notin {"latency"} /\ "idle" \notin BeforeCount /\ "idle" \notin BeforeCount \cup {"time"}
    BY DEF BeforeCount
  <2>5. QED
    BY <2>2, <2>3, <2>4 DEF FiguresLack
<1>4. SamplesOK /\ LimitsAreMet
  BY <1>1, MeasurementAssumption DEF SamplesOK, LimitsAreMet
<1>5. QED
  BY <1>1, <1>2, <1>3, <1>4 DEF FiguresInv

\* What the invariant says of a report.
LEMMA FiguresShow == FiguresInv => FiguresAreTrue
<1> SUFFICES ASSUME FiguresInv PROVE FiguresAreTrue
  OBVIOUS
<1>1. RecorderOK /\ SamplesOK /\ LimitsAreMet /\ report \subseteq Kinds /\ measured \in {"driving", "sampled", "reported"}
  BY DEF FiguresInv
<1>2. \A t \in Threads : doing[t].phase \in {"idle", "latency", "look", "insert", "count", "time"}
  BY <1>1, ThreadKnows DEF Idle, Job, Held
<1>3. MeasureTypeOK
  BY <1>1, <1>2 DEF MeasureTypeOK, RecorderOK, SamplesOK
<1>4. QED
  BY <1>1, <1>3, AllAreRecorded DEF FiguresAreTrue

-----------------------------------------------------------------------------
(***************************************************************************)
(* A trace and its replay.                                                 *)
(***************************************************************************)
Places == 1..Len(trace)

\* A session has one frame of a kind for each of its ids, an answer follows its request,
\* and while the writer works no session is behind its frames.
FramesAreOwn ==
    /\ \A i, j \in Places : /\ trace[i].dir = trace[j].dir /\ trace[i].id # 0 /\ OwnAnswer(i, j)
                            => i = j
    /\ \A j \in Places : trace[j].dir = "s2c" =>
          /\ trace[j].id # 0
          /\ \E i \in 1..(j - 1) : trace[i].dir = "c2s" /\ OwnAnswer(i, j) /\ trace[i].method = trace[j].method

\* What session s waits for is a request in the file that has no answer there.
Awaits(s) ==
    /\ asking[s].id <= asked[s]
    /\ asking[s].method \in Methods
    /\ \E i \in Places : /\ trace[i].dir = "c2s" /\ trace[i].session = s
                         /\ trace[i].id = asking[s].id /\ trace[i].method = asking[s].method
    /\ \A j \in Places : trace[j].dir = "s2c" /\ trace[j].session = s => trace[j].id # asking[s].id

SessionsAreAhead == \A s \in Sessions :
    /\ \A i \in Places : trace[i].session = s => trace[i].id <= asked[s]
    /\ asking[s].id # 0 => Awaits(s)

\* The requests that were paired with an answer.
Paired == {c[1] : c \in consumed}

PairsAreMade ==
    /\ score \in [total : Nat, matched : Nat, diverged : Nat]
    /\ score.total = score.matched + score.diverged /\ score.total = Cardinality(consumed)
    /\ IsFiniteSet(consumed) /\ Cardinality(Paired) = Cardinality(consumed)
    /\ \A c \in consumed : \E i \in 1..at : \E j \in (i + 1)..Len(trace) :
          c = <<i, j>> /\ trace[i].dir = "c2s" /\ trace[j].dir = "s2c" /\ trace[i].id = trace[j].id /\ trace[i].id # 0
    /\ \A c, d \in consumed : c[2] = d[2] => c = d

\* In the trace of one session every request that has an answer is paired.
PairsOfOneSession == OneSession =>
    /\ \A i \in 1..at : trace[i].dir = "c2s" /\ HasAnswer(i) => i \in Paired
    /\ IF server = "same" THEN score.diverged = 0 ELSE score.matched = 0

ReplayInv ==
    /\ ReplayTypeOK /\ FramesAreOwn
    /\ asked \in [Sessions -> Nat] /\ asking \in [Sessions -> [id : Nat, method : Methods \cup {"none"}]]
    /\ replay = "recording" /\ ~closed => SessionsAreAhead
    /\ replay = "recording" => at = 0 /\ server = "same"
    /\ replay = "recording" => consumed = {} /\ score = [total |-> 0, matched |-> 0, diverged |-> 0]
    /\ PairsAreMade /\ PairsOfOneSession
    /\ replay = "done" => at = Len(trace)

RecordedFrames == {f \in Frames : f.id <= MaxRequests[f.session]}

\* A trace of one session holds the frames of no other.
LEMMA OneSessionAlone ==
    ASSUME trace \in Seq(RecordedFrames), OneSession, NEW i \in Places, NEW j \in Places
    PROVE  trace[i].session = trace[j].session
<1> DEFINE S == {f.session : f \in Range(trace)}
           g == [k \in Places |-> trace[k].session]
<1>1. \A f \in Range(trace) : \E k \in Places : f = trace[k]
  BY DEF Range, Places
<1>2. \A k \in Places : trace[k] \in Range(trace)
  BY DEF Range, Places
<1>3. g \in Surjection(Places, S)
  <2>1. g \in [Places -> S]
    BY <1>2
  <2>2. \A s \in S : \E k \in Places : g[k] = s
    BY <1>1
  <2>3. QED
    BY <2>1, <2>2 DEF Surjection
<1>4. IsFiniteSet(S)
  BY <1>3, FS_Surjection, FS_Interval DEF Places
<1> DEFINE a == trace[i].session
           b == trace[j].session
<1>5. a \in S /\ b \in S
  BY <1>2
<1> HIDE DEF S, a, b
<1>6. SUFFICES ASSUME a # b PROVE FALSE
  BY DEF a, b
<1> DEFINE A == {a}
           U == A \cup {b}
<1>7. IsFiniteSet(A) /\ Cardinality(A) = 1 /\ b \notin A /\ U \subseteq S
  BY <1>5, <1>6, FS_Singleton
<1> HIDE DEF A
<1>8. Cardinality(U) = Cardinality(A) + 1
  BY <1>7, FS_AddElement
<1>9. Cardinality(U) <= Cardinality(S)
  BY <1>4, <1>7, FS_Subset
<1>10. Cardinality(S) <= 1
  BY DEF OneSession, S
<1>11. Cardinality(S) \in Nat
  BY <1>4, FS_CardinalityType
<1> HIDE DEF U
<1>12. QED
  BY <1>7, <1>8, <1>9, <1>10, <1>11

\* A frame that is recorded is new to the file.
LEMMA FrameIsRecorded ==
    ASSUME trace \in Seq(RecordedFrames), FramesAreOwn, NEW f \in RecordedFrames, trace' = Append(trace, f),
           f.id # 0 => \A i \in Places : ~(trace[i].dir = f.dir /\ trace[i].session = f.session /\ trace[i].id = f.id),
           f.dir = "s2c" => /\ f.id # 0
                            /\ \E i \in Places : /\ trace[i].dir = "c2s" /\ trace[i].session = f.session
                                                 /\ trace[i].id = f.id /\ trace[i].method = f.method
    PROVE  /\ trace' \in Seq(RecordedFrames) /\ FramesAreOwn'
           /\ Places' = Places \cup {Len(trace) + 1} /\ trace'[Len(trace) + 1] = f
           /\ \A i \in Places : trace'[i] = trace[i]
<1> DEFINE n == Len(trace)
<1>1. n \in Nat /\ trace' \in Seq(RecordedFrames) /\ Len(trace') = n + 1
  OBVIOUS
<1>2. Places' = Places \cup {n + 1}
  BY <1>1 DEF Places
<1>3. trace'[n + 1] = f /\ \A i \in Places : trace'[i] = trace[i]
  BY DEF Places
<1>4. \A i \in Places : i \in 1..n
  BY DEF Places
<1> HIDE DEF n
<1>5. ASSUME NEW i \in Places', NEW j \in Places', trace'[i].dir = trace'[j].dir, trace'[i].id # 0, OwnAnswer(i, j)'
      PROVE  i = j
  <2>0. trace'[i].session = trace'[j].session /\ trace'[i].id = trace'[j].id
    BY <1>5 DEF OwnAnswer
  <2>1. CASE i \in Places /\ j \in Places
    <3>1. trace[i].dir = trace[j].dir /\ trace[i].id # 0 /\ OwnAnswer(i, j)
      BY <1>3, <1>5, <2>0, <2>1 DEF OwnAnswer
    <3>2. QED
      BY <2>1, <3>1 DEF FramesAreOwn
  <2>2. CASE i = n + 1 /\ j \in Places
    BY <1>3, <1>5, <2>0, <2>2
  <2>3. CASE j = n + 1 /\ i \in Places
    BY <1>3, <1>5, <2>0, <2>3
  <2>4. QED
    BY <1>2, <2>1, <2>2, <2>3
<1>6. ASSUME NEW j \in Places', trace'[j].dir = "s2c"
      PROVE  /\ trace'[j].id # 0
             /\ \E i \in 1..(j - 1) : trace'[i].dir = "c2s" /\ OwnAnswer(i, j)' /\ trace'[i].method = trace'[j].method
  <2>1. CASE j \in Places
    <3>1. PICK i \in 1..(j - 1) : trace[i].dir = "c2s" /\ OwnAnswer(i, j) /\ trace[i].method = trace[j].method
      BY <1>3, <1>6, <2>1 DEF FramesAreOwn
    <3>2. i \in Places
      BY <2>1 DEF Places
    <3>3. trace[j].id # 0
      BY <1>3, <1>6, <2>1 DEF FramesAreOwn
    <3>4. QED
      BY <1>3, <2>1, <3>1, <3>2, <3>3 DEF OwnAnswer
  <2>2. CASE j = n + 1
    <3>1. f.dir = "s2c"
      BY <1>3, <1>6, <2>2
    <3>2. PICK i \in Places : /\ trace[i].dir = "c2s" /\ trace[i].session = f.session
                              /\ trace[i].id = f.id /\ trace[i].method = f.method
      BY <3>1
    <3>3. i \in 1..(j - 1)
      BY <1>1, <1>4, <2>2
    <3>4. QED
      BY <1>3, <2>2, <3>1, <3>2, <3>3 DEF OwnAnswer
  <2>3. QED
    BY <1>2, <2>1, <2>2
<1>7. FramesAreOwn'
  BY <1>5, <1>6 DEF FramesAreOwn
<1>8. QED
  BY <1>1, <1>2, <1>3, <1>7 DEF n

\* While the trace is recorded nothing is paired.
LEMMA NothingPaired ==
    ASSUME consumed = {}, score = [total |-> 0, matched |-> 0, diverged |-> 0], at = 0
    PROVE  PairsAreMade /\ PairsOfOneSession
<1>1. Paired = {} /\ Cardinality(consumed) = 0 /\ IsFiniteSet(consumed)
  BY FS_EmptySet DEF Paired
<1>2. Cardinality(Paired) = 0
  BY <1>1, FS_EmptySet
<1>3. score \in [total : Nat, matched : Nat, diverged : Nat] /\ score.total = 0 /\ score.matched = 0
      /\ score.diverged = 0
  OBVIOUS
<1>4. PairsAreMade
  BY <1>1, <1>2, <1>3 DEF PairsAreMade
<1>5. 1..at = {}
  OBVIOUS
<1>6. PairsOfOneSession
  BY <1>3, <1>5 DEF PairsOfOneSession
<1>7. QED
  BY <1>4, <1>6

LEMMA TracingKeeps ==
    ASSUME ReplayInv, NEW s \in Sessions, ~closed, replay = "recording",
           Ask(s) \/ Notify(s) \/ Answered(s) \/ EndSession(s)
    PROVE  ReplayInv'
<1>0. /\ trace \in Seq(RecordedFrames) /\ FramesAreOwn /\ SessionsAreAhead
      /\ asked \in [Sessions -> Nat] /\ asking \in [Sessions -> [id : Nat, method : Methods \cup {"none"}]]
      /\ \A u \in Sessions : asked[u] \in 0..(MaxRequests[u] + 1) /\ asking[u].id \in 0..MaxRequests[u]
      /\ at = 0 /\ server = "same" /\ consumed = {} /\ score = [total |-> 0, matched |-> 0, diverged |-> 0]
      /\ MaxRequests[s] \in Nat
  BY ReplayAssumption DEF ReplayInv, ReplayTypeOK, RecordedFrames
<1>1. UNCHANGED <<replay, at, consumed, server, score>>
  BY DEF Ask, Notify, Answered, EndSession, replayOnly
<1>2. PairsAreMade' /\ PairsOfOneSession'
  <2>1. (consumed = {} /\ score = [total |-> 0, matched |-> 0, diverged |-> 0] /\ at = 0)'
    BY <1>0, <1>1
  <2>2. QED
    BY <2>1, NothingPaired, PTL
<1>q. ASSUME trace' \in Seq(RecordedFrames), FramesAreOwn', ~closed' => SessionsAreAhead',
             asked' \in [Sessions -> Nat], asking' \in [Sessions -> [id : Nat, method : Methods \cup {"none"}]],
             \A u \in Sessions : asked'[u] \in 0..(MaxRequests[u] + 1) /\ asking'[u].id \in 0..MaxRequests[u]
      PROVE  ReplayInv'
  <2>1. Len(trace') \in Nat /\ at' \in 0..Len(trace')
    BY <1>0, <1>1, <1>q
  <2>2. ReplayTypeOK'
    BY <1>0, <1>1, <1>q, <2>1 DEF ReplayTypeOK, RecordedFrames
  <2>3. QED
    BY <1>0, <1>1, <1>2, <1>q, <2>2 DEF ReplayInv
<1>3. CASE Ask(s)
  <2>1. PICK m \in Methods : /\ asking' = [asking EXCEPT ![s] = [id |-> asked[s] + 1, method |-> m]]
                             /\ Record(Frame("c2s", s, asked[s] + 1, m))
    BY <1>3 DEF Ask
  <2> DEFINE f == Frame("c2s", s, asked[s] + 1, m)
  <2>2. asking[s].id = 0 /\ asked[s] < MaxRequests[s] /\ asked' = [asked EXCEPT ![s] = @ + 1]
    BY <1>3 DEF Ask
  <2>3. f \in RecordedFrames /\ f.dir = "c2s" /\ f.session = s /\ f.id = asked[s] + 1 /\ f.method = m
    BY <1>0, <2>2 DEF RecordedFrames, Frames, Frame
  <2>4. /\ asked' \in [Sessions -> Nat] /\ asking' \in [Sessions -> [id : Nat, method : Methods \cup {"none"}]]
        /\ \A u \in Sessions : asked'[u] \in 0..(MaxRequests[u] + 1) /\ asking'[u].id \in 0..MaxRequests[u]
    BY <1>0, <2>1, <2>2
  <2>5. \A i \in Places : trace[i].session = s => trace[i].id <= asked[s] /\ trace[i].id \in Nat
    BY <1>0 DEF SessionsAreAhead, Places, RecordedFrames, Frames
  <2> HIDE DEF f
  <2>6. CASE trace' = Append(trace, f) /\ UNCHANGED closed
    <3>1. \A i \in Places : ~(trace[i].session = f.session /\ trace[i].id = f.id)
      BY <1>0, <2>3, <2>5
    <3>2. /\ trace' \in Seq(RecordedFrames) /\ FramesAreOwn'
          /\ Places' = Places \cup {Len(trace) + 1} /\ trace'[Len(trace) + 1] = f
          /\ \A i \in Places : trace'[i] = trace[i]
      BY <1>0, <2>3, <2>6, <3>1, FrameIsRecorded
    <3>3. ASSUME NEW u \in Sessions
          PROVE  /\ \A i \in Places' : trace'[i].session = u => trace'[i].id <= asked'[u]
                 /\ asking'[u].id # 0 => Awaits(u)'
      <4>1. CASE u = s
        <5>1. asked'[u] = asked[s] + 1 /\ asking'[u].id = asked[s] + 1 /\ asking'[u].method = m /\ asked[s] \in Nat
          BY <1>0, <2>1, <2>2, <4>1
        <5>2. \A i \in Places' : trace'[i].session = u => trace'[i].id <= asked'[u]
          BY <2>3, <2>5, <3>2, <4>1, <5>1
        <5>3. \A j \in Places' : trace'[j].dir = "s2c" /\ trace'[j].session = u => trace'[j].id # asking'[u].id
          BY <2>3, <2>5, <3>2, <4>1, <5>1
        <5>4. QED
          BY <2>3, <3>2, <4>1, <5>1, <5>2, <5>3 DEF Awaits
      <4>2. CASE u # s
        <5>1. asked'[u] = asked[u] /\ asking'[u] = asking[u]
          BY <1>0, <2>1, <2>2, <4>2
        <5>2. /\ \A i \in Places : trace[i].session = u => trace[i].id <= asked[u]
              /\ asking[u].id # 0 => Awaits(u)
          BY <1>0 DEF SessionsAreAhead
        <5>3. \A i \in Places' : trace'[i].session = u => i \in Places /\ trace'[i] = trace[i]
          BY <2>3, <3>2, <4>2
        <5>4. QED
          BY <3>2, <5>1, <5>2, <5>3 DEF Awaits
      <4>3. QED
        BY <4>1, <4>2
    <3>4. QED
      BY <1>q, <2>4, <3>2, <3>3 DEF SessionsAreAhead
  <2>7. CASE closed' = TRUE /\ UNCHANGED trace
    BY <1>0, <1>q, <2>4, <2>7 DEF FramesAreOwn, Places, OwnAnswer
  <2>8. QED
    BY <2>1, <2>6, <2>7 DEF Record, f
<1>4. CASE Notify(s)
  <2> DEFINE f == Frame("c2s", s, 0, "initialized")
  <2>1. UNCHANGED <<asking, asked>> /\ Record(f)
    BY <1>4 DEF Notify
  <2>2. f \in RecordedFrames /\ f.dir = "c2s" /\ f.session = s /\ f.id = 0
    BY <1>0 DEF RecordedFrames, Frames, Frame
  <2>3. asking' = asking /\ asked' = asked
    BY <2>1
  <2> HIDE DEF f
  <2>4. CASE trace' = Append(trace, f) /\ UNCHANGED closed
    <3>1. /\ trace' \in Seq(RecordedFrames) /\ FramesAreOwn'
          /\ Places' = Places \cup {Len(trace) + 1} /\ trace'[Len(trace) + 1] = f
          /\ \A i \in Places : trace'[i] = trace[i]
      BY <1>0, <2>2, <2>4, FrameIsRecorded
    <3>2. ASSUME NEW u \in Sessions
          PROVE  /\ \A i \in Places' : trace'[i].session = u => trace'[i].id <= asked'[u]
                 /\ asking'[u].id # 0 => Awaits(u)'
      <4>1. /\ \A i \in Places : trace[i].session = u => trace[i].id <= asked[u]
            /\ asking[u].id # 0 => Awaits(u)
        BY <1>0 DEF SessionsAreAhead
      <4>2. asked[u] \in Nat
        BY <1>0
      <4>3. \A i \in Places' : trace'[i].session = u => trace'[i].id <= asked[u]
        BY <2>2, <3>1, <4>1, <4>2
      <4>4. asking[u].id # 0 => Awaits(u)'
        BY <2>2, <2>3, <3>1, <4>1 DEF Awaits
      <4>5. QED
        BY <2>3, <4>3, <4>4
    <3>3. QED
      BY <1>0, <1>q, <2>3, <3>1, <3>2 DEF SessionsAreAhead
  <2>5. CASE closed' = TRUE /\ UNCHANGED trace
    BY <1>0, <1>q, <2>3, <2>5 DEF FramesAreOwn, Places, OwnAnswer
  <2>6. QED
    BY <2>1, <2>4, <2>5 DEF Record
<1>5. CASE Answered(s)
  <2> DEFINE f == Frame("s2c", s, asking[s].id, asking[s].method)
  <2>1. asking[s].id # 0 /\ asking' = [asking EXCEPT ![s].id = 0] /\ asked' = asked /\ Record(f)
    BY <1>5 DEF Answered
  <2>2. Awaits(s)
    BY <1>0, <2>1 DEF SessionsAreAhead
  <2>3. /\ f \in RecordedFrames /\ f.dir = "s2c" /\ f.session = s /\ f.id = asking[s].id
        /\ f.method = asking[s].method
    BY <1>0, <2>2 DEF RecordedFrames, Frames, Frame, Awaits
  <2>4. /\ asking' \in [Sessions -> [id : Nat, method : Methods \cup {"none"}]]
        /\ asking'[s].id = 0 /\ \A u \in Sessions \ {s} : asking'[u] = asking[u]
        /\ \A u \in Sessions : asked'[u] \in 0..(MaxRequests[u] + 1) /\ asking'[u].id \in 0..MaxRequests[u]
    <3>1. [asking[s] EXCEPT !.id = 0] \in [id : Nat, method : Methods \cup {"none"}]
      BY <1>0
    <3>2. /\ asking' \in [Sessions -> [id : Nat, method : Methods \cup {"none"}]]
          /\ asking'[s].id = 0 /\ \A u \in Sessions \ {s} : asking'[u] = asking[u]
      BY <1>0, <2>1, <3>1
    <3>3. \A u \in Sessions : asked'[u] \in 0..(MaxRequests[u] + 1) /\ asking'[u].id \in 0..MaxRequests[u]
      <4> TAKE u \in Sessions
      <4>1. 0 \in 0..MaxRequests[s] /\ asking[u].id \in 0..MaxRequests[u] /\ asked[u] \in 0..(MaxRequests[u] + 1)
        BY <1>0
      <4>2. QED
        BY <2>1, <3>2, <4>1
    <3>4. QED
      BY <3>2, <3>3
  <2> HIDE DEF f
  <2>5. CASE trace' = Append(trace, f) /\ UNCHANGED closed
    <3>1. \A i \in Places : ~(trace[i].dir = f.dir /\ trace[i].session = f.session /\ trace[i].id = f.id)
      BY <2>2, <2>3 DEF Awaits
    <3>2. \E i \in Places : /\ trace[i].dir = "c2s" /\ trace[i].session = f.session
                            /\ trace[i].id = f.id /\ trace[i].method = f.method
      BY <2>2, <2>3 DEF Awaits
    <3>3. /\ trace' \in Seq(RecordedFrames) /\ FramesAreOwn'
          /\ Places' = Places \cup {Len(trace) + 1} /\ trace'[Len(trace) + 1] = f
          /\ \A i \in Places : trace'[i] = trace[i]
      BY <1>0, <2>1, <2>3, <2>5, <3>1, <3>2, FrameIsRecorded
    <3>4. ASSUME NEW u \in Sessions
          PROVE  /\ \A i \in Places' : trace'[i].session = u => trace'[i].id <= asked'[u]
                 /\ asking'[u].id # 0 => Awaits(u)'
      <4>1. /\ \A i \in Places : trace[i].session = u => trace[i].id <= asked[u]
            /\ asking[u].id # 0 => Awaits(u)
        BY <1>0 DEF SessionsAreAhead
      <4>2. \A i \in Places' : trace'[i].session = u => trace'[i].id <= asked'[u]
        BY <2>1, <2>2, <2>3, <3>3, <4>1 DEF Awaits
      <4>3. CASE u = s
        BY <2>4, <4>2, <4>3
      <4>4. CASE u # s
        <5>1. asking'[u] = asking[u] /\ asked'[u] = asked[u]
          BY <2>1, <2>4, <4>4
        <5>2. \A i \in Places' : trace'[i].session = u => i \in Places /\ trace'[i] = trace[i]
          BY <2>3, <3>3, <4>4
        <5>3. asking'[u].id # 0 => Awaits(u)'
          BY <3>3, <4>1, <5>1, <5>2 DEF Awaits
        <5>4. QED
          BY <4>2, <5>3
      <4>5. QED
        BY <4>3, <4>4
    <3>5. QED
      BY <1>0, <1>q, <2>1, <2>4, <3>3, <3>4 DEF SessionsAreAhead
  <2>6. CASE closed' = TRUE /\ UNCHANGED trace
    BY <1>0, <1>q, <2>1, <2>4, <2>6 DEF FramesAreOwn, Places, OwnAnswer
  <2>7. QED
    BY <2>1, <2>5, <2>6 DEF Record
<1>6. CASE EndSession(s)
  <2>1. /\ asked' = [asked EXCEPT ![s] = MaxRequests[s] + 1] /\ asking' = [asking EXCEPT ![s].id = 0]
        /\ trace' = trace /\ closed' = closed
    BY <1>6 DEF EndSession
  <2>2. /\ asking' \in [Sessions -> [id : Nat, method : Methods \cup {"none"}]] /\ asked' \in [Sessions -> Nat]
        /\ asked'[s] = MaxRequests[s] + 1 /\ asking'[s].id = 0
        /\ \A u \in Sessions \ {s} : asking'[u] = asking[u] /\ asked'[u] = asked[u]
    <3>1. [asking[s] EXCEPT !.id = 0] \in [id : Nat, method : Methods \cup {"none"}]
      BY <1>0
    <3>2. QED
      BY <1>0, <2>1, <3>1
  <2>3. \A u \in Sessions : asked'[u] \in 0..(MaxRequests[u] + 1) /\ asking'[u].id \in 0..MaxRequests[u]
    <3> TAKE u \in Sessions
    <3>1. 0 \in 0..MaxRequests[s] /\ asking[u].id \in 0..MaxRequests[u] /\ asked[u] \in 0..(MaxRequests[u] + 1)
          /\ MaxRequests[s] + 1 \in 0..(MaxRequests[s] + 1)
      BY <1>0
    <3>2. QED
      BY <2>2, <3>1
  <2>4. \A i \in Places : trace[i].session = s => trace[i].id <= MaxRequests[s] + 1
    BY <1>0 DEF Places, RecordedFrames, Frames
  <2>5. ASSUME NEW u \in Sessions
        PROVE  /\ \A i \in Places : trace[i].session = u => trace[i].id <= asked'[u]
               /\ asking'[u].id # 0 => Awaits(u)'
    <3>1. CASE u = s
      BY <2>2, <2>4, <3>1
    <3>2. CASE u # s
      <4>1. asking'[u] = asking[u] /\ asked'[u] = asked[u] /\ trace' = trace
        BY <2>1, <2>2, <3>2
      <4>2. /\ \A i \in Places : trace[i].session = u => trace[i].id <= asked[u]
            /\ asking[u].id # 0 => Awaits(u)
        BY <1>0 DEF SessionsAreAhead
      <4>3. QED
        BY <4>1, <4>2 DEF Awaits, Places
    <3>3. QED
      BY <3>1, <3>2
  <2>6. SessionsAreAhead'
    BY <2>1, <2>5 DEF SessionsAreAhead, Places
  <2>7. FramesAreOwn'
    BY <1>0, <2>1 DEF FramesAreOwn, Places, OwnAnswer
  <2>8. QED
    BY <1>0, <1>q, <2>1, <2>2, <2>3, <2>6, <2>7
<1>7. QED
  BY <1>3, <1>4, <1>5, <1>6

\* What is paired leaves the other answers free: the next request takes one of them.
LEMMA PairIsMade ==
    ASSUME ReplayInv, replay = "sending", at < Len(trace), NEW i, i = at + 1, at' = at + 1,
           trace[i].dir = "c2s", trace[i].id # 0, FreeAnswers(i) # {},
           NEW j, j = Min(FreeAnswers(i)), Score(i, j), consumed' = consumed \cup {<<i, j>>},
           UNCHANGED <<trace, server>>
    PROVE  PairsAreMade' /\ PairsOfOneSession'
<1>0. /\ trace \in Seq(RecordedFrames) /\ FramesAreOwn /\ PairsAreMade /\ PairsOfOneSession
      /\ at \in Nat /\ Len(trace) \in Nat /\ i \in Places
  BY DEF ReplayInv, ReplayTypeOK, RecordedFrames, Places
<1>1. j \in FreeAnswers(i)
  <2>1. FreeAnswers(i) \in SUBSET Nat
    BY <1>0 DEF FreeAnswers
  <2>2. QED
    BY <2>1, LeastNumber DEF Min
<1>2. /\ j \in (i + 1)..Len(trace) /\ j \in Places /\ trace[j].dir = "s2c" /\ trace[j].id = trace[i].id
      /\ \A c \in consumed : c[2] # j
  <2>1. j \in (i + 1)..Len(trace) /\ trace[j].dir = "s2c" /\ trace[j].id = trace[i].id
        /\ j \notin {c[2] : c \in consumed}
    BY <1>1 DEF FreeAnswers
  <2>2. j \in Places
    BY <1>0, <2>1 DEF Places
  <2>3. QED
    BY <2>1, <2>2
<1>3. \A c \in consumed : c[1] \in 1..at
  BY <1>0 DEF PairsAreMade
<1> DEFINE p == <<i, j>>
<1>4. p[1] = i /\ p[2] = j /\ p \notin consumed
  BY <1>2
<1>5. i \notin Paired /\ Paired' = Paired \cup {i}
  <2>1. i \notin Paired
    BY <1>0, <1>3 DEF Paired
  <2>2. consumed' = consumed \cup {p}
    OBVIOUS
  <2> HIDE DEF p
  <2>3. Paired' = Paired \cup {p[1]}
    BY <2>2, Zenon DEF Paired
  <2>4. QED
    BY <1>4, <2>1, <2>3
<1>f. IsFiniteSet(consumed) /\ IsFiniteSet(Paired) /\ Cardinality(consumed) \in Nat
      /\ Cardinality(Paired) = Cardinality(consumed)
  <2>1. IsFiniteSet(Paired)
    <3>1. Paired \subseteq 1..at
      BY <1>3 DEF Paired
    <3>2. IsFiniteSet(1..at)
      BY <1>0, FS_Interval
    <3>3. QED
      BY <3>1, <3>2, FS_Subset
  <2>2. QED
    BY <1>0, <2>1, FS_CardinalityType DEF PairsAreMade
<1>6. /\ Cardinality(consumed') = Cardinality(consumed) + 1 /\ IsFiniteSet(consumed')
      /\ Cardinality(Paired') = Cardinality(Paired) + 1
  BY <1>4, <1>5, <1>f, FS_AddElement
<1>7. /\ score'.total = score.total + 1 /\ score' \in [total : Nat, matched : Nat, diverged : Nat]
      /\ score'.matched = score.matched + (IF Matches(i, j) THEN 1 ELSE 0)
      /\ score'.diverged = score.diverged + (IF Matches(i, j) THEN 0 ELSE 1)
      /\ score.total \in Nat /\ score.matched \in Nat /\ score.diverged \in Nat
  BY <1>0 DEF Score, PairsAreMade
<1>8. \A c \in consumed' : \E k \in 1..at' : \E l \in (k + 1)..Len(trace) :
         c = <<k, l>> /\ trace[k].dir = "c2s" /\ trace[l].dir = "s2c" /\ trace[k].id = trace[l].id /\ trace[k].id # 0
  <2> TAKE c \in consumed'
  <2>1. CASE c \in consumed
    <3>1. PICK k \in 1..at : \E l \in (k + 1)..Len(trace) :
         c = <<k, l>> /\ trace[k].dir = "c2s" /\ trace[l].dir = "s2c" /\ trace[k].id = trace[l].id /\ trace[k].id # 0
      BY <1>0, <2>1 DEF PairsAreMade
    <3>2. k \in 1..at'
      BY <1>0
    <3>3. QED
      BY <3>1, <3>2
  <2>2. CASE c = p
    <3>1. i \in 1..at'
      BY <1>0
    <3>2. QED
      BY <1>2, <2>2, <3>1
  <2>3. QED
    BY <2>1, <2>2
<1>9. \A c, d \in consumed' : c[2] = d[2] => c = d
  <2> TAKE c, d \in consumed'
  <2>1. CASE c \in consumed /\ d \in consumed
    BY <1>0, <2>1 DEF PairsAreMade
  <2>2. CASE c = p \/ d = p
    BY <1>2, <1>4, <2>2
  <2>3. QED
    BY <2>1, <2>2
<1>10. PairsAreMade'
  <2>1. score'.total = score'.matched + score'.diverged
    <3>1. score.total = score.matched + score.diverged
      BY <1>0 DEF PairsAreMade
    <3> DEFINE a == score.total
               m == score.matched
               d == score.diverged
               y == IF Matches(i, j) THEN 1 ELSE 0
               z == IF Matches(i, j) THEN 0 ELSE 1
    <3>2. a = m + d /\ a \in Nat /\ m \in Nat /\ d \in Nat /\ y \in Nat /\ z \in Nat /\ y + z = 1
      BY <1>7, <3>1
    <3>3. score'.total = a + 1 /\ score'.matched = m + y /\ score'.diverged = d + z
      BY <1>7
    <3> HIDE DEF a, m, d, y, z
    <3>4. a + 1 = (m + y) + (d + z)
      BY ONLY <3>2
    <3>5. QED
      BY <3>3, <3>4
  <2>2. score'.total = Cardinality(consumed') /\ Cardinality(Paired') = Cardinality(consumed')
    BY <1>0, <1>6, <1>f, <1>7 DEF PairsAreMade
  <2>3. QED
    BY <1>6, <1>7, <1>8, <1>9, <2>1, <2>2 DEF PairsAreMade
<1>11. PairsOfOneSession'
  <2>1. SUFFICES ASSUME OneSession
                 PROVE  /\ \A k \in 1..at' : trace[k].dir = "c2s" /\ HasAnswer(k) => k \in Paired'
                        /\ IF server = "same" THEN score'.diverged = 0 ELSE score'.matched = 0
    BY DEF PairsOfOneSession, OneSession, HasAnswer, OwnAnswer
  <2>2. \A k \in 1..at' : k \in 1..at \/ k = i
    BY <1>0
  <2>3. \A k \in 1..at' : trace[k].dir = "c2s" /\ HasAnswer(k) => k \in Paired'
    BY <1>0, <1>5, <2>1, <2>2 DEF PairsOfOneSession
  <2>4. trace[i].method = trace[j].method
    <3>1. PICK k \in 1..(j - 1) : trace[k].dir = "c2s" /\ OwnAnswer(k, j) /\ trace[k].method = trace[j].method
      BY <1>0, <1>2 DEF FramesAreOwn
    <3>2. k \in Places
      BY <1>2 DEF Places
    <3>3. trace[i].session = trace[j].session
      BY <1>0, <1>2, <2>1, OneSessionAlone
    <3>4. OwnAnswer(i, k)
      BY <1>2, <3>1, <3>3 DEF OwnAnswer
    <3>5. i = k
      BY <1>0, <3>1, <3>2, <3>4 DEF FramesAreOwn
    <3>6. QED
      BY <3>1, <3>5
  <2>5. Matches(i, j) <=> server = "same"
    BY <2>4 DEF Matches
  <2>6. IF server = "same" THEN score'.diverged = 0 ELSE score'.matched = 0
    BY <1>0, <1>7, <2>1, <2>5 DEF PairsOfOneSession
  <2>7. QED
    BY <2>3, <2>6
<1>12. QED
  BY <1>10, <1>11

\* A request without a free answer has none, where there is one session.
LEMMA NoPairIsMade ==
    ASSUME ReplayInv, replay = "sending", at < Len(trace), NEW i, i = at + 1, at' = at + 1,
           trace[i].dir = "s2c" \/ trace[i].id = 0 \/ FreeAnswers(i) = {},
           UNCHANGED <<trace, server, consumed, score>>
    PROVE  PairsAreMade' /\ PairsOfOneSession'
<1>0. /\ trace \in Seq(RecordedFrames) /\ FramesAreOwn /\ PairsAreMade /\ PairsOfOneSession
      /\ at \in Nat /\ Len(trace) \in Nat /\ i \in Places
  BY DEF ReplayInv, ReplayTypeOK, RecordedFrames, Places
<1>1. PairsAreMade'
  <2>1. 1..at \subseteq 1..at'
    BY <1>0
  <2>2. Paired' = Paired
    BY DEF Paired
  <2>3. QED
    BY <1>0, <2>1, <2>2 DEF PairsAreMade
<1>2. PairsOfOneSession'
  <2>1. SUFFICES ASSUME OneSession
                 PROVE  /\ \A k \in 1..at' : trace[k].dir = "c2s" /\ HasAnswer(k) => k \in Paired
                        /\ IF server = "same" THEN score.diverged = 0 ELSE score.matched = 0
    BY DEF PairsOfOneSession, OneSession, HasAnswer, OwnAnswer, Paired
  <2>2. \A k \in 1..at' : k \in 1..at \/ k = i
    BY <1>0
  <2>3. ASSUME trace[i].dir = "c2s", HasAnswer(i) PROVE FALSE
    <3>1. PICK j \in (i + 1)..Len(trace) : trace[j].dir = "s2c" /\ OwnAnswer(i, j)
      BY <2>3 DEF HasAnswer
    <3>2. j \in Places /\ trace[i].id = trace[j].id /\ trace[j].id # 0
      BY <1>0, <3>1 DEF Places, OwnAnswer, FramesAreOwn
    <3>3. j \notin FreeAnswers(i)
      BY <2>3, <3>2
    <3>4. PICK c \in consumed : c[2] = j
      BY <3>1, <3>2, <3>3 DEF FreeAnswers
    <3>5. PICK k \in 1..at : \E l \in (k + 1)..Len(trace) :
             c = <<k, l>> /\ trace[k].dir = "c2s" /\ trace[l].dir = "s2c" /\ trace[k].id = trace[l].id /\ trace[k].id # 0
      BY <1>0, <3>4 DEF PairsAreMade
    <3>6. k \in Places /\ trace[k].dir = "c2s" /\ trace[k].id = trace[j].id
      BY <1>0, <3>4, <3>5 DEF Places
    <3>7. trace[k].session = trace[i].session
      BY <1>0, <2>1, <3>6, OneSessionAlone
    <3>8. k = i
      BY <1>0, <2>3, <3>2, <3>6, <3>7 DEF FramesAreOwn, OwnAnswer
    <3>9. QED
      BY <1>0, <3>5, <3>8
  <2>4. QED
    BY <1>0, <2>1, <2>2, <2>3 DEF PairsOfOneSession
<1>3. QED
  BY <1>1, <1>2

LEMMA ReplayKeeps == ReplayInv /\ ReplayStep => ReplayInv'
<1> SUFFICES ASSUME ReplayInv, ReplayStep PROVE ReplayInv'
  OBVIOUS
<1>0. /\ ReplayTypeOK /\ FramesAreOwn /\ PairsAreMade /\ PairsOfOneSession
      /\ asked \in [Sessions -> Nat] /\ asking \in [Sessions -> [id : Nat, method : Methods \cup {"none"}]]
      /\ Len(trace) \in Nat /\ at \in 0..Len(trace)
  BY DEF ReplayInv, ReplayTypeOK
<1>1. CASE Recording
  <2>1. PICK s \in Sessions : Ask(s) \/ Notify(s) \/ Answered(s) \/ EndSession(s)
    BY <1>1 DEF Recording
  <2>2. ~closed /\ replay = "recording"
    BY <1>1, <2>1 DEF Recording, Ask, Notify, Answered, EndSession
  <2>3. QED
    BY <2>1, <2>2, TracingKeeps
<1>2. CASE Begin
  <2>1. /\ replay = "recording" /\ replay' \in {"sending", "refused"} /\ server' \in {"same", "other"}
        /\ trace' = trace /\ asking' = asking /\ asked' = asked /\ closed' = closed /\ at' = at
        /\ consumed' = consumed /\ score' = score
    BY <1>2 DEF Begin
  <2>2. consumed = {} /\ score = [total |-> 0, matched |-> 0, diverged |-> 0] /\ at = 0
    BY <2>1 DEF ReplayInv
  <2>3. PairsAreMade' /\ PairsOfOneSession'
    <3>1. (consumed = {} /\ score = [total |-> 0, matched |-> 0, diverged |-> 0] /\ at = 0)'
      BY <2>1, <2>2
    <3>2. QED
      BY <3>1, NothingPaired, PTL
  <2>4. ReplayTypeOK' /\ FramesAreOwn'
    BY <1>0, <2>1 DEF ReplayTypeOK, FramesAreOwn, Places, OwnAnswer
  <2>5. QED
    BY <1>0, <2>1, <2>3, <2>4 DEF ReplayInv
<1>3. CASE Resend
  <2>1. /\ replay = "sending" /\ at < Len(trace) /\ at' = at + 1
        /\ trace' = trace /\ asking' = asking /\ asked' = asked /\ closed' = closed /\ replay' = replay
        /\ server' = server
    BY <1>3 DEF Resend
  <2>2. PICK i : i = at + 1
    OBVIOUS
  <2>3. \/ /\ trace[i].dir = "s2c" \/ trace[i].id = 0
           /\ UNCHANGED <<consumed, score>>
        \/ /\ FreeAnswers(i) = {}
           /\ UNCHANGED <<consumed, score>>
        \/ /\ trace[i].dir = "c2s" /\ trace[i].id # 0 /\ FreeAnswers(i) # {}
           /\ Score(i, Min(FreeAnswers(i))) /\ consumed' = consumed \cup {<<i, Min(FreeAnswers(i))>>}
    BY <1>3, <2>2 DEF Resend
  <2>4. PairsAreMade' /\ PairsOfOneSession'
    <3>1. CASE UNCHANGED <<consumed, score>> /\ (trace[i].dir = "s2c" \/ trace[i].id = 0 \/ FreeAnswers(i) = {})
      BY <2>1, <2>2, <3>1, NoPairIsMade
    <3>2. CASE /\ trace[i].dir = "c2s" /\ trace[i].id # 0 /\ FreeAnswers(i) # {}
               /\ Score(i, Min(FreeAnswers(i))) /\ consumed' = consumed \cup {<<i, Min(FreeAnswers(i))>>}
      BY <2>1, <2>2, <3>2, PairIsMade
    <3>3. QED
      BY <2>3, <3>1, <3>2
  <2>5. at' \in 0..Len(trace')
    BY <1>0, <2>1
  <2>6. ReplayTypeOK' /\ FramesAreOwn'
    BY <1>0, <2>1, <2>5 DEF ReplayTypeOK, FramesAreOwn, Places, OwnAnswer
  <2>7. QED
    BY <1>0, <2>1, <2>4, <2>6 DEF ReplayInv
<1>4. CASE EndReplay
  <2>1. /\ replay = "sending" /\ at = Len(trace) /\ replay' \in {"done", "refused"}
        /\ trace' = trace /\ asking' = asking /\ asked' = asked /\ closed' = closed /\ at' = at
        /\ consumed' = consumed /\ server' = server /\ score' = score
    BY <1>4 DEF EndReplay
  <2>2. PairsAreMade' /\ PairsOfOneSession'
    BY <1>0, <2>1 DEF PairsAreMade, PairsOfOneSession, Paired, OneSession, HasAnswer, OwnAnswer
  <2>3. ReplayTypeOK' /\ FramesAreOwn'
    BY <1>0, <2>1 DEF ReplayTypeOK, FramesAreOwn, Places, OwnAnswer
  <2>4. QED
    BY <1>0, <2>1, <2>2, <2>3 DEF ReplayInv
<1>5. QED
  BY <1>1, <1>2, <1>3, <1>4 DEF ReplayStep

LEMMA ReplayStutters == ReplayInv /\ UNCHANGED replayVars => ReplayInv'
<1> SUFFICES ASSUME ReplayInv, UNCHANGED replayVars PROVE ReplayInv'
  OBVIOUS
<1>1. /\ trace' = trace /\ asking' = asking /\ asked' = asked /\ closed' = closed /\ at' = at
      /\ consumed' = consumed /\ server' = server /\ score' = score /\ replay' = replay
  BY DEF replayVars
<1>2. PairsAreMade' /\ PairsOfOneSession'
  BY <1>1 DEF ReplayInv, PairsAreMade, PairsOfOneSession, Paired, OneSession, HasAnswer, OwnAnswer
<1>3. ReplayTypeOK' /\ FramesAreOwn'
  BY <1>1 DEF ReplayInv, ReplayTypeOK, FramesAreOwn, Places, OwnAnswer
<1>4. SessionsAreAhead => SessionsAreAhead'
  BY <1>1 DEF SessionsAreAhead, Awaits, Places
<1>5. QED
  BY <1>1, <1>2, <1>3, <1>4 DEF ReplayInv

LEMMA ReplayBegins ==
    ASSUME NEW o, ReplayInit(o)
    PROVE  ReplayInv
<1>1. /\ trace = <<>> /\ replay = "recording" /\ at = 0 /\ consumed = {} /\ server = "same"
      /\ score = [total |-> 0, matched |-> 0, diverged |-> 0]
      /\ asking = [s \in Sessions |-> [id |-> 0, method |-> "none"]] /\ asked = [s \in Sessions |-> 0]
  BY DEF ReplayInit
<1>2. Places = {} /\ Len(trace) = 0
  BY <1>1 DEF Places
<1>3. FramesAreOwn /\ SessionsAreAhead
  BY <1>1, <1>2 DEF FramesAreOwn, SessionsAreAhead
<1>4. ReplayTypeOK
  BY <1>1, <1>2, ReplayAssumption DEF ReplayTypeOK
<1>5. PairsAreMade /\ PairsOfOneSession
  BY <1>1, NothingPaired
<1>6. QED
  BY <1>1, <1>3, <1>4, <1>5 DEF ReplayInv

\* A replay that pairs so is fair.
LEMMA ReplayStaysFair == ReplayInv => ReplayMatches
<1> SUFFICES ASSUME ReplayInv PROVE ReplayMatches
  OBVIOUS
<1>0. /\ ReplayTypeOK /\ FramesAreOwn /\ PairsAreMade /\ PairsOfOneSession
      /\ trace \in Seq(RecordedFrames) /\ Len(trace) \in Nat /\ at \in 0..Len(trace)
  BY DEF ReplayInv, ReplayTypeOK, RecordedFrames
<1>1. /\ score.total = score.matched + score.diverged /\ score.total = Cardinality(consumed)
      /\ \A c, d \in consumed : c[2] = d[2] => c = d
  BY <1>0 DEF PairsAreMade
<1>2. \A c \in consumed : /\ c[1] \in 1..at /\ c[2] \in (c[1] + 1)..Len(trace) /\ trace[c[1]].dir = "c2s"
                          /\ trace[c[2]].dir = "s2c" /\ trace[c[1]].id = trace[c[2]].id
  BY <1>0 DEF PairsAreMade
<1>3. \A c \in consumed : c[1] < c[2] /\ trace[c[2]].dir = "s2c"
  BY <1>0, <1>2
<1>4. ASSUME OneSession
      PROVE  /\ \A c \in consumed : OwnAnswer(c[1], c[2])
             /\ replay = "done" => score.total = Cardinality({i \in DOMAIN trace : trace[i].dir = "c2s" /\ HasAnswer(i)})
             /\ IF server = "same" THEN score.diverged = 0 ELSE score.matched = 0
  <2>1. \A c \in consumed : OwnAnswer(c[1], c[2])
    <3> TAKE c \in consumed
    <3>1. c[1] \in Places /\ c[2] \in Places
      BY <1>0, <1>2 DEF Places
    <3>2. trace[c[1]].session = trace[c[2]].session
      BY <1>0, <1>4, <3>1, OneSessionAlone
    <3>3. QED
      BY <1>2, <3>2 DEF OwnAnswer
  <2>2. ASSUME replay = "done"
        PROVE  Paired = {i \in DOMAIN trace : trace[i].dir = "c2s" /\ HasAnswer(i)}
    <3>1. at = Len(trace) /\ DOMAIN trace = 1..at
      BY <1>0, <2>2 DEF ReplayInv
    <3>2. \A i \in DOMAIN trace : trace[i].dir = "c2s" /\ HasAnswer(i) => i \in Paired
      BY <1>0, <1>4, <3>1 DEF PairsOfOneSession
    <3>3. ASSUME NEW i \in Paired PROVE i \in DOMAIN trace /\ trace[i].dir = "c2s" /\ HasAnswer(i)
      <4>1. PICK c \in consumed : c[1] = i
        BY DEF Paired
      <4>2. QED
        BY <1>2, <2>1, <3>1, <4>1 DEF HasAnswer
    <3>4. QED
      BY <3>2, <3>3
  <2>3. score.total = Cardinality(Paired)
    BY <1>0 DEF PairsAreMade
  <2>4. QED
    BY <1>0, <1>4, <2>1, <2>2, <2>3 DEF PairsOfOneSession
<1>5. ReplayIsFair
  BY <1>1, <1>3, <1>4 DEF ReplayIsFair
<1>6. QED
  BY <1>0, <1>5 DEF ReplayMatches

-----------------------------------------------------------------------------
(***************************************************************************)
(* The MCP server.                                                         *)
(***************************************************************************)
Ids == {"null"} \cup UNION {IdsOf(l) : l \in UNION {Range(i) : i \in Inputs}}
Answers == [id : Ids, error : {"none", "parse", "method", "params", "internal"}]

\* An answer is due exactly while it is written, and a line is there while it is handled.
ServeInv ==
    /\ input \in Inputs /\ ServeTypeOK /\ AnswersInOrder
    /\ answers \in Seq(Answers) /\ due \in Seq(Answers)
    /\ serve \in {"writing", "closing"} <=> due # <<>>
    /\ serve \in {"handling", "closing"} => line <= Len(input)
    /\ serve = "closing" => input[line].size > MaxLine

\* The lines of a client and the answers they have.
LEMMA LinesOfInputs ==
    ASSUME NEW i \in Inputs
    PROVE  /\ DOMAIN i = 1..Len(i) /\ Len(i) \in Nat
           /\ \A k \in 1..Len(i) : i[k].size \in Nat /\ IdsOf(i[k]) \subseteq Ids
<1>1. i \in Seq(Range(i)) /\ \A l \in Range(i) : l.size \in Nat
  BY ServeAssumption
<1>2. \A k \in 1..Len(i) : i[k] \in Range(i)
  BY <1>1
<1>3. QED
  BY <1>1, <1>2 DEF Ids

\* The turn of the n-th line, when it has an answer, comes after those of the lines before it.
LEMMA TurnsAreTaken ==
    ASSUME NEW n \in Nat \ {0}
    PROVE  /\ Cardinality(Answerable(n)) \in Nat
           /\ \A k \in Answerable(n) : Turn(k) \in 1..Cardinality(Answerable(n))
           /\ n \in Answerable(n + 1) =>
                 /\ Answerable(n + 1) = Answerable(n) \cup {n}
                 /\ Turn(n) = Cardinality(Answerable(n)) + 1
           /\ n \notin Answerable(n + 1) => Answerable(n + 1) = Answerable(n)
<1>0. \A m \in Int : IsFiniteSet(Answerable(m)) /\ Cardinality(Answerable(m)) \in Nat
  <2> TAKE m \in Int
  <2>1. IsFiniteSet(1..(m - 1)) /\ Answerable(m) \subseteq 1..(m - 1)
    BY FS_Interval DEF Answerable
  <2>2. QED
    BY <2>1, FS_Subset, FS_CardinalityType
<1>1. ASSUME NEW k \in Answerable(n) PROVE Turn(k) \in 1..Cardinality(Answerable(n))
  <2>1. k \in Answerable(k + 1) /\ Answerable(k + 1) \subseteq Answerable(n) /\ k + 1 \in Int
    BY DEF Answerable
  <2>2. Cardinality(Answerable(k + 1)) <= Cardinality(Answerable(n))
    BY <1>0, <2>1, FS_Subset
  <2>3. Cardinality(Answerable(k + 1)) # 0
    BY <1>0, <2>1, FS_EmptySet
  <2>4. QED
    BY <1>0, <2>1, <2>2, <2>3 DEF Turn
<1>2. n \in Answerable(n + 1) => Answerable(n + 1) = Answerable(n) \cup {n} /\ n \notin Answerable(n)
  BY DEF Answerable
<1>3. n \notin Answerable(n + 1) => Answerable(n + 1) = Answerable(n)
  BY DEF Answerable
<1>4. n \in Answerable(n + 1) => Turn(n) = Cardinality(Answerable(n)) + 1
  BY <1>0, <1>2, FS_AddElement DEF Turn
<1>5. QED
  BY <1>0, <1>1, <1>2, <1>3, <1>4

\* A line has one answer, under an id it may be given, if it has any.
LEMMA AnswersOfLines ==
    ASSUME ServeInv, Handle
    PROVE  \/ due' = <<>> /\ line \notin Answerable(line + 1)
           \/ line \in Answerable(line + 1) /\ \E x \in Answers : due' = <<x>> /\ x.id \in IdsOf(input[line])
<1> DEFINE l == input[line]
<1>1. line \in 1..Len(input) /\ IdsOf(l) \subseteq Ids /\ due' \in AnswerTo(l)
  BY LinesOfInputs DEF ServeInv, ServeTypeOK, Handle
<1>2. line \in Answerable(line + 1) <=> l.kind \notin {"blank", "notification"}
  BY <1>1 DEF Answerable
<1>3. CASE l.kind \in {"blank", "notification"}
  BY <1>1, <1>2, <1>3 DEF AnswerTo
<1>4. CASE l.kind \notin {"blank", "notification"}
  <2> DEFINE x == due'[1]
             id == IF l.kind = "garbage" THEN "null" ELSE IdRead(l)
  <2>1. id \in IdsOf(l)
    BY DEF IdRead, IdsOf
  <2>2. due' \in {<<Result(id)>>, <<Error(id, "parse")>>, <<Error(id, "method")>>,
                  <<Error(id, "params")>>, <<Error(id, "internal")>>}
    BY <1>1, <1>4 DEF AnswerTo
  <2> HIDE DEF id
  <2>3. due' = <<x>> /\ x \in Answers /\ x.id = id
    BY <1>1, <2>1, <2>2 DEF Result, Error, Answers
  <2>4. QED
    BY <1>2, <1>4, <2>1, <2>3
<1>5. QED
  BY <1>3, <1>4

LEMMA ServeKeeps == ServeInv /\ ServeStep => ServeInv'
<1> SUFFICES ASSUME ServeInv, ServeStep PROVE ServeInv'
  OBVIOUS
<1> DEFINE lines == Cardinality(Answerable(line))
<1>0. /\ input \in Inputs /\ ServeTypeOK /\ AnswersInOrder /\ answers \in Seq(Answers) /\ due \in Seq(Answers)
      /\ serve \in {"writing", "closing"} <=> due # <<>>
      /\ serve \in {"handling", "closing"} => line <= Len(input)
      /\ line \in Nat \ {0} /\ Len(input) \in Nat /\ MaxLine \in Nat
      /\ input' = input
  BY LinesOfInputs, ServeAssumption
     DEF ServeInv, ServeTypeOK, ServeStep, Fill, ReadFails, EndOfInput, Handle, Write
<1>t. /\ lines \in Nat
      /\ \A k \in Answerable(line) : Turn(k) \in 1..lines
  BY <1>0, TurnsAreTaken
<1>n. Error("null", "parse") \in Answers /\ Error("null", "parse").id = "null"
  BY DEF Error, Answers, Ids
<1>1. CASE Fill
  <2>1. serve = "reading" /\ due = <<>> /\ line <= Len(input) /\ UNCHANGED <<line, answers>>
    BY <1>0, <1>1 DEF Fill, ServeTypeOK
  <2>2. input[line].size \in Nat
    BY <1>0, <2>1, LinesOfInputs
  <2>t. torn' \subseteq 0..MaxLine
    <3>1. PICK n \in 1..(input[line].size - got) :
             torn' = torn \/ (~(got + n > MaxLine) /\ torn' = torn \cup ({got + n} \cap input[line].wide))
      BY <1>1 DEF Fill
    <3>2. got \in Nat /\ torn \subseteq 0..MaxLine
      BY <1>0 DEF ServeTypeOK
    <3>3. ~(got + n > MaxLine) => got + n \in 0..MaxLine
      BY <1>0, <2>2, <3>2
    <3>4. QED
      BY <3>1, <3>2, <3>3
  <2>3. \/ /\ serve' = "closing" /\ due' = <<Error("null", "parse")>> /\ got' = got
           /\ input[line].size > MaxLine
        \/ serve' \in {"handling", "reading"} /\ due' = <<>> /\ got' \in 0..MaxLine
    BY <1>0, <1>1, <2>1, <2>2 DEF Fill, ServeTypeOK
  <2>4. Len(answers) = lines /\ \A k \in Answerable(line) : answers[Turn(k)].id \in IdsOf(input[k])
    <3>1. answers \o due = answers
      BY <1>0, <2>1
    <3>2. Len(answers) = lines
      <4>1. ~TooLong /\ serve # "broken"
        BY <2>1 DEF TooLong
      <4> HIDE DEF lines
      <4>2. Len(answers) = lines + 0
        BY <1>0, <3>1, <4>1 DEF AnswersInOrder, lines
      <4>3. QED
        BY <1>t, <4>2
    <3>3. QED
      BY <1>0, <1>t, <2>1, <3>1, <3>2 DEF AnswersInOrder
  <2>5. Answerable(line)' = Answerable(line)
    BY <1>0, <2>1 DEF Answerable
  <2>6. \A k : Turn(k)' = Turn(k)
    BY <1>0, <2>1 DEF Turn, Answerable
  <2>7. CASE serve' = "closing"
    <3> DEFINE said == answers \o <<Error("null", "parse")>>
    <3>1. due' = <<Error("null", "parse")>> /\ got' = got /\ input[line].size > MaxLine
      BY <2>3, <2>7
    <3>2. /\ Len(said) = lines + 1 /\ said[lines + 1] = Error("null", "parse")
          /\ \A i \in 1..lines : said[i] = answers[i]
      BY <1>0, <1>n, <1>t, <2>4
    <3>3. \A k \in Answerable(line) : said[Turn(k)].id \in IdsOf(input[k])
      BY <1>t, <2>4, <3>2
    <3>4. answers' \o due' = said
      BY <2>1, <3>1
    <3> HIDE DEF said, lines
    <3>5. AnswersInOrder'
      BY <1>0, <1>n, <2>1, <2>5, <2>6, <2>7, <3>1, <3>2, <3>3, <3>4 DEF AnswersInOrder, TooLong, ServeTypeOK, lines
    <3>6. QED
      BY <1>0, <1>n, <2>1, <2>t, <2>7, <3>1, <3>5 DEF ServeInv, ServeTypeOK
  <2>8. CASE serve' # "closing"
    <3>1. serve' \in {"handling", "reading"} /\ due' = <<>> /\ got' \in 0..MaxLine
      BY <2>3, <2>8
    <3>2. answers' \o due' = answers
      BY <1>0, <2>1, <3>1
    <3>3. AnswersInOrder'
      BY <1>0, <2>1, <2>4, <2>5, <2>6, <3>1, <3>2 DEF AnswersInOrder, TooLong
    <3>4. QED
      BY <1>0, <2>1, <2>t, <3>1, <3>3 DEF ServeInv, ServeTypeOK
  <2>9. QED
    BY <2>7, <2>8
<1>2. CASE EndOfInput
  <2>1. serve = "reading" /\ serve' = "ended" /\ line > Len(input) /\ UNCHANGED <<line, got, torn, due, answers>>
    BY <1>2 DEF EndOfInput
  <2>2. Answerable(line)' = Answerable(line) /\ \A k : Turn(k)' = Turn(k)
    BY <1>0, <2>1 DEF Turn, Answerable
  <2>3. AnswersInOrder'
    <3>1. ~TooLong /\ ~TooLong' /\ serve # "broken" /\ serve' # "broken"
      BY <1>0, <2>1 DEF TooLong
    <3>2. (answers \o due)' = answers \o due /\ got' = got
      BY <2>1
    <3>3. QED
      BY <1>0, <2>2, <3>1, <3>2 DEF AnswersInOrder
  <2>4. QED
    BY <1>0, <2>1, <2>3 DEF ServeInv, ServeTypeOK
<1>3. CASE Handle
  <2>1. /\ serve = "handling" /\ due = <<>> /\ line <= Len(input) /\ line' = line + 1 /\ got' = 0 /\ torn' = {}
        /\ answers' = answers /\ serve' = IF due' = <<>> THEN "reading" ELSE "writing"
    BY <1>0, <1>3 DEF Handle
  <2>2. Len(answers) = lines /\ \A k \in Answerable(line) : answers[Turn(k)].id \in IdsOf(input[k])
    <3>1. answers \o due = answers
      BY <1>0, <2>1
    <3>2. Len(answers) = lines
      <4>1. ~TooLong /\ serve # "broken"
        BY <2>1 DEF TooLong
      <4> HIDE DEF lines
      <4>2. Len(answers) = lines + 0
        BY <1>0, <3>1, <4>1 DEF AnswersInOrder, lines
      <4>3. QED
        BY <1>t, <4>2
    <3>3. QED
      BY <1>0, <1>t, <2>1, <3>1, <3>2 DEF AnswersInOrder
  <2>3. Answerable(line)' = Answerable(line + 1)
    BY <1>0, <2>1 DEF Answerable
  <2>4. \A k : Turn(k)' = Turn(k)
    BY <1>0 DEF Turn, Answerable
  <2>5. CASE due' = <<>> /\ line \notin Answerable(line + 1)
    <3>1. Answerable(line)' = Answerable(line)
      BY <1>0, <2>3, <2>5, TurnsAreTaken
    <3>2. answers' \o due' = answers
      BY <1>0, <2>1, <2>5
    <3>3. AnswersInOrder'
      BY <1>0, <2>1, <2>2, <2>4, <2>5, <3>1, <3>2 DEF AnswersInOrder, TooLong
    <3>4. ServeTypeOK'
      <4>1. line' \in 1..(Len(input') + 1) /\ got' \in 0..MaxLine /\ torn' \subseteq 0..MaxLine
        <5>1. line \in Nat \ {0} /\ Len(input) \in Nat /\ line <= Len(input) /\ MaxLine \in Nat
          BY <1>0, <2>1
        <5>2. line + 1 \in 1..(Len(input) + 1) /\ 0 \in 0..MaxLine
          BY <5>1
        <5>3. line' = line + 1 /\ input' = input /\ got' = 0 /\ torn' = {}
          BY <1>0, <2>1
        <5>4. QED
          BY <5>2, <5>3
      <4>2. serve' = "reading" /\ Len(due') <= 1
        BY <2>1, <2>5
      <4>3. QED
        BY <4>1, <4>2 DEF ServeTypeOK
    <3>5. QED
      BY <1>0, <2>1, <2>5, <3>3, <3>4 DEF ServeInv
  <2>6. ASSUME line \in Answerable(line + 1), NEW x \in Answers, due' = <<x>>, x.id \in IdsOf(input[line])
        PROVE  ServeInv'
    <3> DEFINE said == answers \o <<x>>
    <3>1. Len(said) = lines + 1 /\ said[lines + 1] = x /\ \A i \in 1..lines : said[i] = answers[i]
      BY <1>0, <1>t, <2>2
    <3>2. /\ Answerable(line)' = Answerable(line) \cup {line} /\ Turn(line) = lines + 1
          /\ Cardinality(Answerable(line)') = lines + 1
      BY <1>0, <2>3, <2>6, TurnsAreTaken DEF Turn
    <3>3. \A k \in Answerable(line)' : said[Turn(k)].id \in IdsOf(input[k])
      BY <1>t, <2>2, <2>6, <3>1, <3>2
    <3>4. answers' \o due' = said /\ due' # <<>> /\ due' \in Seq(Answers) /\ Len(due') = 1
      BY <2>1, <2>6
    <3> HIDE DEF said, lines
    <3>5. AnswersInOrder'
      BY <1>0, <1>t, <2>1, <2>4, <3>1, <3>2, <3>3, <3>4 DEF AnswersInOrder, TooLong
    <3>6. ServeTypeOK'
      <4>1. line' \in 1..(Len(input') + 1) /\ got' \in 0..MaxLine /\ torn' \subseteq 0..MaxLine
        <5>1. line \in Nat \ {0} /\ Len(input) \in Nat /\ line <= Len(input) /\ MaxLine \in Nat
          BY <1>0, <2>1
        <5>2. line + 1 \in 1..(Len(input) + 1) /\ 0 \in 0..MaxLine
          BY <5>1
        <5>3. line' = line + 1 /\ input' = input /\ got' = 0 /\ torn' = {}
          BY <1>0, <2>1
        <5>4. QED
          BY <5>2, <5>3
      <4>2. serve' = "writing" /\ Len(due') <= 1
        BY <2>1, <3>4
      <4>3. QED
        BY <4>1, <4>2 DEF ServeTypeOK
    <3>7. QED
      BY <1>0, <2>1, <3>4, <3>5, <3>6 DEF ServeInv
  <2>7. QED
    BY <1>3, <2>5, <2>6, AnswersOfLines
<1>4. CASE Write
  <2>1. /\ serve \in {"writing", "closing"} /\ due' = <<>> /\ UNCHANGED <<line, got, torn>>
        /\ \/ answers' = answers \o due /\ serve' = IF serve = "closing" THEN "ended" ELSE "reading"
           \/ serve' = "broken" /\ answers' = answers
    BY <1>4 DEF Write
  <2>2. Answerable(line)' = Answerable(line) /\ \A k : Turn(k)' = Turn(k)
    BY <1>0, <2>1 DEF Turn, Answerable
  <2>3. Len(due) = 1
    <3>1. due # <<>> /\ Len(due) <= 1
      BY <1>0, <2>1 DEF ServeTypeOK
    <3>2. PICK n \in Nat : due \in [1..n -> Answers] /\ Len(due) = n
      BY <1>0
    <3>3. n # 0
      BY <3>1, <3>2
    <3>4. QED
      BY <3>1, <3>2, <3>3
  <2> DEFINE said == answers \o due
  <2>4. said \in Seq(Answers) /\ Len(said) = Len(answers) + 1 /\ \A i \in 1..Len(answers) : said[i] = answers[i]
    <3>1. answers \in Seq(Answers) /\ due \in Seq(Answers)
      BY <1>0
    <3>2. said \in Seq(Answers)
      BY <3>1
    <3>3. Len(said) = Len(answers) + Len(due)
      BY <3>1
    <3>4. \A i \in 1..Len(answers) : said[i] = answers[i]
      BY <3>1
    <3>5. QED
      BY <2>3, <3>2, <3>3, <3>4
  <2>5. /\ Len(said) = lines + (IF serve = "closing" THEN 1 ELSE 0)
        /\ \A k \in Answerable(line) : said[Turn(k)].id \in IdsOf(input[k])
        /\ serve = "closing" => said[Len(said)].id = "null" /\ input[line].size > MaxLine
        /\ got <= MaxLine
    <3>1. TooLong <=> serve = "closing"
      BY <1>0, <2>1 DEF TooLong
    <3> HIDE DEF said
    <3>2. Len(said) = lines + (IF serve = "closing" THEN 1 ELSE 0)
      BY <1>0, <2>1, <3>1 DEF AnswersInOrder, said
    <3>3. \A k \in Answerable(line) : Turn(k) <= Len(said)
      BY <1>t, <3>2
    <3>4. QED
      BY <1>0, <2>1, <3>1, <3>2, <3>3 DEF AnswersInOrder, said
  <2> HIDE DEF said
  <2>6. CASE answers' = said /\ serve' = IF serve = "closing" THEN "ended" ELSE "reading"
    <3>1. answers' \o due' = said
      BY <2>1, <2>4, <2>6
    <3>2. TooLong' <=> serve = "closing"
      BY <1>0, <2>1, <2>6 DEF TooLong
    <3>3. AnswersInOrder'
      BY <1>0, <2>1, <2>2, <2>5, <2>6, <3>1, <3>2 DEF AnswersInOrder
    <3>4. QED
      BY <1>0, <2>1, <2>4, <2>6, <3>3 DEF ServeInv, ServeTypeOK
  <2>7. CASE serve' = "broken" /\ answers' = answers
    <3>1. answers' \o due' = answers
      BY <1>0, <2>1, <2>7
    <3>2. Len(answers) <= lines /\ Len(answers) \in Nat
      BY <1>0, <1>t, <2>4, <2>5
    <3>3. \A k \in Answerable(line) : Turn(k) <= Len(answers) => answers[Turn(k)].id \in IdsOf(input[k])
      BY <1>0, <1>t, <2>4, <2>5, <3>2
    <3>4. AnswersInOrder'
      BY <1>0, <2>1, <2>2, <2>5, <2>7, <3>1, <3>2, <3>3 DEF AnswersInOrder, TooLong
    <3>5. QED
      BY <1>0, <2>1, <2>7, <3>4 DEF ServeInv, ServeTypeOK
  <2>8. QED
    BY <2>1, <2>6, <2>7 DEF said
<1>5. CASE ReadFails
  <2>1. serve = "reading" /\ due = <<>> /\ serve' = "broken" /\ UNCHANGED <<line, got, torn, due, answers>>
    BY <1>0, <1>5 DEF ReadFails
  <2>2. Answerable(line)' = Answerable(line) /\ \A k : Turn(k)' = Turn(k)
    BY <1>0, <2>1 DEF Turn, Answerable
  <2>3. AnswersInOrder'
    <3>1. ~TooLong /\ ~TooLong' /\ serve # "broken"
      BY <2>1 DEF TooLong
    <3>2. (answers \o due)' = answers \o due /\ got' = got
      BY <2>1
    <3>3. Len(answers \o due) <= lines
      <4> HIDE DEF lines
      <4>1. Len(answers \o due) = lines + 0
        BY <1>0, <3>1 DEF AnswersInOrder, lines
      <4>2. QED
        BY <1>t, <4>1
    <3>4. QED
      BY <1>0, <2>1, <2>2, <3>1, <3>2, <3>3 DEF AnswersInOrder
  <2>4. QED
    BY <1>0, <2>1, <2>3 DEF ServeInv, ServeTypeOK
<1>6. QED
  BY <1>1, <1>2, <1>3, <1>4, <1>5 DEF ServeStep

LEMMA ServeStutters == ServeInv /\ UNCHANGED serveVars => ServeInv'
<1> SUFFICES ASSUME ServeInv, UNCHANGED serveVars PROVE ServeInv'
  OBVIOUS
<1>1. /\ input' = input /\ line' = line /\ got' = got /\ torn' = torn /\ serve' = serve /\ due' = due
      /\ answers' = answers
  BY DEF serveVars
<1>2. ServeTypeOK'
  BY <1>1 DEF ServeInv, ServeTypeOK
<1>3. AnswersInOrder'
  BY <1>1 DEF ServeInv, AnswersInOrder, Answerable, Turn, TooLong
<1>4. QED
  BY <1>1, <1>2, <1>3 DEF ServeInv

LEMMA ServeBegins ==
    ASSUME NEW i \in Inputs, ServeInit(i)
    PROVE  ServeInv
<1>1. input = i /\ line = 1 /\ got = 0 /\ torn = {} /\ serve = "reading" /\ due = <<>> /\ answers = <<>>
  BY DEF ServeInit
<1>2. Len(input) \in Nat /\ MaxLine \in Nat
  BY <1>1, LinesOfInputs, ServeAssumption
<1>3. Answerable(1) = {} /\ Cardinality(Answerable(line)) = 0
  BY <1>1, FS_EmptySet DEF Answerable
<1>4. ServeTypeOK
  <2>1. Len(due) = 0
    BY <1>1
  <2>2. line \in 1..(Len(input) + 1) /\ got \in 0..MaxLine
    BY <1>1, <1>2
  <2>3. Len(due) <= 1
    BY <2>1
  <2>4. torn \subseteq 0..MaxLine /\ serve \in {"reading", "handling", "writing", "closing", "ended", "broken"}
    BY <1>1
  <2>5. QED
    BY <2>2, <2>3, <2>4 DEF ServeTypeOK
<1>5. AnswersInOrder
  BY <1>1, <1>2, <1>3 DEF AnswersInOrder, TooLong
<1>6. QED
  BY <1>1, <1>2, <1>4, <1>5 DEF ServeInv

-----------------------------------------------------------------------------
(***************************************************************************)
(* The evidence of a cohort: the shares of its members are the workload,   *)
(* and at every point of the merge the figures are those of one recorder   *)
(* of what the members merged so far say of their calls.                   *)
(***************************************************************************)
\* What every member says of all its calls, or of those of a tool, and the sum of what the
\* members of S say of an outcome.
SaidOfAll == [a \in fleet.agents |-> Evidence(a).metrics]
SaidOf(t) == [a \in fleet.agents |-> Said(a, t)]
Sum(S, w, o) == SumFunctionOnSet([a \in fleet.agents |-> w[a].outcomes[o]], S)

\* m adds up what they say, and has a latency for every result.
Metered(S, m, w) ==
    /\ m \in Counter /\ Total(m.latency) = LatencyOutcomes(m)
    /\ \A o \in Outcomes : m.outcomes[o] = Sum(S, w, o)

ShardsPlanned ==
    /\ Cardinality(fleet.agents) >= 2 /\ fleet.workers >= Cardinality(fleet.agents)
    /\ shards = [a \in fleet.agents |-> [index |-> Rank(a), count |-> Cardinality(fleet.agents), workers |-> Share(a)]]

\* As many shards are merged as agents, and no two of one place.
MergeOK ==
    /\ merged.agents \subseteq fleet.agents /\ merged.indices \subseteq 0..(Cardinality(fleet.agents) - 1)
    /\ Cardinality(merged.indices) = Cardinality(merged.agents)
    /\ merged.workers = SumFunctionOnSet([a \in fleet.agents |-> Evidence(a).shard.workers], merged.agents)
    /\ Metered(merged.agents, merged.metrics, SaidOfAll)
    /\ DOMAIN merged.tools \subseteq Tools
    /\ \A t \in Tools : Metered(merged.agents, ToolMetrics(merged.tools, t), SaidOf(t))

\* Who works was allowed to.
WorkersOK == \A a \in fleet.agents : worker[a] \in {"running", "finished"} =>
    /\ Authorizes(a) /\ allowing[a] = Exceptions(a)

\* Nothing is merged before everything is recorded.
CohortInv ==
    /\ fleet \in Fleets /\ cohort \in {"configured", "planned", "merging", "merged", "refused"}
    /\ worker \in [Agents -> {"idle", "prepared", "denied", "running", "finished"}]
    /\ recorded \in [Agents -> Calls] /\ DOMAIN allowing = Agents
    /\ shards = <<>> \/ ShardsPlanned
    /\ cohort = "configured" => shards = <<>>
    /\ cohort \in {"planned", "merging", "merged"} => ShardsPlanned
    /\ shards = <<>> => \A a \in Agents : worker[a] = "idle"
    /\ cohort \in {"configured", "planned"} => merged = NothingMerged
    /\ cohort = "merged" => merged.agents = fleet.agents /\ Summarized
    /\ WorkersOK /\ MergeOK

\* What the shares rest on.
FleetOK == fleet.agents \subseteq Nat /\ IsFiniteSet(fleet.agents) /\ fleet.workers \in Nat

LEMMA FleetsAreOK == ASSUME fleet \in Fleets PROVE FleetOK
BY CohortAssumption DEF FleetOK

\* The ranks of the members are the numbers from zero on, each once.
LEMMA RanksAreDistinct ==
    ASSUME FleetOK
    PROVE  /\ Cardinality(fleet.agents) \in Nat
           /\ \A a \in fleet.agents : Rank(a) \in 0..(Cardinality(fleet.agents) - 1)
           /\ \A a, c \in fleet.agents : Rank(a) = Rank(c) => a = c
           /\ \A i \in 0..(Cardinality(fleet.agents) - 1) : \E a \in fleet.agents : Rank(a) = i
<1> DEFINE A == fleet.agents
           n == Cardinality(A)
           below(a) == {b \in A : b < a}
           R == [a \in A |-> Rank(a)]
<1>1. A \subseteq Nat /\ IsFiniteSet(A) /\ n \in Nat
  BY FS_CardinalityType DEF FleetOK
<1>2. \A a \in A : IsFiniteSet(below(a)) /\ Cardinality(below(a)) \in Nat /\ Rank(a) = Cardinality(below(a))
  <2> SUFFICES ASSUME NEW a \in A
               PROVE  IsFiniteSet(below(a)) /\ Cardinality(below(a)) \in Nat /\ Rank(a) = Cardinality(below(a))
    OBVIOUS
  <2>1. below(a) \in SUBSET A
    OBVIOUS
  <2>2. IsFiniteSet(below(a))
    BY <1>1, <2>1, FS_Subset
  <2>3. QED
    BY <2>2, FS_CardinalityType DEF Rank
<1>3. \A a \in A : Rank(a) \in 0..(n - 1)
  <2> SUFFICES ASSUME NEW a \in A PROVE Rank(a) \in 0..(n - 1)
    OBVIOUS
  <2>1. IsFiniteSet(A \ {a}) /\ Cardinality(A \ {a}) = n - 1
    BY <1>1, FS_RemoveElement
  <2>2. below(a) \in SUBSET (A \ {a})
    BY <1>1
  <2>3. Cardinality(below(a)) <= n - 1
    BY <2>1, <2>2, FS_Subset
  <2>4. QED
    BY <1>1, <1>2, <2>3
<1>4. \A a, c \in A : a < c => Rank(a) # Rank(c)
  <2> SUFFICES ASSUME NEW a \in A, NEW c \in A, a < c, Rank(a) = Rank(c) PROVE FALSE
    OBVIOUS
  <2>1. below(a) \in SUBSET below(c)
    BY <1>1
  <2>2. a \in below(c) /\ a \notin below(a)
    BY <1>1
  <2>3. below(c) = below(a)
    BY <1>2, <2>1, FS_Subset
  <2>4. QED
    BY <2>2, <2>3
<1>5. \A a, c \in A : Rank(a) = Rank(c) => a = c
  BY <1>1, <1>4
<1>6. R \in Injection(A, 0..(n - 1))
  BY <1>3, <1>5 DEF Injection, IsInjective
<1>7. IsFiniteSet(0..(n - 1)) /\ Cardinality(0..(n - 1)) = n
  BY <1>1, FS_Interval
<1>8. R \in Surjection(A, 0..(n - 1))
  BY <1>6, <1>7, FS_Injection
<1>9. \A i \in 0..(n - 1) : \E a \in A : Rank(a) = i
  BY <1>8 DEF Surjection
<1>10. QED
  BY <1>1, <1>3, <1>5, <1>9

\* Of n shares of q workers the first r have one more.
Evenly(w, n, q, r) == r <= n /\ \A i \in 0..(n - 1) : w[i] = q + (IF i < r THEN 1 ELSE 0)

LEMMA SharesAddUp ==
    ASSUME NEW n \in Nat, NEW q \in Nat, NEW r \in Nat, NEW w, Evenly(w, n, q, r)
    PROVE  SumFunctionOnSet(w, 0..(n - 1)) = n * q + r
<1> DEFINE first(k) == IF k <= r THEN k ELSE r
           F == {k \in 0..n : SumFunctionOnSet(w, 0..(k - 1)) # k * q + first(k)}
<1> USE DEF Evenly
<1>1. SUFFICES ASSUME F # {} PROVE FALSE
  <2>1. n \in 0..n /\ first(n) = r
    OBVIOUS
  <2>2. F = {} => SumFunctionOnSet(w, 0..(n - 1)) = n * q + first(n)
    BY <2>1
  <2>3. QED
    BY <2>1, <2>2
<1>2. F \in SUBSET Nat
  OBVIOUS
<1>3. PICK k \in F : \A m \in F : k <= m
  BY <1>1, <1>2, LeastNumber
<1>4. k # 0
  <2>1. SumFunctionOnSet(w, {}) = 0 /\ 0..(0 - 1) = {}
    BY SumOfNone
  <2>2. 0 * q + first(0) = 0
    OBVIOUS
  <2>3. QED
    BY <2>1, <2>2
<1>5. PICK j \in Nat : k = j + 1
  BY <1>2, <1>4
<1>6. j \in 0..(n - 1) /\ j \notin F
  BY <1>3, <1>5
<1>7. SumFunctionOnSet(w, 0..(j - 1)) = j * q + first(j)
  BY <1>6
<1>8. 0..(k - 1) = (0..(j - 1)) \cup {j} /\ j \notin 0..(j - 1)
  BY <1>5
<1>9. IsFiniteSet(0..(j - 1))
  BY FS_Interval
<1>10. \A i \in (0..(j - 1)) \cup {j} : w[i] \in Int
  BY <1>6
<1>11. SumFunctionOnSet(w, 0..(k - 1)) = SumFunctionOnSet(w, 0..(j - 1)) + w[j]
  <2>1. SumFunctionOnSet(w, (0..(j - 1)) \cup {j}) = SumFunctionOnSet(w, 0..(j - 1)) + w[j]
    BY <1>8, <1>9, <1>10, SumGrows
  <2>2. QED
    BY <1>8, <2>1
<1>12. w[j] = q + (IF j < r THEN 1 ELSE 0)
  BY <1>6
<1>13. (j + 1) * q = j * q + q
  OBVIOUS
<1>14. first(j + 1) = first(j) + (IF j < r THEN 1 ELSE 0)
  OBVIOUS
<1>15. SumFunctionOnSet(w, 0..(k - 1)) = k * q + first(k)
  <2>1. j * q \in Nat /\ first(j) \in Nat
    OBVIOUS
  <2>2. QED
    BY <1>5, <1>7, <1>11, <1>12, <1>13, <1>14, <2>1
<1>16. QED
  BY <1>15

\* All shares are what was asked for, none is empty and none two more than another.
LEMMA SharesAreEven ==
    ASSUME FleetOK, Cardinality(fleet.agents) >= 2, fleet.workers >= Cardinality(fleet.agents)
    PROVE  /\ SumFunctionOnSet([a \in fleet.agents |-> Share(a)], fleet.agents) = fleet.workers
           /\ \A a \in fleet.agents : Share(a) \in Nat /\ Share(a) >= 1
           /\ \A a, b \in fleet.agents : Share(a) - Share(b) <= 1
<1> DEFINE A == fleet.agents
           n == Cardinality(A)
           q == fleet.workers \div n
           r == fleet.workers % n
           w == [i \in 0..(n - 1) |-> q + (IF i < r THEN 1 ELSE 0)]
           v == [a \in A |-> Share(a)]
           b == [a \in A |-> Rank(a)]
<1>1. n \in Nat /\ n >= 2 /\ fleet.workers \in Nat /\ fleet.workers >= n
  BY RanksAreDistinct DEF FleetOK
<1>2. q \in Nat /\ q >= 1 /\ r \in Nat /\ r < n /\ fleet.workers = n * q + r
  <2> HIDE DEF n
  <2>1. q \in Nat /\ r \in 0..(n - 1) /\ fleet.workers = n * q + r
    BY <1>1
  <2>2. q # 0
    <3> HIDE DEF q, r
    <3>1. n * 0 = 0
      BY <1>1
    <3>2. q = 0 => n * q = 0
      BY <3>1
    <3>3. QED
      BY <1>1, <2>1, <3>2
  <2>3. QED
    BY <1>1, <2>1, <2>2
<1>3. \A a \in A : Share(a) = q + (IF Rank(a) < r THEN 1 ELSE 0)
  BY DEF Share
<1>4. \A a \in A : Rank(a) \in 0..(n - 1)
  BY RanksAreDistinct
<1> HIDE DEF n, q, r
<1>5. \A a \in A : v[a] = w[b[a]] /\ v[a] \in Int
  BY <1>2, <1>3, <1>4
<1>6. Renames(b, A, 0..(n - 1), v, w)
  <2>1. \A x, y \in A : b[x] = b[y] => x = y
    BY RanksAreDistinct
  <2>2. \A i \in 0..(n - 1) : \E a \in A : b[a] = i
    BY RanksAreDistinct DEF n
  <2>3. QED
    BY <1>4, <1>5, <2>1, <2>2 DEF Renames
<1>7. SumFunctionOnSet(v, A) = SumFunctionOnSet(w, 0..(n - 1))
  BY <1>6, SumRenamed DEF FleetOK
<1>8. SumFunctionOnSet(w, 0..(n - 1)) = n * q + r
  <2>1. Evenly(w, n, q, r)
    BY <1>1, <1>2 DEF Evenly
  <2> HIDE DEF w
  <2>2. QED
    BY <1>1, <1>2, <2>1, SharesAddUp
<1>9. \A a \in A : Share(a) \in Nat /\ Share(a) >= 1 /\ Share(a) <= q + 1 /\ Share(a) >= q
  BY <1>2, <1>3
<1>10. \A x, y \in A : Share(x) - Share(y) <= 1
  BY <1>2, <1>9
<1>11. QED
  BY <1>2, <1>7, <1>8, <1>9, <1>10

\* Every worker's record is one of calls that may be made.
CallsOK == recorded \in [Agents -> Calls]

\* Figures are numbers, and those of tools that were not called are zero.
LEMMA FiguresAdd ==
    ASSUME CallsOK, fleet \in Fleets, NEW a \in fleet.agents, NEW T
    PROVE  /\ \A O : Figure(a, O, T) \in Nat
           /\ \A O : (\A i \in DOMAIN recorded[a] : recorded[a][i].tool \notin T) => Figure(a, O, T) = 0
<1> DEFINE those(O) == {i \in DOMAIN recorded[a] : recorded[a][i].outcome \in O /\ recorded[a][i].tool \in T}
<1>1. a \in Agents
  BY DEF Agents
<1>2. PICK n \in 0..fleet.calls : recorded[a] \in [1..n -> [outcome : Outcomes, tool : Tools]]
  BY <1>1 DEF CallsOK, Calls
<1>3. n \in Nat
  BY CohortAssumption
<1>4. IsFiniteSet(DOMAIN recorded[a])
  BY <1>2, <1>3, FS_Interval
<1>5. \A O : IsFiniteSet(those(O)) /\ Cardinality(those(O)) \in Nat /\ Figure(a, O, T) = Cardinality(those(O))
  <2> SUFFICES ASSUME NEW O
               PROVE  IsFiniteSet(those(O)) /\ Cardinality(those(O)) \in Nat /\ Figure(a, O, T) = Cardinality(those(O))
    OBVIOUS
  <2>1. those(O) \in SUBSET (DOMAIN recorded[a])
    OBVIOUS
  <2>2. IsFiniteSet(those(O))
    BY <1>4, <2>1, FS_Subset
  <2>3. QED
    BY <2>2, FS_CardinalityType DEF Figure
<1>7. \A O : (\A i \in DOMAIN recorded[a] : recorded[a][i].tool \notin T) => Figure(a, O, T) = 0
  <2> SUFFICES ASSUME NEW O, \A i \in DOMAIN recorded[a] : recorded[a][i].tool \notin T PROVE Figure(a, O, T) = 0
    OBVIOUS
  <2>1. those(O) = {}
    OBVIOUS
  <2>2. Cardinality(those(O)) = 0
    BY <2>1, FS_EmptySet
  <2>3. QED
    BY <1>5, <2>2
<1>8. QED
  BY <1>5, <1>7

\* One more at any place.
LEMMA BumpedIsCounts ==
    ASSUME NEW S, NEW f \in [S -> Nat], NEW x \in S
    PROVE  [f EXCEPT ![x] = @ + 1] \in [S -> Nat]
<1>1. \A n \in Nat : n + 1 \in Nat
  OBVIOUS
<1>2. f[x] \in Nat
  OBVIOUS
<1>3. QED
  BY <1>1, <1>2

\* What a worker of any version sends are numbers of known tools.
LEMMA MetricsAreSent ==
    ASSUME CallsOK, fleet \in Fleets, NEW a \in fleet.agents, NEW T
    PROVE  LET m == MetricsOf(a, T) IN m \in Counter /\ Lossy(m) \in Counter /\ Recounted(m) \in Counter
<1>1. \A O : Figure(a, O, T) \in Nat
  BY FiguresAdd
<1>2. MetricsOf(a, T) \in Counter
  BY <1>1 DEF MetricsOf, Counter
<1>3. Lossy(MetricsOf(a, T)) \in Counter
  BY <1>2 DEF Lossy, Counter
<1>4. Recounted(MetricsOf(a, T)) \in Counter
  <2> DEFINE m == MetricsOf(a, T)
  <2>1. m.outcomes \in [Outcomes -> Nat] /\ m.latency \in [Latencies -> Nat]
    BY <1>2 DEF Counter
  <2> HIDE DEF m
  <2>2. [m.outcomes EXCEPT !["Success"] = @ + 1] \in [Outcomes -> Nat]
    BY <2>1, BumpedIsCounts DEF Outcomes
  <2>3. [m.latency EXCEPT ![LatencyOf("Success")] = @ + 1] \in [Latencies -> Nat]
    BY <2>1, BumpedIsCounts DEF LatencyOf, Latencies
  <2>4. Recounted(m) \in Counter
    BY <2>2, <2>3 DEF Recounted, Bumped, Counter
  <2>5. QED
    BY <2>4 DEF m
<1>5. QED
  BY <1>2, <1>3, <1>4

LEMMA EvidenceIsSent ==
    ASSUME CallsOK, fleet \in Fleets, ShardsPlanned, NEW a \in fleet.agents
    PROVE  LET e == Evidence(a) IN
           /\ e.shard.workers \in Nat /\ e.shard.index \in Int /\ e.shard.index >= 0
           /\ e.metrics \in Counter /\ DOMAIN e.tools \subseteq Tools
           /\ \A t \in DOMAIN e.tools : e.tools[t] \in Counter
<1> DEFINE h == HonestEvidence(a)
           used == {c.tool : c \in Range(recorded[a])}
<1>1. FleetOK /\ fleet.quirk[a] \in Quirk /\ a \in Agents
  BY FleetsAreOK, CohortAssumption DEF Agents
<1>2. /\ Rank(a) \in Int /\ Rank(a) >= 0 /\ Cardinality(fleet.agents) \in Nat /\ Share(a) \in Nat
      /\ shards[a] = [index |-> Rank(a), count |-> Cardinality(fleet.agents), workers |-> Share(a)]
  BY <1>1, RanksAreDistinct, SharesAreEven DEF ShardsPlanned
<1>3. used \subseteq Tools
  <2>1. PICK n \in 0..fleet.calls : recorded[a] \in [1..n -> [outcome : Outcomes, tool : Tools]]
    BY <1>1 DEF CallsOK, Calls
  <2>2. QED
    BY <2>1 DEF Range
<1>4. /\ h.shard = shards[a] /\ h.metrics = MetricsOf(a, Tools)
      /\ DOMAIN h.tools = used /\ \A t \in used : h.tools[t] = MetricsOf(a, {t})
  BY DEF HonestEvidence
<1>5. Evidence(a).shard.workers \in Nat /\ Evidence(a).shard.index \in Int /\ Evidence(a).shard.index >= 0
  <2>1. Evidence(a).shard.workers \in {h.shard.workers, h.shard.workers + 1}
    BY <1>1, <1>2, <1>4 DEF Evidence, Quirk, Noticed, Unnoticed, HonestEvidence
  <2>2. Evidence(a).shard.index \in {h.shard.index, 0, h.shard.count}
    BY <1>1, <1>2, <1>4 DEF Evidence, Quirk, Noticed, Unnoticed, HonestEvidence
  <2>3. QED
    BY <1>2, <1>4, <2>1, <2>2
<1>6. Evidence(a).metrics \in {h.metrics, Lossy(h.metrics), Recounted(h.metrics)}
  BY <1>1 DEF Evidence, Quirk, Noticed, Unnoticed, HonestEvidence
<1>7. /\ DOMAIN Evidence(a).tools \subseteq used
      /\ \A t \in DOMAIN Evidence(a).tools : Evidence(a).tools[t] \in {h.tools[t], Lossy(h.tools[t])}
  <2>1. Evidence(a).tools \in {h.tools, [t \in DOMAIN h.tools |-> Lossy(h.tools[t])], <<>>}
    BY <1>1 DEF Evidence, Quirk, Noticed, Unnoticed, HonestEvidence
  <2> HIDE DEF h
  <2>2. CASE Evidence(a).tools = h.tools
    BY <1>4, <2>2
  <2>3. CASE Evidence(a).tools = [t \in DOMAIN h.tools |-> Lossy(h.tools[t])]
    BY <1>4, <2>3
  <2>4. CASE Evidence(a).tools = <<>>
    BY <2>4
  <2>5. QED
    BY <2>1, <2>2, <2>3, <2>4
<1>8. Evidence(a).metrics \in Counter
  BY <1>4, <1>6, MetricsAreSent
<1>9. \A t \in used : MetricsOf(a, {t}) \in Counter /\ Lossy(MetricsOf(a, {t})) \in Counter
  BY MetricsAreSent
<1>10. QED
  BY <1>3, <1>4, <1>5, <1>7, <1>8, <1>9

\* What a worker that counts and tells everything says are its calls.
LEMMA EvidenceIsTrue ==
    ASSUME CallsOK, fleet \in Fleets, ShardsPlanned, NEW a \in fleet.agents, fleet.quirk[a] \notin Unnoticed
    PROVE  /\ Evidence(a).shard.workers = Share(a)
           /\ \A o \in Outcomes : Evidence(a).metrics.outcomes[o] = Figure(a, {o}, Tools)
           /\ \A t \in Tools, o \in Outcomes : Said(a, t).outcomes[o] = Figure(a, {o}, {t})
<1> DEFINE h == HonestEvidence(a)
           used == {c.tool : c \in Range(recorded[a])}
<1>1. fleet.quirk[a] \in {"none"} \cup Noticed /\ a \in Agents
  BY CohortAssumption DEF Agents, Quirk
<1>2. /\ h.shard = shards[a] /\ h.metrics = MetricsOf(a, Tools) /\ shards[a].workers = Share(a)
      /\ DOMAIN h.tools = used /\ \A t \in used : h.tools[t] = MetricsOf(a, {t})
  BY DEF HonestEvidence, ShardsPlanned
<1>3. \A T : \A o \in Outcomes : MetricsOf(a, T).outcomes[o] = Figure(a, {o}, T)
  BY DEF MetricsOf
<1>4. \A T : \A o \in Outcomes : Lossy(MetricsOf(a, T)).outcomes[o] = Figure(a, {o}, T)
  BY <1>3 DEF MetricsOf, Lossy
<1>5. Evidence(a).shard.workers = h.shard.workers
  <2>1. h = [h EXCEPT !.shard = h.shard] /\ h.shard = [index |-> Rank(a), count |-> Cardinality(fleet.agents), workers |-> Share(a)]
    BY DEF HonestEvidence, ShardsPlanned
  <2>2. QED
    BY <1>1, <2>1 DEF Evidence, Noticed, HonestEvidence
<1>6. Evidence(a).metrics = h.metrics \/ Evidence(a).metrics = Lossy(h.metrics)
  BY <1>1 DEF Evidence, Noticed, HonestEvidence
<1>7. Evidence(a).tools = h.tools \/ Evidence(a).tools = [t \in DOMAIN h.tools |-> Lossy(h.tools[t])]
  BY <1>1 DEF Evidence, Noticed, HonestEvidence
<1> HIDE DEF h
<1>8. ASSUME NEW t \in Tools, NEW o \in Outcomes PROVE Said(a, t).outcomes[o] = Figure(a, {o}, {t})
  <2>1. CASE t \in used
    <3>1. t \in DOMAIN Evidence(a).tools /\ Evidence(a).tools[t] \in {MetricsOf(a, {t}), Lossy(MetricsOf(a, {t}))}
      BY <1>2, <1>7, <2>1
    <3>2. QED
      BY <1>3, <1>4, <3>1 DEF Said, ToolMetrics
  <2>2. CASE t \notin used
    <3>1. t \notin DOMAIN Evidence(a).tools
      BY <1>2, <1>7, <2>2
    <3>2. \A i \in DOMAIN recorded[a] : recorded[a][i].tool \notin {t}
      BY <2>2 DEF Range
    <3>3. Figure(a, {o}, {t}) = 0
      BY <3>2, FiguresAdd
    <3>4. QED
      BY <3>1, <3>3 DEF Said, ToolMetrics, NoMetrics, Nothing
  <2>3. QED
    BY <2>1, <2>2
<1>9. Evidence(a).shard.workers = Share(a)
  BY <1>2, <1>5
<1>10. \A o \in Outcomes : Evidence(a).metrics.outcomes[o] = Figure(a, {o}, Tools)
  <2>1. Evidence(a).metrics \in {MetricsOf(a, Tools), Lossy(MetricsOf(a, Tools))}
    BY <1>2, <1>6
  <2>2. QED
    BY <1>3, <1>4, <2>1
<1>11. QED
  BY <1>8, <1>9, <1>10

\* It stays what it is.
LEMMA EvidenceStays ==
    ASSUME fleet' = fleet, shards' = shards, recorded' = recorded
    PROVE  /\ \A a : Evidence(a)' = Evidence(a)
           /\ SaidOfAll' = SaidOfAll /\ \A t : SaidOf(t)' = SaidOf(t)
<1>1. \A a, T : MetricsOf(a, T)' = MetricsOf(a, T)
  BY DEF MetricsOf, Figure
<1>2. \A a : HonestEvidence(a)' = HonestEvidence(a)
  BY <1>1 DEF HonestEvidence
<1>3. \A a : Evidence(a)' = Evidence(a)
  BY <1>2 DEF Evidence
<1>4. QED
  BY <1>3 DEF SaidOfAll, SaidOf, Said

\* Merging what a worker sent accounts for its calls as well.
LEMMA MeteredGrows ==
    ASSUME fleet \in Fleets, NEW S \in SUBSET fleet.agents, NEW a \in fleet.agents, a \notin S, NEW w, NEW m,
           \A b \in fleet.agents : w[b] \in Counter, Metered(S, m, w), NEW x, x = w[a],
           Total(x.latency) = LatencyOutcomes(x)
    PROVE  Metered(S \cup {a}, AddedMetrics(m, x), w)
<1>1. IsFiniteSet(S)
  BY FleetsAreOK, FS_Subset DEF FleetOK
<1>2. \A o \in Outcomes : Sum(S \cup {a}, w, o) = Sum(S, w, o) + x.outcomes[o]
  <2> SUFFICES ASSUME NEW o \in Outcomes PROVE Sum(S \cup {a}, w, o) = Sum(S, w, o) + x.outcomes[o]
    OBVIOUS
  <2> DEFINE v == [b \in fleet.agents |-> w[b].outcomes[o]]
  <2>1. \A b \in fleet.agents : v[b] \in Int
    BY DEF Counter
  <2>2. v[a] = x.outcomes[o]
    OBVIOUS
  <2> HIDE DEF v
  <2>3. SumFunctionOnSet(v, S \cup {a}) = SumFunctionOnSet(v, S) + v[a]
    BY <1>1, <2>1, SumGrows
  <2>4. QED
    BY <2>2, <2>3 DEF Sum, v
<1> DEFINE y == AddedMetrics(m, x)
<1>3. /\ m.outcomes \in [Outcomes -> Nat] /\ x.outcomes \in [Outcomes -> Nat]
      /\ m.latency \in [Latencies -> Nat] /\ x.latency \in [Latencies -> Nat]
  BY DEF Metered, Counter
<1>4. /\ y = [outcomes |-> y.outcomes, latency |-> y.latency]
      /\ y.outcomes = [o \in Outcomes |-> m.outcomes[o] + x.outcomes[o]]
      /\ y.latency = [l \in Latencies |-> m.latency[l] + x.latency[l]]
  BY <1>3 DEF AddedMetrics, Added
<1> HIDE DEF y
<1>5. y.outcomes \in [Outcomes -> Nat] /\ y.latency \in [Latencies -> Nat]
  BY <1>3, <1>4
<1>6. y \in Counter
  BY <1>4, <1>5 DEF Counter
<1>7. \A o \in Outcomes : y.outcomes[o] = Sum(S \cup {a}, w, o)
  BY <1>2, <1>4 DEF Metered
<1>8. Total(y.latency) = Total(m.latency) + Total(x.latency)
  <2>1. /\ Total(y.latency) = y.latency[1] + y.latency[2] /\ Total(m.latency) = m.latency[1] + m.latency[2]
        /\ Total(x.latency) = x.latency[1] + x.latency[2]
    BY <1>3, <1>5, TotalOfTwo
  <2>2. /\ y.latency[1] = m.latency[1] + x.latency[1] /\ y.latency[2] = m.latency[2] + x.latency[2]
        /\ m.latency[1] \in Nat /\ m.latency[2] \in Nat /\ x.latency[1] \in Nat /\ x.latency[2] \in Nat
    BY <1>3, <1>4 DEF Latencies
  <2>3. QED
    BY <2>1, <2>2
<1>9. Total(y.latency) = LatencyOutcomes(y)
  <2>1. "Success" \in Outcomes /\ "Hang" \in Outcomes
    BY DEF Outcomes
  <2>2. Total(x.latency) = x.outcomes["Success"] + x.outcomes["Hang"]
    BY DEF LatencyOutcomes
  <2>3. Total(m.latency) = m.outcomes["Success"] + m.outcomes["Hang"]
    BY DEF Metered, LatencyOutcomes
  <2>4. \A o \in {"Success", "Hang"} : m.outcomes[o] \in Nat /\ x.outcomes[o] \in Nat /\ y.outcomes[o] = m.outcomes[o] + x.outcomes[o]
    BY <1>3, <1>4, <2>1
  <2>5. QED
    BY <1>8, <2>2, <2>3, <2>4 DEF LatencyOutcomes
<1>10. QED
  BY <1>6, <1>7, <1>9 DEF Metered, y

\* Nothing is what no member has.
LEMMA NothingIsMetered ==
    /\ NoMetrics \in Counter /\ Total(NoMetrics.latency) = 0 /\ LatencyOutcomes(NoMetrics) = 0
    /\ \A w : Metered({}, NoMetrics, w) /\ Metered({}, NoMetrics, w)'
<1>1. NoMetrics.latency = NoLatency /\ NoMetrics.outcomes = Nothing /\ NoMetrics \in Counter
  BY DEF NoMetrics, Counter, Nothing, NoLatency
<1>2. NoLatency \in [Latencies -> Nat] /\ NoLatency[1] = 0 /\ NoLatency[2] = 0
  BY DEF NoLatency, Latencies
<1>3. Total(NoLatency) = 0
  BY <1>2, TotalOfTwo
<1>4. \A w, o : Sum({}, w, o) = 0
  BY SumOfNone DEF Sum
<1>5. \A w, o : Sum({}, w, o)' = 0
  BY SumOfNone DEF Sum
<1>6. \A o \in Outcomes : NoMetrics.outcomes[o] = 0
  BY <1>1 DEF Nothing
<1>7. LatencyOutcomes(NoMetrics) = 0
  BY <1>6 DEF LatencyOutcomes, Outcomes
<1>8. \A w : Metered({}, NoMetrics, w)
  BY <1>1, <1>3, <1>4, <1>6, <1>7 DEF Metered
<1>9. \A w : Metered({}, NoMetrics, w)'
  BY <1>1, <1>3, <1>5, <1>6, <1>7 DEF Metered
<1>10. QED
  BY <1>1, <1>3, <1>7, <1>8, <1>9

LEMMA NothingIsMerged ==
    /\ fleet \in Fleets /\ merged = NothingMerged => MergeOK
    /\ fleet' \in Fleets /\ merged' = NothingMerged => MergeOK'
<1>1. /\ NothingMerged.agents = {} /\ NothingMerged.indices = {} /\ NothingMerged.workers = 0
      /\ NothingMerged.metrics = NoMetrics /\ NothingMerged.tools = <<>> /\ DOMAIN <<>> = {}
  BY DEF NothingMerged
<1>2. \A t : ToolMetrics(<<>>, t) = NoMetrics
  BY <1>1 DEF ToolMetrics
<1>3. \A w : SumFunctionOnSet(w, {}) = 0
  BY SumOfNone
<1>4. ASSUME merged = NothingMerged PROVE MergeOK
  BY <1>1, <1>2, <1>3, <1>4, NothingIsMetered DEF MergeOK
<1>5. ASSUME merged' = NothingMerged PROVE MergeOK'
  BY <1>1, <1>2, <1>3, <1>5, NothingIsMetered DEF MergeOK
<1>6. QED
  BY <1>4, <1>5

\* The invariant holds of a cohort that begins, and every step of it keeps it.
LEMMA CohortBegins == \A f \in Fleets : CohortInit(f) => CohortInv
<1> SUFFICES ASSUME NEW f \in Fleets, CohortInit(f) PROVE CohortInv
  OBVIOUS
<1> USE DEF CohortInit
<1>1. <<>> \in Calls
  <2>1. 0 \in 0..fleet.calls /\ 1..0 = {}
    BY CohortAssumption
  <2>2. <<>> \in [1..0 -> [outcome : Outcomes, tool : Tools]]
    OBVIOUS
  <2>3. QED
    BY <2>1, <2>2 DEF Calls
<1>2. recorded \in [Agents -> Calls]
  BY <1>1
<1>3. MergeOK
  BY NothingIsMerged
<1>4. WorkersOK
  BY DEF WorkersOK, Agents
<1>5. QED
  BY <1>2, <1>3, <1>4 DEF CohortInv

LEMMA CohortStutters ==
    ASSUME CohortInv, UNCHANGED cohortVars
    PROVE  CohortInv'
<1>1. /\ fleet' = fleet /\ shards' = shards /\ worker' = worker /\ allowing' = allowing
      /\ recorded' = recorded /\ merged' = merged /\ cohort' = cohort
  BY DEF cohortVars
<1>2. Calls' = Calls /\ ShardsPlanned' = ShardsPlanned /\ Summarized' = Summarized
  BY <1>1 DEF Calls, ShardsPlanned, Summarized, Rank, Share
<1>3. WorkersOK' = WorkersOK
  BY <1>1 DEF WorkersOK, Authorizes, Exceptions
<1>4. MergeOK' = MergeOK
  BY <1>1, EvidenceStays DEF MergeOK, Metered, Sum
<1>5. QED
  BY <1>1, <1>2, <1>3, <1>4 DEF CohortInv

LEMMA PlanShardsKeeps ==
    ASSUME CohortInv, PlanShards
    PROVE  CohortInv'
<1>1. /\ cohort = "configured" /\ fleet' = fleet /\ allowing' = allowing /\ recorded' = recorded /\ merged' = merged
      /\ cohort' \in {"planned", "refused"} /\ Calls' = Calls
  BY DEF PlanShards, Calls
<1>2. MergeOK'
  BY <1>1, NothingIsMerged DEF CohortInv
<1>3. CASE cohort' = "refused"
  <2>1. shards' = <<>> /\ worker' = worker /\ \A a \in Agents : worker[a] = "idle"
    BY <1>1, <1>3 DEF PlanShards, CohortInv
  <2>2. WorkersOK'
    BY <1>1, <2>1 DEF WorkersOK, Agents, CohortInv
  <2>3. QED
    BY <1>1, <1>2, <1>3, <2>1, <2>2 DEF CohortInv
<1>4. CASE cohort' = "planned"
  <2>1. /\ Cardinality(fleet.agents) >= 2 /\ fleet.workers >= Cardinality(fleet.agents)
        /\ shards' = [a \in fleet.agents |-> [index |-> Rank(a), count |-> Cardinality(fleet.agents), workers |-> Share(a)]]
        /\ worker' = [a \in Agents |-> IF a \in fleet.agents THEN "prepared" ELSE "idle"]
    BY <1>1, <1>4 DEF PlanShards
  <2>2. ShardsPlanned'
    BY <1>1, <2>1 DEF ShardsPlanned, Rank, Share
  <2>3. shards' # <<>>
    <3>1. fleet.agents # {}
      BY <2>1, FS_EmptySet
    <3>2. QED
      BY <2>1, <3>1
  <2>4. WorkersOK'
    BY <1>1, <2>1 DEF WorkersOK, Agents, CohortInv
  <2>5. QED
    BY <1>1, <1>2, <1>4, <2>1, <2>2, <2>3, <2>4 DEF CohortInv
<1>5. QED
  BY <1>1, <1>3, <1>4

\* A plan has a shard for every agent.
LEMMA ShardsAreSome ==
    ASSUME fleet \in Fleets, ShardsPlanned
    PROVE  shards # <<>> /\ DOMAIN shards = fleet.agents /\ fleet.agents # {}
<1>1. fleet.agents # {}
  BY FS_EmptySet DEF ShardsPlanned
<1>2. QED
  BY <1>1 DEF ShardsPlanned

\* What the workers do before the merge.
LEMMA WorkersKeep ==
    ASSUME CohortInv, NEW a \in fleet.agents, Authorize(a) \/ RunShard(a)
    PROVE  CohortInv'
<1>1. /\ cohort = "planned" /\ fleet' = fleet /\ shards' = shards /\ merged' = merged /\ a \in Agents
      /\ cohort' \in {"planned", "refused"} /\ Calls' = Calls /\ merged = NothingMerged /\ ShardsPlanned
  BY DEF Authorize, RunShard, Calls, Agents, CohortInv
<1>2. shards # <<>> /\ ShardsPlanned'
  BY <1>1, ShardsAreSome DEF CohortInv, ShardsPlanned, Rank, Share
<1>3. MergeOK'
  BY <1>1, NothingIsMerged DEF CohortInv
<1>4. CASE Authorize(a)
  <2>1. recorded' = recorded
    BY <1>4 DEF Authorize
  <2>2. /\ worker' \in [Agents -> {"idle", "prepared", "denied", "running", "finished"}] /\ DOMAIN allowing' = Agents
        /\ \A b \in Agents \ {a} : worker'[b] = worker[b] /\ allowing'[b] = allowing[b]
        /\ worker'[a] = "denied" \/ (worker'[a] = "running" /\ Authorizes(a) /\ allowing'[a] = Exceptions(a))
    BY <1>1, <1>4 DEF Authorize, CohortInv
  <2>3. WorkersOK'
    BY <1>1, <2>2 DEF WorkersOK, Authorizes, Exceptions, Agents, CohortInv
  <2>4. QED
    BY <1>1, <1>2, <1>3, <2>1, <2>2, <2>3 DEF CohortInv
<1>5. CASE RunShard(a)
  <2>1. PICK c \in Calls : recorded' = [recorded EXCEPT ![a] = c]
    BY <1>5 DEF RunShard
  <2>2. recorded' \in [Agents -> Calls]
    BY <1>1, <2>1 DEF CohortInv
  <2>3. /\ worker' = [worker EXCEPT ![a] = "finished"] /\ worker[a] = "running" /\ allowing' = allowing /\ cohort' = cohort
    BY <1>5 DEF RunShard
  <2>4. WorkersOK'
    BY <1>1, <2>3 DEF WorkersOK, Authorizes, Exceptions, Agents, CohortInv
  <2>5. QED
    BY <1>1, <1>2, <1>3, <2>2, <2>3, <2>4 DEF CohortInv
<1>6. QED
  BY <1>4, <1>5

\* The merge begins or ends.
LEMMA MergeBounds ==
    ASSUME CohortInv, BeginMerge \/ EndMerge
    PROVE  CohortInv'
<1>1. /\ fleet' = fleet /\ shards' = shards /\ worker' = worker /\ allowing' = allowing
      /\ recorded' = recorded /\ merged' = merged /\ cohort \in {"planned", "merging"}
      /\ cohort' \in {"merging", "merged", "refused"}
      /\ cohort' = "merged" => merged.agents = fleet.agents /\ Summarized
  BY DEF BeginMerge, EndMerge
<1>2. Calls' = Calls /\ ShardsPlanned' = ShardsPlanned /\ Summarized' = Summarized
  BY <1>1 DEF Calls, ShardsPlanned, Summarized, Rank, Share
<1>3. WorkersOK' = WorkersOK
  BY <1>1 DEF WorkersOK, Authorizes, Exceptions
<1>4. MergeOK' = MergeOK
  BY <1>1, EvidenceStays DEF MergeOK, Metered, Sum
<1>5. ShardsPlanned /\ shards # <<>>
  BY <1>1, ShardsAreSome DEF CohortInv
<1>6. QED
  BY <1>1, <1>2, <1>3, <1>4, <1>5 DEF CohortInv

\* What is merged is one more member's evidence.
LEMMA MergeKeepsFigures ==
    ASSUME CohortInv, ShardsPlanned, NEW a \in fleet.agents, a \notin merged.agents, NEW e, e = Evidence(a), Merges(e),
           fleet' = fleet, shards' = shards, recorded' = recorded,
           merged'.agents = merged.agents \cup {a}, merged'.indices = merged.indices \cup {e.shard.index},
           merged'.workers = merged.workers + e.shard.workers,
           merged'.metrics = AddedMetrics(merged.metrics, e.metrics), merged'.tools = AddedTools(e)
    PROVE  MergeOK'
<1> DEFINE S == merged.agents
           n == Cardinality(fleet.agents)
<1>1. /\ FleetOK /\ fleet \in Fleets /\ CallsOK /\ S \in SUBSET fleet.agents
      /\ merged.indices \in SUBSET (0..(n - 1)) /\ Cardinality(merged.indices) = Cardinality(S)
  BY FleetsAreOK DEF CohortInv, CallsOK, MergeOK
<1>2. n \in Nat /\ IsFiniteSet(S) /\ IsFiniteSet(merged.indices)
  <2>1. n \in Nat
    BY <1>1, FS_CardinalityType DEF FleetOK
  <2>2. IsFiniteSet(S)
    BY <1>1, FS_Subset DEF FleetOK
  <2>3. IsFiniteSet(0..(n - 1))
    BY <2>1, FS_Interval
  <2>4. QED
    BY <1>1, <2>1, <2>2, <2>3, FS_Subset
<1>3. \A b \in fleet.agents :
         /\ Evidence(b).shard.workers \in Nat /\ Evidence(b).shard.index \in Int /\ Evidence(b).shard.index >= 0
         /\ Evidence(b).metrics \in Counter /\ DOMAIN Evidence(b).tools \subseteq Tools
         /\ \A t \in DOMAIN Evidence(b).tools : Evidence(b).tools[t] \in Counter
  BY <1>1, EvidenceIsSent
<1>t. \A b \in fleet.agents, t \in Tools : Said(b, t) \in Counter
  BY <1>3, NothingIsMetered DEF Said, ToolMetrics
<1>4. merged'.agents \subseteq fleet.agents
  BY <1>1
<1>5. /\ merged'.indices \subseteq 0..(n - 1)
      /\ Cardinality(merged'.indices) = Cardinality(merged'.agents)
  <2>1. e.shard.index < n /\ e.shard.index \notin merged.indices
    BY DEF Merges
  <2>2. Cardinality(merged'.indices) = Cardinality(merged.indices) + 1
    <3>1. Cardinality(merged.indices \cup {e.shard.index}) = Cardinality(merged.indices) + 1
      BY <1>2, <2>1, FS_AddElement
    <3>2. QED
      BY <3>1
  <2>3. Cardinality(merged'.agents) = Cardinality(S) + 1
    BY <1>2, FS_AddElement
  <2>4. QED
    BY <1>1, <1>2, <1>3, <2>1, <2>2, <2>3
<1>6. merged'.workers = SumFunctionOnSet([b \in fleet.agents |-> Evidence(b).shard.workers], merged'.agents)
  <2> DEFINE w == [b \in fleet.agents |-> Evidence(b).shard.workers]
  <2>1. \A b \in fleet.agents : w[b] \in Int
    BY <1>3
  <2>2. w[a] = e.shard.workers /\ merged.workers = SumFunctionOnSet(w, S)
    BY <1>3 DEF CohortInv, MergeOK
  <2> HIDE DEF w
  <2>3. SumFunctionOnSet(w, S \cup {a}) = SumFunctionOnSet(w, S) + w[a]
    <3>1. (\A b \in S \cup {a} : w[b] \in Int) /\ a \notin S /\ IsFiniteSet(S)
      BY <1>1, <1>2, <2>1
    <3> HIDE DEF S
    <3>2. QED
      BY ONLY <3>1, SumGrows
  <2>4. QED
    BY <2>2, <2>3 DEF w
<1>7. Decodes(e.metrics) /\ \A t \in DOMAIN e.tools : Decodes(e.tools[t])
  BY DEF Merges
<1>8. Metered(S \cup {a}, merged'.metrics, SaidOfAll)
  <2>1. Metered(S, merged.metrics, SaidOfAll)
    BY DEF CohortInv, MergeOK
  <2>2. (\A b \in fleet.agents : SaidOfAll[b] \in Counter) /\ e.metrics = SaidOfAll[a]
    BY <1>3 DEF SaidOfAll
  <2>3. Total(e.metrics.latency) = LatencyOutcomes(e.metrics)
    BY <1>7 DEF Decodes
  <2>4. Metered(S \cup {a}, AddedMetrics(merged.metrics, e.metrics), SaidOfAll)
    BY <1>1, <2>1, <2>2, <2>3, MeteredGrows
  <2>5. QED
    BY <2>4
<1>9. \A t \in Tools : Metered(S \cup {a}, ToolMetrics(merged'.tools, t), SaidOf(t))
  <2> SUFFICES ASSUME NEW t \in Tools PROVE Metered(S \cup {a}, ToolMetrics(merged'.tools, t), SaidOf(t))
    OBVIOUS
  <2> DEFINE m == ToolMetrics(merged.tools, t)
             x == ToolMetrics(e.tools, t)
  <2>1. Metered(S, m, SaidOf(t))
    BY DEF CohortInv, MergeOK
  <2>2. (\A b \in fleet.agents : SaidOf(t)[b] \in Counter) /\ x = SaidOf(t)[a]
    BY <1>t DEF SaidOf, Said
  <2>3. Total(x.latency) = LatencyOutcomes(x)
    BY <1>7, NothingIsMetered DEF ToolMetrics, Decodes
  <2>s. Metered(S \cup {a}, AddedMetrics(m, x), SaidOf(t))
    BY <1>1, <2>1, <2>2, <2>3, MeteredGrows
  <2>4. ToolMetrics(merged'.tools, t) = AddedMetrics(m, x)
    <3>1. CASE t \in DOMAIN merged.tools \cup DOMAIN e.tools
      BY <3>1 DEF AddedTools, ToolMetrics
    <3>2. CASE t \notin DOMAIN merged.tools \cup DOMAIN e.tools
      <4>1. m = NoMetrics /\ x = NoMetrics /\ ToolMetrics(merged'.tools, t) = NoMetrics
        BY <3>2 DEF AddedTools, ToolMetrics
      <4>2. AddedMetrics(NoMetrics, NoMetrics) = NoMetrics
        BY DEF AddedMetrics, Added, NoMetrics, Nothing, NoLatency
      <4>3. QED
        BY <4>1, <4>2
    <3>3. QED
      BY <3>1, <3>2
  <2>5. QED
    BY <2>s, <2>4
<1>10. DOMAIN merged'.tools \subseteq Tools
  BY <1>3 DEF AddedTools, CohortInv, MergeOK
<1>11. /\ \A b : Evidence(b)' = Evidence(b)
       /\ SaidOfAll' = SaidOfAll /\ \A t : SaidOf(t)' = SaidOf(t)
  BY EvidenceStays
<1>12. Metered(merged.agents, merged.metrics, SaidOfAll)'
  BY <1>8, <1>11 DEF Metered, Sum
<1>13. \A t \in Tools : Metered(merged.agents, ToolMetrics(merged.tools, t), SaidOf(t))'
  <2> SUFFICES ASSUME NEW t \in Tools PROVE Metered(merged.agents, ToolMetrics(merged.tools, t), SaidOf(t))'
    OBVIOUS
  <2>1. ToolMetrics(merged.tools, t)' = ToolMetrics(merged'.tools, t)
    BY DEF ToolMetrics
  <2>2. Metered(S \cup {a}, ToolMetrics(merged.tools, t)', SaidOf(t))
    BY <1>9, <2>1
  <2>3. QED
    BY <1>11, <2>2 DEF Metered, Sum
<1>14. QED
  BY <1>4, <1>5, <1>6, <1>10, <1>11, <1>12, <1>13 DEF MergeOK

LEMMA MergeNextKeeps ==
    ASSUME CohortInv, MergeNext
    PROVE  CohortInv'
<1>1. /\ cohort = "merging" /\ fleet' = fleet /\ shards' = shards /\ worker' = worker /\ allowing' = allowing
      /\ recorded' = recorded /\ merged.agents # fleet.agents /\ Calls' = Calls
  BY DEF MergeNext, Calls
<1>2. ShardsPlanned /\ ShardsPlanned' /\ shards # <<>> /\ FleetOK /\ merged.agents \subseteq fleet.agents
  BY <1>1, ShardsAreSome, FleetsAreOK DEF CohortInv, MergeOK, ShardsPlanned, Rank, Share
<1>3. WorkersOK' = WorkersOK
  BY <1>1 DEF WorkersOK, Authorizes, Exceptions
<1> DEFINE a == Min(fleet.agents \ merged.agents)
           e == Evidence(a)
<1>4. a \in fleet.agents \ merged.agents
  <2>1. fleet.agents \ merged.agents \in SUBSET Nat /\ fleet.agents \ merged.agents # {}
    BY <1>1, <1>2 DEF FleetOK
  <2>2. \E x \in fleet.agents \ merged.agents : \A y \in fleet.agents \ merged.agents : x <= y
    BY <2>1, LeastNumber
  <2>3. QED
    BY <2>2 DEF Min
<1> HIDE DEF a
<1>5. IF Merges(e)
      THEN /\ merged' = [agents |-> merged.agents \cup {a}, kinds |-> merged.kinds \cup {e.kind},
                         indices |-> merged.indices \cup {e.shard.index}, workers |-> merged.workers + e.shard.workers,
                         elapsed |-> Max({merged.elapsed, e.elapsed}),
                         metrics |-> AddedMetrics(merged.metrics, e.metrics), tools |-> AddedTools(e)]
           /\ cohort' = cohort
      ELSE cohort' = "refused" /\ merged' = merged
  BY DEF MergeNext, a
<1> HIDE DEF e
<1>6. CASE Merges(e)
  <2>1. MergeOK'
    BY <1>1, <1>2, <1>4, <1>5, <1>6, MergeKeepsFigures DEF e
  <2>2. QED
    BY <1>1, <1>2, <1>3, <1>5, <1>6, <2>1 DEF CohortInv
<1>7. CASE ~Merges(e)
  <2>1. MergeOK' = MergeOK
    BY <1>1, <1>5, <1>7, EvidenceStays DEF MergeOK, Metered, Sum
  <2>2. QED
    BY <1>1, <1>2, <1>3, <1>5, <1>7, <2>1 DEF CohortInv
<1>8. QED
  BY <1>6, <1>7

LEMMA CohortKeeps ==
    ASSUME CohortInv, CohortStep
    PROVE  CohortInv'
BY PlanShardsKeeps, WorkersKeep, MergeBounds, MergeNextKeeps DEF CohortStep

\* The report that comes of it is about every call, and no worker went beyond its policy.
LEMMA CohortShows == CohortInv => EvidenceOfAll
<1> SUFFICES ASSUME CohortInv PROVE EvidenceOfAll
  OBVIOUS
<1>1. FleetOK /\ fleet \in Fleets /\ CallsOK
  BY FleetsAreOK DEF CohortInv, CallsOK
<1>2. CohortTypeOK
  <2>1. ASSUME NEW b \in Agents PROVE Len(recorded[b]) <= fleet.calls
    <3>1. PICK k \in 0..fleet.calls : recorded[b] \in [1..k -> [outcome : Outcomes, tool : Tools]]
      <4>1. recorded[b] \in Calls
        BY DEF CohortInv
      <4>2. QED
        BY <4>1 DEF Calls
    <3>2. k \in Nat /\ fleet.calls \in Nat /\ k <= fleet.calls
      BY <1>1, CohortAssumption
    <3>3. Len(recorded[b]) = k
      BY <3>1, <3>2
    <3>4. QED
      BY <3>2, <3>3
  <2>2. QED
    BY <1>1, <2>1 DEF CohortTypeOK, CohortInv, MergeOK, Agents
<1>3. WorkersKeepTheirPolicy
  <2> SUFFICES ASSUME NEW a \in fleet.agents, worker[a] \in {"running", "finished"}
               PROVE  /\ shards[a].workers <= fleet.policy[a].workers
                      /\ fleet.target.secure \/ (fleet.policy[a].plaintext /\ ~fleet.target.credentials)
                      /\ fleet.target.host = "restricted" => "restricted" \in fleet.policy[a].hosts
                      /\ allowing[a] \subseteq fleet.policy[a].hosts
    BY DEF WorkersKeepTheirPolicy
  <2>1. Authorizes(a) /\ allowing[a] = Exceptions(a) /\ fleet.policy[a].workers \in Nat
    BY <1>1, CohortAssumption DEF CohortInv, WorkersOK
  <2>2. QED
    BY <2>1 DEF Authorizes, Exceptions
<1>4. ASSUME shards # <<>>
      PROVE  /\ SumFunction([a \in fleet.agents |-> shards[a].workers]) = fleet.workers
             /\ \A a, b \in fleet.agents : shards[a].workers >= 1 /\ shards[a].workers - shards[b].workers <= 1
  <2>1. ShardsPlanned
    BY <1>4 DEF CohortInv
  <2>2. [a \in fleet.agents |-> shards[a].workers] = [a \in fleet.agents |-> Share(a)]
    BY <2>1 DEF ShardsPlanned
  <2>3. SumFunctionOnSet([a \in fleet.agents |-> Share(a)], fleet.agents) = fleet.workers
    BY <1>1, <2>1, SharesAreEven DEF ShardsPlanned
  <2>4. \A a, b \in fleet.agents : Share(a) >= 1 /\ Share(a) - Share(b) <= 1
    BY <1>1, <2>1, SharesAreEven DEF ShardsPlanned
  <2>5. QED
    BY <2>1, <2>2, <2>3, <2>4 DEF SumFunction, ShardsPlanned
<1>5. ASSUME cohort = "merged"
      PROVE  /\ merged.indices = 0..(Cardinality(fleet.agents) - 1)
             /\ merged.workers = SumFunction([a \in fleet.agents |-> Evidence(a).shard.workers])
             /\ \A o \in Outcomes : merged.metrics.outcomes[o] = AllSaid(o)
             /\ Total(merged.metrics.latency) = LatencyOutcomes(merged.metrics)
             /\ \A t \in Tools :
                   LET m == ToolMetrics(merged.tools, t) IN
                   /\ \A o \in Outcomes : m.outcomes[o] = AllSaidOf(o, t)
                   /\ Total(m.latency) = LatencyOutcomes(m)
             /\ Total(merged.metrics.outcomes) \in 0..(Width - 1) /\ (merged.elapsed = 0 => merged.metrics = NoMetrics)
  <2>1. merged.agents = fleet.agents /\ Summarized /\ MergeOK /\ ShardsPlanned /\ shards # <<>>
    BY <1>1, <1>5, ShardsAreSome DEF CohortInv
  <2>2. \A o \in Outcomes : /\ AllSaid(o) = Sum(fleet.agents, SaidOfAll, o)
                           /\ \A t \in Tools : AllSaidOf(o, t) = Sum(fleet.agents, SaidOf(t), o)
    <3>1. \A o \in Outcomes : /\ [a \in fleet.agents |-> SaidOfAll[a].outcomes[o]]
                                    = [a \in fleet.agents |-> Evidence(a).metrics.outcomes[o]]
                             /\ \A t \in Tools : [a \in fleet.agents |-> SaidOf(t)[a].outcomes[o]]
                                                    = [a \in fleet.agents |-> Said(a, t).outcomes[o]]
      BY DEF SaidOfAll, SaidOf
    <3>2. QED
      BY <3>1 DEF AllSaid, AllSaidOf, Sum, SumFunction
  <2>3. merged.workers = SumFunction([a \in fleet.agents |-> Evidence(a).shard.workers])
    BY <2>1 DEF MergeOK, SumFunction
  <2>4. merged.indices = 0..(Cardinality(fleet.agents) - 1)
    <3> DEFINE n == Cardinality(fleet.agents)
    <3>1. n \in Nat
      BY <1>1, FS_CardinalityType DEF FleetOK
    <3>2. merged.indices \in SUBSET (0..(n - 1)) /\ Cardinality(merged.indices) = n
      BY <2>1 DEF MergeOK
    <3> HIDE DEF n
    <3>3. IsFiniteSet(0..(n - 1)) /\ Cardinality(0..(n - 1)) = n
      BY <3>1, FS_Interval
    <3>4. merged.indices = 0..(n - 1)
      BY <3>2, <3>3, FS_Subset
    <3>5. QED
      BY <3>4 DEF n
  <2>6. Metered(fleet.agents, merged.metrics, SaidOfAll) /\ \A t \in Tools : Metered(fleet.agents, ToolMetrics(merged.tools, t), SaidOf(t))
    BY <2>1 DEF MergeOK
  <2>5. /\ \A o \in Outcomes : merged.metrics.outcomes[o] = AllSaid(o)
        /\ Total(merged.metrics.latency) = LatencyOutcomes(merged.metrics)
        /\ \A t \in Tools :
              LET m == ToolMetrics(merged.tools, t) IN
              /\ \A o \in Outcomes : m.outcomes[o] = AllSaidOf(o, t)
              /\ Total(m.latency) = LatencyOutcomes(m)
    BY <2>2, <2>6 DEF Metered
  <2> DEFINE f == merged.metrics.outcomes
             g == merged.metrics.latency
  <2>7. /\ f \in [Outcomes -> Nat] /\ g \in [Latencies -> Nat]
        /\ merged.metrics = [outcomes |-> f, latency |-> g]
    BY <2>6 DEF Metered, Counter
  <2>8. Total(f) = f["Success"] + f["Hang"] + f["ExpectedRejection"] + f["ServerError"] /\ Total(g) = g[1] + g[2]
    BY <2>7, TotalOfFour, TotalOfTwo
  <2>9. f["Success"] \in Nat /\ f["Hang"] \in Nat /\ f["ExpectedRejection"] \in Nat /\ f["ServerError"] \in Nat
    BY <2>7 DEF Outcomes
  <2>10. Total(f) \in 0..(Width - 1)
    <3>1. Total(f) < Width /\ Width \in Nat
      BY <2>1, CohortAssumption DEF Summarized, Fits
    <3>2. Total(f) \in Nat
      BY <2>8, <2>9
    <3>3. QED
      BY <3>1, <3>2
  <2>11. ASSUME merged.elapsed = 0 PROVE merged.metrics = NoMetrics
    <3>1. Total(f) = 0
      BY <2>1, <2>10, <2>11 DEF Summarized
    <3>2. \A o \in Outcomes : f[o] = 0
      <4>1. f["Success"] = 0 /\ f["Hang"] = 0 /\ f["ExpectedRejection"] = 0 /\ f["ServerError"] = 0
        <5> DEFINE a == f["Success"]
                   b == f["Hang"]
                   c == f["ExpectedRejection"]
                   d == f["ServerError"]
        <5>1. a \in Nat /\ b \in Nat /\ c \in Nat /\ d \in Nat /\ a + b + c + d = 0
          BY <2>8, <2>9, <3>1
        <5> HIDE DEF a, b, c, d
        <5>2. a = 0 /\ b = 0 /\ c = 0 /\ d = 0
          BY <5>1
        <5>3. QED
          BY <5>2 DEF a, b, c, d
      <4>2. QED
        BY <4>1 DEF Outcomes
    <3>3. Total(g) = 0
      BY <2>6, <3>2 DEF Metered, LatencyOutcomes, Outcomes
    <3>4. g[1] = 0 /\ g[2] = 0
      BY <2>7, <2>8, <3>3 DEF Latencies
    <3>5. f = Nothing /\ g = NoLatency
      BY <2>7, <3>2, <3>4 DEF Nothing, NoLatency, Latencies
    <3>6. QED
      BY <2>7, <3>5 DEF NoMetrics
  <2>12. QED
    BY <2>3, <2>4, <2>5, <2>10, <2>11
<1>6. ASSUME cohort = "merged", \A a \in fleet.agents : fleet.quirk[a] \notin Unnoticed
      PROVE  /\ merged.workers = fleet.workers
             /\ \A o \in Outcomes : merged.metrics.outcomes[o] = AllCalls(o, Tools)
             /\ \A t \in Tools, o \in Outcomes : ToolMetrics(merged.tools, t).outcomes[o] = AllCalls(o, {t})
  <2>1. ShardsPlanned
    BY <1>6 DEF CohortInv
  <2>2. \A a \in fleet.agents :
           /\ Evidence(a).shard.workers = Share(a)
           /\ \A o \in Outcomes : Evidence(a).metrics.outcomes[o] = Figure(a, {o}, Tools)
           /\ \A t \in Tools, o \in Outcomes : Said(a, t).outcomes[o] = Figure(a, {o}, {t})
    BY <1>1, <1>6, <2>1, EvidenceIsTrue
  <2>3. merged.workers = fleet.workers
    <3>1. [a \in fleet.agents |-> Evidence(a).shard.workers] = [a \in fleet.agents |-> Share(a)]
      BY <2>2
    <3>2. SumFunctionOnSet([a \in fleet.agents |-> Share(a)], fleet.agents) = fleet.workers
      BY <1>1, <2>1, SharesAreEven DEF ShardsPlanned
    <3>3. QED
      BY <1>5, <1>6, <3>1, <3>2 DEF SumFunction
  <2>4. ASSUME NEW o \in Outcomes
        PROVE  AllSaid(o) = AllCalls(o, Tools) /\ \A t \in Tools : AllSaidOf(o, t) = AllCalls(o, {t})
    <3>1. [a \in fleet.agents |-> Evidence(a).metrics.outcomes[o]] = [a \in fleet.agents |-> Figure(a, {o}, Tools)]
      BY <2>2
    <3>2. \A t \in Tools : [a \in fleet.agents |-> Said(a, t).outcomes[o]] = [a \in fleet.agents |-> Figure(a, {o}, {t})]
      BY <2>2
    <3>3. QED
      BY <3>1, <3>2 DEF AllSaid, AllSaidOf, AllCalls
  <2>5. QED
    BY <1>5, <1>6, <2>3, <2>4
<1>c. CohortIsExact
  BY <1>4, <1>5, <1>6 DEF CohortIsExact
<1>7. QED
  BY <1>2, <1>3, <1>c DEF EvidenceOfAll

-----------------------------------------------------------------------------
(***************************************************************************)
(* The parts that end on their own.                                        *)
(***************************************************************************)
\* A behaviour is about one part, and leaves the others as they began.
PartsInv ==
    /\ FiguresInv /\ ReplayInv /\ CohortInv
    /\ IF part = "serve" THEN ServeInv ELSE ServeInit(<<>>)

LEMMA PartsBegin == Init => PartsInv
<1> SUFFICES ASSUME Init PROVE PartsInv
  OBVIOUS
<1>1. FiguresInv
  BY FiguresBegin DEF Init
<1>2. ReplayInv
  BY ReplayBegins DEF Init
<1>3. IF part = "serve" THEN ServeInv ELSE ServeInit(<<>>)
  BY ServeBegins DEF Init
<1>4. CohortInv
  <2>1. PICK f : CohortInit(f) /\ f \in Fleets
    BY CohortAssumption DEF Init
  <2>2. QED
    BY <2>1, CohortBegins
<1>5. QED
  BY <1>1, <1>2, <1>3, <1>4 DEF PartsInv

LEMMA PartsKeep == PartsInv /\ [Next]_verdictVars => PartsInv'
<1> SUFFICES ASSUME PartsInv, [Next]_verdictVars PROVE PartsInv'
  OBVIOUS
<1>1. part' = part
  BY DEF Next, Progress, verdictVars
<1>2. MeasureStep \/ UNCHANGED measureVars
  BY DEF Next, Progress, verdictVars
<1>3. ReplayStep \/ UNCHANGED replayVars
  BY DEF Next, Progress, verdictVars, otherVars
<1>4. (part = "serve" /\ ServeStep) \/ UNCHANGED serveVars
  BY DEF Next, Progress, verdictVars, otherVars
<1>5. CohortStep \/ UNCHANGED cohortVars
  BY DEF Next, Progress, verdictVars, otherVars
<1>6. FiguresInv'
  BY <1>2, FiguresKeep, FiguresStutter DEF PartsInv
<1>7. ReplayInv'
  BY <1>3, ReplayKeeps, ReplayStutters DEF PartsInv
<1>8. CohortInv'
  BY <1>5, CohortKeeps, CohortStutters DEF PartsInv
<1>9. CASE part = "serve"
  <2>1. ServeInv'
    BY <1>4, <1>9, ServeKeeps, ServeStutters DEF PartsInv
  <2>2. QED
    BY <1>1, <1>6, <1>7, <1>9, <1>8, <2>1 DEF PartsInv
<1>10. CASE part # "serve"
  <2>1. ServeInit(<<>>)'
    BY <1>4, <1>10 DEF PartsInv, ServeInit, serveVars
  <2>2. QED
    BY <1>1, <1>6, <1>7, <1>10, <1>8, <2>1 DEF PartsInv
<1>11. QED
  BY <1>9, <1>10

\* The invariant of the parts.
LEMMA PartsInvariant == Spec => []PartsInv
BY PartsBegin, PartsKeep, PTL DEF Spec

\* The figures of a report are those of all its calls, whichever threads met over a tool's
\* entry, and a threshold that is not violated was kept (Recorder::record_tool,
\* evaluate_thresholds).
THEOREM FiguresStayTrue == Spec => []FiguresAreTrue
<1>1. PartsInv => FiguresAreTrue
  BY FiguresShow DEF PartsInv
<1>2. QED
  BY <1>1, PartsInvariant, PTL

\* The workload is spread evenly; the report of a cohort sums up, once, what every worker
\* sent, whatever that is, and has the figures of all calls if every worker tells them; and
\* no worker goes beyond its own policy (plan_shards, AgentPolicy::authorize,
\* aggregate_evidence).
THEOREM EvidenceStaysExact == Spec => []EvidenceOfAll
<1>1. PartsInv => EvidenceOfAll
  BY CohortShows DEF PartsInv
<1>2. QED
  BY <1>1, PartsInvariant, PTL

\* Every answer of a recorded server is paired with a request that came before it, and in
\* the trace of one session with its own (match_responses).
THEOREM ReplayStaysTrue == Spec => []ReplayMatches
<1>1. PartsInv => ReplayMatches
  BY ReplayStaysFair DEF PartsInv
<1>2. QED
  BY <1>1, PartsInvariant, PTL

\* Every request of a client is answered once and in its turn, under its id unless
\* characters of that were replaced
\* (McpServer::run_stdio).
THEOREM ServerStaysOrdered == Spec => []ServerAnswers
<1>1. ServeInit(<<>>) => ServeTypeOK /\ AnswersInOrder
  <2> SUFFICES ASSUME ServeInit(<<>>) PROVE ServeTypeOK /\ AnswersInOrder
    OBVIOUS
  <2>1. input = <<>> /\ line = 1 /\ got = 0 /\ torn = {} /\ serve = "reading" /\ due = <<>> /\ answers = <<>>
    BY DEF ServeInit
  <2>2. Answerable(1) = {} /\ Cardinality(Answerable(line)) = 0
    BY <2>1, FS_EmptySet DEF Answerable
  <2>3. MaxLine \in Nat /\ Len(due) = 0 /\ Len(input) = 0 /\ Len(answers \o due) = 0
    BY <2>1, ServeAssumption
  <2>4. ServeTypeOK
    <3>1. line \in 1..(Len(input) + 1) /\ got \in 0..MaxLine /\ Len(due) <= 1
      BY <2>1, <2>3
    <3>2. QED
      BY <2>1, <3>1 DEF ServeTypeOK
  <2>5. AnswersInOrder
    BY <2>1, <2>2, <2>3 DEF AnswersInOrder, TooLong
  <2>6. QED
    BY <2>4, <2>5
<1>2. PartsInv => ServerAnswers
  BY <1>1 DEF PartsInv, ServeInv, ServerAnswers
<1>3. QED
  BY <1>2, PartsInvariant, PTL
-----------------------------------------------------------------------------
(***************************************************************************)
(* The comparison with the history.                                        *)
(***************************************************************************)
\* The samples that have a figure below a number, and those that have it up to there.
Below(base, f, v) == {s \in base : s.figures[f] < v}
UpTo(base, f, v) == {s \in base : s.figures[f] <= v}

\* A finite set of samples that can be compared by a figure.
Ordered(base, f) == IsFiniteSet(base) /\ \A s \in base : s.figures[f] \in Nat

\* Either is finite.
LEMMA PartsAreFinite ==
    ASSUME NEW base, NEW f, Ordered(base, f), NEW v
    PROVE  /\ IsFiniteSet(Below(base, f, v)) /\ Cardinality(Below(base, f, v)) \in Nat
           /\ IsFiniteSet(UpTo(base, f, v)) /\ Cardinality(UpTo(base, f, v)) \in Nat
<1>1. Below(base, f, v) \in SUBSET base /\ UpTo(base, f, v) \in SUBSET base
  BY DEF Below, UpTo
<1>2. IsFiniteSet(Below(base, f, v)) /\ IsFiniteSet(UpTo(base, f, v))
  BY <1>1, FS_Subset DEF Ordered
<1>3. QED
  BY <1>2, FS_CardinalityType

\* No figure of finitely many samples is beyond some number: induction over finite sets.
LEMMA FiguresEnd ==
    ASSUME NEW base, NEW f, Ordered(base, f)
    PROVE  \E n \in Nat : \A s \in base : s.figures[f] <= n
<1> DEFINE Endless == {t \in SUBSET base : ~\E n \in Nat : \A s \in t : s.figures[f] <= n}
<1>1. SUFFICES ASSUME base \in Endless PROVE FALSE
  OBVIOUS
<1>2. Endless # {} /\ \A t \in Endless : IsFiniteSet(t)
  BY <1>1, FS_Subset DEF Ordered
<1>3. PICK t \in Endless : \A x \in t : t \ {x} \notin Endless
  BY <1>2, LeastSet
<1>4. PICK x \in t : TRUE
  BY <1>3, 0 \in Nat
<1>5. PICK n \in Nat : \A s \in t \ {x} : s.figures[f] <= n
  <2>1. t \ {x} \in SUBSET base
    BY <1>3
  <2>2. QED
    BY <1>3, <1>4, <2>1
<1>6. x.figures[f] \in Nat /\ \A s \in t : s.figures[f] \in Nat
  BY <1>3, <1>4 DEF Ordered
<1>7. n + x.figures[f] \in Nat /\ \A s \in t : s.figures[f] <= n + x.figures[f]
  BY <1>5, <1>6
<1>8. QED
  BY <1>3, <1>7

\* There is a k-th value, and it is where the k-th sample is in the order of the figure.
LEMMA RankedIs ==
    ASSUME NEW base, NEW f, Ordered(base, f), NEW k \in 1..Cardinality(base)
    PROVE  /\ Ranked(base, f, k) \in Nat
           /\ Cardinality(Below(base, f, Ranked(base, f, k))) < k
           /\ k <= Cardinality(UpTo(base, f, Ranked(base, f, k)))
<1> DEFINE N == {v \in Nat : k <= Cardinality(UpTo(base, f, v))}
<1>1. N # {}
  <2>1. PICK n \in Nat : \A s \in base : s.figures[f] <= n
    BY FiguresEnd
  <2>2. UpTo(base, f, n) = base
    BY <2>1 DEF UpTo
  <2>3. QED
    BY <2>1, <2>2
<1>2. PICK v \in N : \A u \in N : v <= u
  BY <1>1, LeastNumber
<1>3. Cardinality(Below(base, f, v)) < k
  <2>1. CASE v = 0
    <3>1. Below(base, f, v) = {}
      BY <2>1 DEF Below, Ordered
    <3>2. QED
      BY <3>1, FS_EmptySet
  <2>2. CASE v # 0
    <3>1. v - 1 \in Nat /\ v - 1 \notin N
      BY <1>2, <2>2
    <3>2. Below(base, f, v) = UpTo(base, f, v - 1)
      BY <3>1 DEF Below, UpTo, Ordered
    <3>3. Cardinality(UpTo(base, f, v - 1)) \in Nat
      BY PartsAreFinite
    <3>4. QED
      BY <3>1, <3>2, <3>3
  <2>3. QED
    BY <2>1, <2>2
<1>4. v \in {s.figures[f] : s \in base}
  <2>1. Below(base, f, v) # UpTo(base, f, v)
    <3>1. Cardinality(Below(base, f, v)) \in Nat /\ Cardinality(UpTo(base, f, v)) \in Nat
      BY PartsAreFinite
    <3>2. QED
      BY <1>2, <1>3, <3>1
  <2>2. PICK s \in base : s.figures[f] <= v /\ ~(s.figures[f] < v)
    BY <2>1 DEF Below, UpTo, Ordered
  <2>3. s.figures[f] \in Nat
    BY DEF Ordered
  <2>4. QED
    BY <2>2, <2>3
<1>5. Ranked(base, f, k) = CHOOSE u \in {s.figures[f] : s \in base} :
         Cardinality(Below(base, f, u)) < k /\ k <= Cardinality(UpTo(base, f, u))
  BY DEF Ranked, Below, UpTo
<1>6. /\ Ranked(base, f, k) \in {s.figures[f] : s \in base}
      /\ Cardinality(Below(base, f, Ranked(base, f, k))) < k /\ k <= Cardinality(UpTo(base, f, Ranked(base, f, k)))
  BY <1>2, <1>3, <1>4, <1>5
<1>7. QED
  BY <1>6 DEF Ordered

\* Division with a rest.
LEMMA Quotients ==
    ASSUME NEW s \in Nat \ {0}, NEW n \in Nat
    PROVE  n = s * (n \div s) + (n % s) /\ n \div s \in Int /\ 0 <= n % s /\ n % s < s /\ n % s \in Int
OBVIOUS

\* The same by two.
LEMMA Halves ==
    ASSUME NEW n \in Nat, NEW q, NEW m, q = n \div 2, m = n % 2
    PROVE  q \in Nat /\ (m = 1 \/ m = 0) /\ n = 2 * q + m
<1>1. n = 2 * q + m /\ q \in Int /\ m \in Int /\ 0 <= m /\ m < 2
  BY Quotients
<1>2. QED
  <2>1. \A a \in Int, b \in Int : n = 2 * a + b /\ 0 <= b /\ b < 2 => a \in Nat /\ (b = 1 \/ b = 0)
    OBVIOUS
  <2>2. QED
    BY <1>1, <2>1

\* What is below the lower middle, or above the upper one, has half of the samples on its
\* other side.
LEMMA HalfIsBetter ==
    ASSUME NEW base, NEW f, Ordered(base, f), base # {}, NEW now \in Nat
    PROVE  /\ Median2(base, f) \in Nat
           /\ 2 * now > Median2(base, f) => 2 * Cardinality(Below(base, f, now)) >= Cardinality(base)
           /\ 2 * now < Median2(base, f) => 2 * Cardinality(base \ UpTo(base, f, now)) >= Cardinality(base)
<1> DEFINE n == Cardinality(base)
<1>0. PICK q, m : q = n \div 2 /\ m = n % 2
  OBVIOUS
<1> DEFINE low == IF m = 1 THEN q + 1 ELSE q
           high == q + 1
           u == Ranked(base, f, low)
           v == Ranked(base, f, high)
<1>1. n \in Nat \ {0}
  BY FS_CardinalityType, FS_EmptySet DEF Ordered
<1>2. low \in 1..n /\ high \in 1..n /\ low <= high /\ 2 * low >= n /\ 2 * (n - high + 1) >= n
  <2> HIDE DEF n
  <2>1. q \in Nat /\ (m = 1 \/ m = 0) /\ n = 2 * q + m
    BY <1>0, <1>1, Halves
  <2>2. QED
    BY <1>1, <2>1
<1>3. u \in Nat /\ v \in Nat /\ low <= Cardinality(UpTo(base, f, u)) /\ Cardinality(Below(base, f, v)) < high
  BY <1>2, RankedIs
<1>4. u <= v
  <2>1. SUFFICES ASSUME v < u PROVE FALSE
    BY <1>3
  <2>2. UpTo(base, f, v) \in SUBSET Below(base, f, u)
    BY <1>3, <2>1 DEF UpTo, Below, Ordered
  <2>3. Cardinality(UpTo(base, f, v)) <= Cardinality(Below(base, f, u))
    BY <2>2, PartsAreFinite, FS_Subset
  <2>4. Cardinality(Below(base, f, u)) < low /\ high <= Cardinality(UpTo(base, f, v))
    BY <1>2, RankedIs
  <2>5. Cardinality(UpTo(base, f, v)) \in Nat /\ Cardinality(Below(base, f, u)) \in Nat
    BY PartsAreFinite
  <2>6. QED
    BY <1>2, <2>3, <2>4, <2>5
<1>5. Median2(base, f) = u + v
  BY <1>0, <1>1, <1>3 DEF Median2
<1>6. ASSUME 2 * now > u + v PROVE 2 * Cardinality(Below(base, f, now)) >= n
  <2>1. UpTo(base, f, u) \in SUBSET Below(base, f, now)
    BY <1>3, <1>4, <1>6 DEF UpTo, Below, Ordered
  <2>2. /\ Cardinality(UpTo(base, f, u)) <= Cardinality(Below(base, f, now))
        /\ Cardinality(UpTo(base, f, u)) \in Nat /\ Cardinality(Below(base, f, now)) \in Nat
    BY <2>1, PartsAreFinite, FS_Subset
  <2>3. QED
    BY <1>1, <1>2, <1>3, <2>2
<1>7. ASSUME 2 * now < u + v PROVE 2 * Cardinality(base \ UpTo(base, f, now)) >= n
  <2>1. base \ Below(base, f, v) \in SUBSET (base \ UpTo(base, f, now))
    BY <1>3, <1>4, <1>7 DEF UpTo, Below, Ordered
  <2>2. IsFiniteSet(base \ UpTo(base, f, now)) /\ IsFiniteSet(base)
    BY FS_Difference DEF Ordered
  <2>3. /\ Cardinality(base \ Below(base, f, v)) <= Cardinality(base \ UpTo(base, f, now))
        /\ Cardinality(base \ UpTo(base, f, now)) \in Nat
    BY <2>1, <2>2, FS_Subset, FS_CardinalityType
  <2>4. Cardinality(base \ Below(base, f, v)) = n - Cardinality(Below(base, f, v))
    <3>1. base \cap Below(base, f, v) = Below(base, f, v)
      BY DEF Below
    <3>2. QED
      BY <2>2, <3>1, FS_Difference
  <2>5. Cardinality(Below(base, f, v)) \in Nat
    BY PartsAreFinite
  <2>6. QED
    BY <1>1, <1>2, <1>3, <2>3, <2>4, <2>5
<1>8. QED
  BY <1>3, <1>5, <1>6, <1>7

\* A figure that is called regressed is on the wrong side of the median.
LEMMA RegressedIsWorse ==
    ASSUME NEW base, NEW now, NEW f \in Regressions(base, now), now[f] \in Nat, Median2(base, f) \in Nat
    PROVE  IF f = "rps" THEN 2 * now[f] < Median2(base, f) ELSE 2 * now[f] > Median2(base, f)
<1> DEFINE usual == Median2(base, f)
<1>1. f \in {"p99", "rps", "errors", "deadlocks"}
      /\ CASE f = "p99" -> usual > 0 /\ 10 * (2 * now[f] - usual) > usual
           [] f = "rps" -> usual > 0 /\ 10 * (usual - 2 * now[f]) > usual
           [] f = "errors" -> 2 * now[f] - usual > 100
           [] OTHER -> 2 * now[f] > usual
  BY DEF Regressions
<1> HIDE DEF usual
<1>2. usual \in Nat
  BY DEF usual
<1>3. CASE f = "p99"
  <2>1. usual > 0 /\ 10 * (2 * now[f] - usual) > usual
    BY <1>1, <1>3
  <2>2. QED
    BY <1>2, <1>3, <2>1 DEF usual
<1>4. CASE f = "rps"
  <2>1. usual > 0 /\ 10 * (usual - 2 * now[f]) > usual
    BY <1>1, <1>4
  <2>2. QED
    BY <1>2, <1>4, <2>1 DEF usual
<1>5. CASE f = "errors"
  <2>1. 2 * now[f] - usual > 100
    BY <1>1, <1>5
  <2>2. QED
    BY <1>2, <1>5, <2>1 DEF usual
<1>6. CASE f = "deadlocks"
  <2>1. 2 * now[f] > usual
    BY <1>1, <1>6
  <2>2. QED
    BY <1>6, <2>1 DEF usual
<1>7. QED
  BY <1>1, <1>3, <1>4, <1>5, <1>6

\* Samples of which no two are of one run: what is in the directory at one time.
Distinct(seen) == seen \subseteq Sample /\ \A s, t \in seen : s.run = t.run => s = t

\* There are finitely many of them.
LEMMA DistinctIsFinite ==
    ASSUME NEW seen, Distinct(seen)
    PROVE  IsFiniteSet(seen)
<1> DEFINE runOf == [s \in seen |-> s.run]
<1>1. runOf \in Injection(seen, RunIds)
  BY DEF Distinct, Sample, Injection, IsInjective
<1>2. QED
  BY <1>1, HistoryAssumption, FS_Injection

\* The baseline has at most Window samples, and they are the latest.
LEMMA BaselineIsLatest ==
    ASSUME NEW seen, Distinct(seen), NEW now
    PROVE  /\ IsFiniteSet(Baseline(seen, now)) /\ Cardinality(Baseline(seen, now)) \in 0..Window
           /\ Baseline(seen, now) \subseteq Eligible(seen, now)
           /\ \A s \in Baseline(seen, now) : \A t \in Eligible(seen, now) \ Baseline(seen, now) : t.run < s.run
<1> DEFINE E == Eligible(seen, now)
           After(s) == {t \in E : t.run > s.run}
           B == Baseline(seen, now)
<1>1. E \subseteq seen /\ B = {s \in E : Cardinality(After(s)) < Window}
  BY DEF Eligible, Baseline
<1>2. IsFiniteSet(E) /\ IsFiniteSet(B)
  BY <1>1, DistinctIsFinite, FS_Subset
<1>3. ASSUME NEW s \in E PROVE s.run \in Nat /\ After(s) \in SUBSET E
  BY <1>1, HistoryAssumption DEF Distinct, Sample
<1>4. ASSUME NEW s \in E PROVE IsFiniteSet(After(s)) /\ Cardinality(After(s)) \in Nat
  BY <1>2, <1>3, FS_Subset, FS_CardinalityType
<1>5. ASSUME NEW s \in E, NEW t \in E, s.run < t.run
      PROVE  Cardinality(After(t)) < Cardinality(After(s))
  <2>1. s.run \in Nat /\ t.run \in Nat /\ \A u \in E : u.run \in Nat
    BY <1>3
  <2>2. After(t) \in SUBSET After(s) /\ t \in After(s) /\ t \notin After(t)
    <3> HIDE DEF E
    <3>1. QED
      BY <1>5, <2>1
  <2>3. IsFiniteSet(After(s)) /\ Cardinality(After(s)) \in Nat /\ Cardinality(After(t)) \in Nat
    BY <1>4
  <2> HIDE DEF After, E
  <2>4. Cardinality(After(t)) <= Cardinality(After(s)) /\ Cardinality(After(t)) # Cardinality(After(s))
    BY <2>2, <2>3, FS_Subset
  <2>5. QED
    BY <2>3, <2>4
<1>6. \A s, t \in E : s.run = t.run => s = t
  BY <1>1 DEF Distinct
<1> HIDE DEF E, B, After
<1>7. Cardinality(B) <= Window /\ Cardinality(B) \in Nat
  <2> DEFINE place == [s \in B |-> Cardinality(After(s))]
  <2>1. ASSUME NEW s \in B PROVE s \in E /\ Cardinality(After(s)) \in 0..(Window - 1)
    <3>1. s \in E /\ Cardinality(After(s)) < Window
      BY <1>1
    <3>2. QED
      BY <1>4, <3>1, HistoryAssumption
  <2>2. ASSUME NEW s \in B, NEW t \in B, Cardinality(After(s)) = Cardinality(After(t)) PROVE s = t
    <3>1. s \in E /\ t \in E
      BY <2>1
    <3>2. s.run \in Nat /\ t.run \in Nat /\ Cardinality(After(s)) \in Nat
      BY <1>3, <1>4, <3>1
    <3>3. ~(s.run < t.run) /\ ~(t.run < s.run)
      BY <1>5, <2>2, <3>1, <3>2
    <3>4. QED
      BY <1>6, <3>1, <3>2, <3>3
  <2>3. place \in Injection(B, 0..(Window - 1))
    BY <2>1, <2>2 DEF Injection, IsInjective
  <2>4. IsFiniteSet(0..(Window - 1)) /\ Cardinality(0..(Window - 1)) = Window
    BY HistoryAssumption, FS_Interval
  <2>5. QED
    BY <1>2, <2>3, <2>4, FS_Injection, FS_CardinalityType
<1>8. ASSUME NEW s \in B, NEW t \in E \ B PROVE t.run < s.run
  <2>1. s \in E /\ t \in E /\ Cardinality(After(s)) < Window /\ ~(Cardinality(After(t)) < Window)
    BY <1>1, <1>8
  <2>2. s.run \in Nat /\ t.run \in Nat /\ Cardinality(After(s)) \in Nat /\ Cardinality(After(t)) \in Nat
    BY <1>3, <1>4, <2>1
  <2>3. ~(s.run < t.run)
    <3>1. SUFFICES ASSUME s.run < t.run PROVE FALSE
      OBVIOUS
    <3>2. Cardinality(After(t)) < Cardinality(After(s))
      BY <1>5, <2>1, <3>1
    <3>3. QED
      BY <2>1, <2>2, <3>2, HistoryAssumption
  <2>4. s.run # t.run
    BY <1>6, <1>8, <2>1
  <2>5. QED
    BY <2>2, <2>3, <2>4
<1>9. QED
  BY <1>1, <1>2, <1>7, <1>8, HistoryAssumption DEF B, E

\* Where a run is not yet compared with the history.
BeforeTheTrend == {"run", "emit", "load", "enumerate"}

\* A run that has compared itself did so with the samples it still has in hand.
TrendInv == \A r \in Runs :
    /\ Distinct(prior[r])
    /\ step[r] \in BeforeTheTrend => trend[r].status = "none"
    /\ trend[r].status # "none" => trend[r] = AnalyzeTrend(Baseline(prior[r], mine[r]), mine[r].figures)

\* What is published at one time are samples of different runs.
LEMMA PublishedAreDistinct ==
    ASSUME StateInv
    PROVE  Distinct(Seen(published))
BY DEF StateInv, Distinct, Seen, Present

\* It begins with no comparison.
LEMMA TrendBegins == Init => TrendInv
<1> SUFFICES ASSUME Init PROVE TrendInv
  OBVIOUS
<1>1. prior = [r \in Runs |-> {}] /\ trend = [r \in Runs |-> NoTrend]
  BY DEF Init, HistoryInit
<1>2. QED
  BY <1>1 DEF TrendInv, Distinct, NoTrend

\* A step that neither looks at the directory nor compares leaves every comparison as it is.
LEMMA TrendStays ==
    ASSUME StateInv, TrendInv, NEW r \in Runs, UNCHANGED <<prior, trend, mine>>,
           \/ step' = step
           \/ \E to : /\ step' = [step EXCEPT ![r] = to]
                      /\ to \in BeforeTheTrend => step[r] \in BeforeTheTrend
    PROVE  TrendInv'
BY DEF TrendInv, StateInv

\* Every step keeps what a comparison is made of.
LEMMA TrendKeeps == EndingInv /\ TrendInv /\ [Next]_verdictVars => TrendInv'
<1> SUFFICES ASSUME EndingInv, TrendInv, [Next]_verdictVars PROVE TrendInv'
  OBVIOUS
<1>1. StateInv
  BY DEF EndingInv
<1>2. CASE UNCHANGED <<step, prior, trend, mine>>
  BY <1>2 DEF TrendInv
<1>3. ASSUME NEW r \in Runs, EndingStep(r) \/ Fault(r) PROVE TrendInv'
  <2>1. CASE OpenDirectory(r)
    <3>1. /\ step' = [step EXCEPT ![r] = "enumerate"] /\ step[r] = "load"
          /\ prior' = [prior EXCEPT ![r] = Seen(published)] /\ UNCHANGED <<trend, mine>>
      BY <2>1 DEF OpenDirectory, Goes
    <3>2. prior'[r] = Seen(published) /\ \A q \in Runs \ {r} : prior'[q] = prior[q] /\ step'[q] = step[q]
      BY <1>1, <3>1 DEF StateInv
    <3>3. trend[r].status = "none"
      BY <3>1 DEF TrendInv, BeforeTheTrend
    <3>4. QED
      BY <1>1, <3>1, <3>2, <3>3, PublishedAreDistinct DEF TrendInv
  <2>2. CASE ReadSamples(r)
    <3>1. CASE Goes(r, "enumerate", "history_failed") /\ UNCHANGED <<prior, trend, mine>>
      BY <1>1, <3>1, TrendStays DEF Goes, BeforeTheTrend
    <3>2. CASE ~(Goes(r, "enumerate", "history_failed") /\ UNCHANGED <<prior, trend, mine>>)
      <4>1. PICK seen \in SUBSET Seen(published) :
              /\ Goes(r, "enumerate", "check") /\ prior' = [prior EXCEPT ![r] = seen] /\ mine' = mine
              /\ trend' = [trend EXCEPT ![r] = AnalyzeTrend(Baseline(seen, mine[r]), mine[r].figures)]
        BY <2>2, <3>2 DEF ReadSamples
      <4>2. /\ prior'[r] = seen /\ trend'[r] = AnalyzeTrend(Baseline(seen, mine[r]), mine[r].figures)
            /\ step'[r] = "check"
            /\ \A q \in Runs \ {r} : prior'[q] = prior[q] /\ trend'[q] = trend[q] /\ step'[q] = step[q]
        BY <1>1, <4>1 DEF StateInv, Goes
      <4>3. Distinct(seen)
        BY <1>1, PublishedAreDistinct DEF Distinct
      <4>4. QED
        BY <4>1, <4>2, <4>3 DEF TrendInv, BeforeTheTrend
    <3>3. QED
      BY <3>1, <3>2
  <2>3. CASE ~OpenDirectory(r) /\ ~ReadSamples(r)
    <3>1. UNCHANGED <<prior, trend, mine>>
      BY <1>3, <2>3 DEF EndingStep, Executed, Emit, History, Export, Judge, Fault, Exits, Goes, historyVars, HistoryStep,
         CheckExists, CreateTemporary, SyncTemporary, Publish, Unlink, CompareExisting, StoreFails
    <3>2. \/ step' = step
          \/ \E to : /\ step' = [step EXCEPT ![r] = to]
                     /\ to \in BeforeTheTrend => step[r] \in BeforeTheTrend
      <4>1. CASE HistoryStep(r) \/ StoreFails(r)
        BY <2>3, <4>1 DEF Goes, HistoryStep, BeforeTheTrend, CheckExists, CreateTemporary, SyncTemporary, Publish, Unlink,
           CompareExisting, StoreFails
      <4>2. CASE ~(HistoryStep(r) \/ StoreFails(r))
        BY <1>3, <4>2 DEF EndingStep, Executed, Emit, History, Export, Judge, Fault, Exits, Goes, AfterReports,
           BeforeTheTrend
      <4>3. QED
        BY <4>1, <4>2
    <3>3. QED
      BY <1>1, <3>1, <3>2, TrendStays
  <2>4. QED
    BY <2>1, <2>2, <2>3
<1>4. QED
  BY <1>2, <1>3 DEF Next, Progress, verdictVars, endingVars, historyVars

\* The gate of the history closes on a change for the worse only: a run that is called
\* regressed was held against enough of the latest passing runs of its cohort, and in each
\* figure at fault it is worse than half of them (analyze_trend, build_metrics, median).
THEOREM RegressionsAreReal == Spec => []RegressionIsReal
<1>1. EndingInv /\ TrendInv => RegressionIsReal
  <2> SUFFICES ASSUME EndingInv, TrendInv, NEW r \in Runs, trend[r].status = "regressed"
               PROVE  LET base == trend[r].baseline
                          now == mine[r].figures IN
                      /\ Cardinality(base) \in MinSamples..Window /\ base \subseteq Eligible(prior[r], mine[r])
                      /\ \A s \in base : \A t \in Eligible(prior[r], mine[r]) \ base : t.run < s.run
                      /\ \A f \in trend[r].regressions :
                            2 * Cardinality({s \in base : IF f = "rps" THEN s.figures[f] > now[f]
                                                          ELSE s.figures[f] < now[f]}) >= Cardinality(base)
    BY DEF RegressionIsReal
  <2> DEFINE base == Baseline(prior[r], mine[r])
             now == mine[r].figures
  <2>1. Distinct(prior[r]) /\ trend[r] = AnalyzeTrend(base, now) /\ mine[r] \in Sample
    BY DEF TrendInv, EndingInv, StateInv
  <2>2. /\ trend[r].baseline = base /\ trend[r].regressions = Regressions(base, now)
        /\ ~(Cardinality(base) < MinSamples)
    <3> HIDE DEF base, now
    <3>1. QED
      BY <2>1 DEF AnalyzeTrend
  <2>3. /\ IsFiniteSet(base) /\ Cardinality(base) \in 0..Window /\ base \subseteq Eligible(prior[r], mine[r])
        /\ \A s \in base : \A t \in Eligible(prior[r], mine[r]) \ base : t.run < s.run
    BY <2>1, BaselineIsLatest
  <2>4. Cardinality(base) \in MinSamples..Window /\ base # {}
    BY <2>2, <2>3, HistoryAssumption, FS_EmptySet
  <2>5. base \subseteq Sample
    BY <2>1, <2>3 DEF Eligible, Distinct
  <2>6. \A s \in Sample : \A f \in {"p99", "rps", "errors", "deadlocks"} : s.figures[f] \in Nat
    BY HistoryAssumption DEF Sample
  <2>7. ASSUME NEW f \in Regressions(base, now)
        PROVE  2 * Cardinality({s \in base : IF f = "rps" THEN s.figures[f] > now[f] ELSE s.figures[f] < now[f]})
                 >= Cardinality(base)
    <3> HIDE DEF base
    <3>1. f \in {"p99", "rps", "errors", "deadlocks"}
      BY DEF Regressions
    <3>2. Ordered(base, f) /\ now[f] \in Nat
      BY <2>1, <2>3, <2>5, <2>6, <3>1 DEF Ordered
    <3> HIDE DEF now
    <3>3. /\ Median2(base, f) \in Nat
          /\ 2 * now[f] > Median2(base, f) => 2 * Cardinality(Below(base, f, now[f])) >= Cardinality(base)
          /\ 2 * now[f] < Median2(base, f) => 2 * Cardinality(base \ UpTo(base, f, now[f])) >= Cardinality(base)
      BY <2>4, <3>2, HalfIsBetter
    <3>4. CASE f = "rps"
      <4>1. {s \in base : IF f = "rps" THEN s.figures[f] > now[f] ELSE s.figures[f] < now[f]}
              = base \ UpTo(base, f, now[f])
        BY <3>2, <3>4 DEF UpTo, Ordered
      <4>2. 2 * now[f] < Median2(base, f)
        BY <3>2, <3>3, <3>4, RegressedIsWorse
      <4>3. QED
        BY <3>3, <4>1, <4>2
    <3>5. CASE f # "rps"
      <4>1. {s \in base : IF f = "rps" THEN s.figures[f] > now[f] ELSE s.figures[f] < now[f]}
              = Below(base, f, now[f])
        BY <3>5 DEF Below
      <4>2. 2 * now[f] > Median2(base, f)
        BY <3>2, <3>3, <3>5, RegressedIsWorse
      <4>3. QED
        BY <3>3, <4>1, <4>2
    <3>6. QED
      BY <3>4, <3>5
  <2>8. QED
    BY <2>2, <2>3, <2>4, <2>7
<1>2. QED
  BY <1>1, EndingBegins, EndingKeeps, TrendBegins, TrendKeeps, PTL DEF Spec
=============================================================================
