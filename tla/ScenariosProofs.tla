---------------------------- MODULE ScenariosProofs ----------------------------
(***************************************************************************)
(* What the runs check of Scenarios, proved for every plan, any number of  *)
(* sessions and every threshold: no scenario uses a session that is not    *)
(* its to use and each session spawned is shut down, the two books of a    *)
(* run agree, and a verdict is earned.                                     *)
(***************************************************************************)
EXTENDS Scenarios, FiniteSums, FiniteSetTheorems, SequenceTheorems, TLAPS

-----------------------------------------------------------------------------
(***************************************************************************)
(* What the helpers return.                                                *)
(***************************************************************************)
Fields == {"total", "successful", "hangs", "deadlocks", "errors", "divergences", "incomplete", "teardown"}

\* What hang_detect makes of any answer.
LEMMA WhatACallEnds ==
    ASSUME NEW r \in HangOutcomes
    PROVE  /\ r.verdict \in {"Ok", "Slow", "Deadlock", "Err"}
           /\ r.logical \in BOOLEAN /\ r.pending \in BOOLEAN
           /\ r.pending => r.verdict = "Deadlock"
           /\ r.verdict = "Err" => r.error \in CallErrors /\ r.logical = FALSE
<1>1. PICK a \in Answers : r \in HangDetect(a)
  BY DEF HangOutcomes
<1>2. r = Unanswered \/ \E d : r = Judge(a, d)
  BY <1>1 DEF HangDetect
<1>3. CASE r = Unanswered
  BY <1>3 DEF Unanswered
<1>4. ASSUME NEW d, r = Judge(a, d)
      PROVE  /\ r.verdict \in {"Ok", "Slow", "Deadlock", "Err"}
             /\ r.logical \in BOOLEAN /\ r.pending = FALSE
             /\ r.verdict = "Err" => r.error \in CallErrors /\ r.logical = FALSE
  BY <1>4 DEF Judge, Answers
<1>5. QED
  BY <1>2, <1>3, <1>4

\* The class of an error, and of a call.
LEMMA ClassesOfErrors ==
    \A e : ClassifyError(e) \in {"ProtocolError", "Malformed", "Disconnected", "Timeout", "ServerError"}
BY DEF ClassifyError

LEMMA ClassesOfCalls ==
    ASSUME NEW r \in HangOutcomes
    PROVE  /\ RecordedAs(r) \in CallOutcome
           /\ RecordedAs(r) = "Deadlock" <=> r.verdict = "Deadlock"
           /\ RecordedAs(r) = "Success" <=> r.verdict = "Ok" /\ ~r.logical
           /\ RecordedAs(r) = "Hang" => r.verdict = "Slow" /\ ~r.logical
           /\ RecordedAs(r) # "ExpectedRejection"
           /\ Ends(r) => r.verdict = "Err" /\ RecordedAs(r) \in {"Disconnected", "Timeout"}
<1>1. \A e : IsTerminalError(e) => ClassifyError(e) \in {"Disconnected", "Timeout"}
  BY DEF IsTerminalError, ClassifyError
<1>2. /\ r.verdict = "Err" => RecordedAs(r) = ClassifyError(r.error)
      /\ r.verdict = "Deadlock" => RecordedAs(r) = "Deadlock"
  BY DEF RecordedAs
<1>7. r.verdict \in {"Ok", "Slow"} /\ r.logical => RecordedAs(r) = "ServerError"
  BY DEF RecordedAs
<1>8. r.verdict = "Slow" /\ ~r.logical => RecordedAs(r) = "Hang"
  BY DEF RecordedAs
<1>9. r.verdict = "Ok" /\ ~r.logical => RecordedAs(r) = "Success"
  BY DEF RecordedAs
<1>3. Ends(r) => r.verdict = "Err" /\ RecordedAs(r) \in {"Disconnected", "Timeout"}
  BY <1>1, <1>2 DEF Ends
<1>4. CASE r.verdict = "Err"
  BY <1>2, <1>3, <1>4, ClassesOfErrors DEF CallOutcome
<1>5. CASE r.verdict # "Err"
  BY <1>2, <1>3, <1>5, <1>7, <1>8, <1>9, WhatACallEnds DEF CallOutcome
<1>6. QED
  BY <1>4, <1>5

LEMMA FieldsAre == Fields = DOMAIN NoOutcome /\ NoOutcome \in [Fields -> Nat] /\ \A f \in Fields : NoOutcome[f] = 0
BY DEF Fields, NoOutcome

\* What adding to an outcome gives.
LEMMA Added ==
    ASSUME NEW o \in [Fields -> Nat], NEW s
    PROVE  /\ Plus(o, s) \in [Fields -> Nat]
           /\ \A f \in Fields : Plus(o, s)[f] = IF f \in s THEN o[f] + 1 ELSE o[f]
BY DEF Plus

LEMMA AddedUp ==
    ASSUME NEW o \in [Fields -> Nat], NEW p \in [Fields -> Nat]
    PROVE  /\ Sum2(o, p) \in [Fields -> Nat]
           /\ \A f \in Fields : Sum2(o, p)[f] = o[f] + p[f]
BY DEF Sum2

LEMMA Merged ==
    ASSUME NEW o \in [Fields -> Nat], NEW p \in [Fields -> Nat]
    PROVE  /\ MergeWorker(o, p) \in [Fields -> Nat]
           /\ \A f \in Fields : MergeWorker(o, p)[f] =
                 IF f = "incomplete" /\ p["total"] = 0 THEN o[f] + p[f] + 1 ELSE o[f] + p[f]
<1>1. Plus(p, {"incomplete"}) \in [Fields -> Nat]
  BY Added
<1>2. p.total = p["total"]
  OBVIOUS
<1>3. QED
  BY <1>1, <1>2, Added, AddedUp DEF MergeWorker

\* What adding to two of the fields gives.
LEMMA TwoFields ==
    ASSUME NEW o \in [Fields -> Nat], NEW a \in Nat, NEW b \in Nat
    PROVE  /\ \A p : p = [o EXCEPT !.errors = @ + a, !.incomplete = @ + b] =>
                 /\ p \in [Fields -> Nat]
                 /\ \A f \in Fields : p[f] = IF f = "errors" THEN o[f] + a
                                             ELSE IF f = "incomplete" THEN o[f] + b ELSE o[f]
           /\ \A p : p = [o EXCEPT !.incomplete = @ + a, !.teardown = @ + b] =>
                 /\ p \in [Fields -> Nat]
                 /\ \A f \in Fields : p[f] = IF f = "incomplete" THEN o[f] + a
                                             ELSE IF f = "teardown" THEN o[f] + b ELSE o[f]
<1>1. ASSUME NEW p, p = [o EXCEPT !.errors = @ + a, !.incomplete = @ + b]
      PROVE  \A f \in Fields : p[f] = IF f = "errors" THEN o[f] + a
                                      ELSE IF f = "incomplete" THEN o[f] + b ELSE o[f]
  BY <1>1 DEF Fields
<1>2. ASSUME NEW p, p = [o EXCEPT !.incomplete = @ + a, !.teardown = @ + b]
      PROVE  \A f \in Fields : p[f] = IF f = "incomplete" THEN o[f] + a
                                      ELSE IF f = "teardown" THEN o[f] + b ELSE o[f]
  BY <1>2 DEF Fields
<1>3. ASSUME NEW p, \/ p = [o EXCEPT !.errors = @ + a, !.incomplete = @ + b]
                    \/ p = [o EXCEPT !.incomplete = @ + a, !.teardown = @ + b]
      PROVE  DOMAIN p = Fields /\ p = [x \in DOMAIN p |-> p[x]]
  BY <1>3 DEF Fields
<1>4. ASSUME NEW p, DOMAIN p = Fields, p = [x \in DOMAIN p |-> p[x]], \A f \in Fields : p[f] \in Nat
      PROVE  p \in [Fields -> Nat]
  BY <1>4
<1>5. \A f \in Fields : o[f] \in Nat /\ o[f] + a \in Nat /\ o[f] + b \in Nat
  OBVIOUS
<1>6. QED
  BY <1>1, <1>2, <1>3, <1>4, <1>5

LEMMA CountedMore ==
    ASSUME recorded \in [CallOutcome -> Nat], NEW c \in CallOutcome
    PROVE  /\ Counted(c) \in [CallOutcome -> Nat]
           /\ \A d \in CallOutcome : Counted(c)[d] = IF d = c THEN recorded[d] + 1 ELSE recorded[d]
BY DEF Counted

-----------------------------------------------------------------------------
(***************************************************************************)
(* The sessions.                                                           *)
(***************************************************************************)
PoolProbes == {"deadlock_probe", "race_check"}
Rounds == {"cold_start", "version_matrix"}

Resting(s) == session[s] \in {"none", "closed", "unsure"}
Usable == {"open", "stuck", "gone"}

Fielded ==
    /\ plan \in Plans /\ kind = plan.kind
    /\ session \in [Sessions -> SessionStates] /\ left \subseteq Sessions
    /\ outcome \in [Fields -> Nat] /\ recorded \in [CallOutcome -> Nat]
    /\ cancelled \in BOOLEAN /\ (cancelled => plan.embedded)
    /\ at = "start" => /\ outcome = NoOutcome /\ recorded = NothingRecorded /\ left = {}
                       /\ \A s \in Sessions : session[s] = (IF s = 0 THEN "open" ELSE "none")

\* What no step of any scenario does to its sessions.
Sound ==
    /\ \A s \in Sessions : session[s] # "misused"
    /\ (\E s \in Sessions : session[s] = "unsure") => outcome.teardown > 0

ProbeTyped ==
    /\ round \in Nat /\ row \in Nat /\ ended \subseteq Nat
    /\ DOMAIN stored \subseteq Sessions /\ \A w \in DOMAIN stored : stored[w] \in Payloads

LoadTyped ==
    /\ window \in Nat /\ closed \in BOOLEAN
    /\ made \in [Sessions -> Nat] /\ calling \subseteq Sessions /\ mid \subseteq Sessions /\ quit \subseteq Sessions
    /\ own \in [Sessions -> [Fields -> Nat]]
    /\ seen \in [total : Nat, good : Nat]
    /\ claim \in {"none", "completed", "broke"}

PoolProbeInv == kind \in PoolProbes =>
    /\ at \in {"start", "working", "joined", "over"} /\ (at # "working" => left = {})
    /\ left \subseteq 1..plan.count /\ DOMAIN stored \subseteq 1..plan.count
    /\ \A s \in left : session[s] = "open"
    /\ \A s \in Sessions \ ({0} \cup left) : Resting(s)

InRound == at \in {"calls", "close", "last"}

RoundInv == kind \in Rounds =>
    /\ at \in {"start", "round", "calls", "close", "last", "over"} /\ left = {}
    /\ round <= plan.count /\ (InRound => round < plan.count)
    /\ \A s \in Sessions \ {0} : (InRound => s # Fresh) => Resting(s)
    /\ at = "calls" => session[Fresh] = "open"
    /\ InRound => session[Fresh] \in Usable

LoadInv == kind \in LoadKinds =>
    /\ at \in {"start", "window", "working", "joined", "rest", "over"} /\ (at # "working" => left = {})
    /\ 0 \in left => ~Pooled
    /\ ~Pooled => left \subseteq {0}
    /\ \A s \in left : session[s] \in Usable /\ (s \notin quit => session[s] = "open")
    /\ ~Pooled => /\ session[0] \in Usable
                  /\ 0 \notin quit \/ at \in {"start", "window"} => session[0] = "open"
    /\ \A s \in Sessions \ ({0} \cup left) : Resting(s)

FuzzInv ==
    /\ tries \in Nat /\ current \in Sessions /\ findings \in [FuzzClass -> Nat]
    /\ kind = "fuzzer" =>
       /\ at \in {"start", "fuzz", "respawn", "over"} /\ left = {}
       /\ tries <= plan.count /\ current <= tries
       /\ \A s \in Sessions \ {current} : Resting(s)
       /\ at \in {"start", "fuzz"} => session[current] = "open"
       /\ at = "respawn" => session[current] = "stuck" /\ current < tries
    /\ at = "start" => current = 0

SessionsInv == Fielded /\ Sound /\ ProbeTyped /\ LoadTyped /\ PoolProbeInv /\ RoundInv /\ LoadInv /\ FuzzInv


LEMMA KindsAreApart ==
    /\ kind \in ProbeKinds => kind \notin LoadKinds /\ kind # "fuzzer"
    /\ kind \in LoadKinds => kind \notin ProbeKinds /\ kind # "fuzzer"
    /\ kind \in PoolProbes \/ kind \in Rounds <=> kind \in ProbeKinds
    /\ kind \in PoolProbes => kind \notin Rounds
BY DEF ProbeKinds, LoadKinds, PoolProbes, Rounds

LEMMA PlanIsTyped ==
    ASSUME Fielded
    PROVE  /\ kind \in ProbeKinds \cup LoadKinds \cup {"fuzzer"}
           /\ plan.count \in Nat /\ plan.calls \in Nat /\ plan.most \in Nat /\ plan.to \in Nat /\ plan.step \in Nat
           /\ plan.budget \in Nat
           /\ plan.factory \in BOOLEAN /\ plan.embedded \in BOOLEAN /\ plan.warmup \in BOOLEAN
           /\ plan.detect \in BOOLEAN /\ plan.gated \in BOOLEAN
           /\ plan.timed \subseteq 1..3 /\ 1..plan.count \subseteq Sessions
BY PlansAssumption DEF Fielded

LEMMA SessionsBegin == Init => SessionsInv
<1> SUFFICES ASSUME Init PROVE SessionsInv
  OBVIOUS
<1>1. Fielded
  <2>1. outcome \in [Fields -> Nat] /\ recorded \in [CallOutcome -> Nat]
    BY FieldsAre DEF Init, ScenarioInit, NothingRecorded
  <2>2. session \in [Sessions -> SessionStates]
    BY DEF Init, ScenarioInit, SessionStates
  <2>3. QED
    BY <2>1, <2>2 DEF Init, ScenarioInit, Fielded
<1>2. Sound
  BY DEF Init, ScenarioInit, Sound
<1>3. ProbeTyped
  BY DEF Init, ProbeIdle, ProbeTyped
<1>4. LoadTyped
  BY FieldsAre DEF Init, LoadIdle, LoadTyped, NothingSeen
<1>5. PoolProbeInv /\ RoundInv
  BY <1>1, <1>3, SessionsAssumption, PlanIsTyped
     DEF Init, ScenarioInit, ProbeIdle, PoolProbeInv, RoundInv, Resting, InRound, PoolProbes, Rounds
<1>6. LoadInv
  BY SessionsAssumption DEF Init, ScenarioInit, LoadInv, Resting, Usable, LoadIdle
<1>7. FuzzInv
  BY SessionsAssumption, <1>1, PlanIsTyped DEF Init, ScenarioInit, FuzzIdle, FuzzInv, Resting
<1>8. QED
  BY <1>1, <1>2, <1>3, <1>4, <1>5, <1>6, <1>7 DEF SessionsInv

LEMMA SessionsStutter == SessionsInv /\ UNCHANGED scenariosVars => SessionsInv'
<1> SUFFICES ASSUME SessionsInv, UNCHANGED scenariosVars PROVE SessionsInv'
  OBVIOUS
<1> USE DEF scenariosVars, scenarioVars, probeVars, loadVars, fuzzVars
<1>1. Fielded' /\ Sound' /\ ProbeTyped' /\ LoadTyped'
  BY DEF SessionsInv, Fielded, Sound, ProbeTyped, LoadTyped
<1>2. PoolProbeInv' /\ RoundInv' /\ FuzzInv'
  BY DEF SessionsInv, PoolProbeInv, RoundInv, FuzzInv, Resting, InRound, Fresh
<1>3. LoadInv'
  BY DEF SessionsInv, LoadInv, Resting, Pooled
<1>4. QED
  BY <1>1, <1>2, <1>3 DEF SessionsInv

LEMMA SessionsOfCancel ==
    SessionsInv /\ CancelScenario /\ UNCHANGED <<probeVars, loadVars, fuzzVars>> => SessionsInv'
<1> SUFFICES ASSUME SessionsInv, CancelScenario, UNCHANGED <<probeVars, loadVars, fuzzVars>> PROVE SessionsInv'
  OBVIOUS
<1> USE DEF CancelScenario, probeVars, loadVars, fuzzVars
<1>1. Fielded' /\ Sound' /\ ProbeTyped' /\ LoadTyped'
  BY DEF SessionsInv, Fielded, Sound, ProbeTyped, LoadTyped
<1>2. PoolProbeInv' /\ RoundInv' /\ FuzzInv'
  BY DEF SessionsInv, PoolProbeInv, RoundInv, FuzzInv, Resting, InRound, Fresh
<1>3. LoadInv'
  BY DEF SessionsInv, LoadInv, Resting, Pooled
<1>4. QED
  BY <1>1, <1>2, <1>3 DEF SessionsInv

-----------------------------------------------------------------------------
\* The workers of a pool that live are no more than were asked for.
LEMMA LiveWorkers ==
    ASSUME NEW n \in Nat, NEW live \in SUBSET PoolWorkers(n)
    PROVE  /\ live \subseteq Sessions /\ live \subseteq 1..n /\ 0 \notin live
           /\ IsFiniteSet(live) /\ Cardinality(live) \in Nat /\ n - Cardinality(live) \in Nat
           /\ n - Cardinality(live) = 0 => live = 1..n
           /\ \A unsure \in SUBSET live : Cardinality(unsure) \in Nat /\ (unsure # {} => Cardinality(unsure) > 0)
<1>1. live \subseteq Sessions /\ live \subseteq 1..n /\ 0 \notin live
  BY DEF PoolWorkers
<1>2. IsFiniteSet(1..n) /\ Cardinality(1..n) = n
  BY FS_Interval
<1>3. IsFiniteSet(live) /\ Cardinality(live) \in Nat /\ Cardinality(live) <= n
  BY <1>1, <1>2, FS_Subset, FS_CardinalityType
<1>4. Cardinality(live) = n => live = 1..n
  BY <1>1, <1>2, FS_Subset
<1>5. ASSUME NEW unsure \in SUBSET live
      PROVE  Cardinality(unsure) \in Nat /\ (unsure # {} => Cardinality(unsure) > 0)
  <2>1. IsFiniteSet(unsure)
    BY <1>3, FS_Subset
  <2>2. QED
    BY <2>1, FS_CardinalityType, FS_EmptySet
<1>6. QED
  BY <1>1, <1>3, <1>4, <1>5

\* What a pool leaves when it opens, or does not.
LEMMA PoolOpened ==
    ASSUME Fielded, Sound, NEW n \in Nat, NEW working, NEW done, PoolOpens(n, working, done),
           \A s \in Sessions \ {0} : Resting(s)
    PROVE  /\ outcome' \in [Fields -> Nat] /\ recorded' \in [CallOutcome -> Nat]
           /\ \A f \in Fields \ {"errors", "incomplete", "teardown"} : outcome'[f] = outcome[f]
           /\ \A f \in Fields : outcome'[f] >= outcome[f]
           /\ \E c \in CallOutcome \ {"Deadlock"}, k \in Nat : recorded' = [recorded EXCEPT ![c] = @ + k]
           /\ session' \in [Sessions -> SessionStates] /\ Sound' /\ session'[0] = session[0]
           /\ plan.factory /\ ~cancelled /\ n > 0 /\ outcome'["incomplete"] = 0 => at' = working /\ left' = 1..n
           /\ \/ at' = done /\ left' = left /\ \A s \in Sessions \ {0} : Resting(s)'
              \/ /\ at' = working /\ left' # {} /\ left' \subseteq PoolWorkers(n)
                 /\ \A s \in left' : session'[s] = "open"
                 /\ \A s \in Sessions \ ({0} \cup left') : Resting(s)'
<1>1. CASE ~plan.factory \/ n = 0 \/ cancelled
  <2>1. /\ outcome' = [outcome EXCEPT !.incomplete = @ + n]
        /\ at' = done /\ left' = left /\ session' = session /\ recorded' = recorded
    BY <1>1 DEF PoolOpens
  <2>2. /\ outcome' \in [Fields -> Nat] /\ (\A f \in Fields \ {"incomplete"} : outcome'[f] = outcome[f])
        /\ outcome'["incomplete"] >= outcome["incomplete"]
    BY <2>1 DEF Fields, Fielded
  <2>3. recorded' = [recorded EXCEPT !["Crash"] = @ + 0] /\ "Crash" \in CallOutcome \ {"Deadlock"} /\ 0 \in Nat
    BY <2>1 DEF Fielded, CallOutcome
  <2>4. "teardown" \in Fields /\ "incomplete" \in Fields
    BY DEF Fields
  <2>5. Sound' /\ \A s \in Sessions \ {0} : Resting(s)'
    BY <2>1, <2>2, <2>4 DEF Sound, Resting
  <2>6. \A f \in Fields : outcome'[f] >= outcome[f]
    BY <2>2, <2>4 DEF Fielded
  <2>7. \E c \in CallOutcome \ {"Deadlock"}, k \in Nat : recorded' = [recorded EXCEPT ![c] = @ + k]
    BY <2>3
  <2>8. ~(plan.factory /\ ~cancelled /\ n > 0)
    BY <1>1
  <2>9. outcome' \in [Fields -> Nat] /\ recorded' \in [CallOutcome -> Nat] /\ session' \in [Sessions -> SessionStates]
        /\ \A f \in Fields \ {"errors", "incomplete", "teardown"} : outcome'[f] = outcome[f]
    BY <2>1, <2>2 DEF Fielded
  <2>10. QED
    BY <2>1, <2>5, <2>6, <2>7, <2>8, <2>9
<1>2. CASE ~(~plan.factory \/ n = 0 \/ cancelled)
  <2>1. PICK live \in SUBSET PoolWorkers(n), class \in {ClassifyError(e) : e \in SessionErrors} \cup {"Crash"} :
         LET failing == n - Cardinality(live)
             built == [outcome EXCEPT !.errors = @ + failing, !.incomplete = @ + failing] IN
         /\ recorded' = [recorded EXCEPT ![class] = @ + failing]
         /\ \/ /\ live # {}
               /\ at' = working /\ left' = live /\ outcome' = built
               /\ session' = [s \in Sessions |-> IF s \in live THEN Spawned(s) ELSE session[s]]
            \/ /\ live = {} \/ plan.gated \/ cancelled
               /\ at' = done /\ UNCHANGED left
               /\ \E unsure \in SUBSET live :
                     /\ session' = [s \in Sessions |-> IF s \in unsure THEN "unsure"
                                                       ELSE IF s \in live THEN "closed" ELSE session[s]]
                     /\ outcome' = [built EXCEPT !.incomplete = @ + Cardinality(live),
                                                 !.teardown = @ + Cardinality(unsure)]
    BY <1>2 DEF PoolOpens
  <2> DEFINE failing == n - Cardinality(live)
             built == [outcome EXCEPT !.errors = @ + failing, !.incomplete = @ + failing]
  <2>8. failing = 0 => live = 1..n
    BY LiveWorkers
  <2>9. "teardown" \in Fields /\ "incomplete" \in Fields /\ "errors" \in Fields /\ outcome \in [Fields -> Nat]
    BY DEF Fields, Fielded
  <2>2. /\ failing \in Nat /\ Cardinality(live) \in Nat /\ live \subseteq Sessions /\ 0 \notin live
        /\ \A unsure \in SUBSET live : Cardinality(unsure) \in Nat /\ (unsure # {} => Cardinality(unsure) > 0)
    BY LiveWorkers
  <2>3. /\ recorded' \in [CallOutcome -> Nat]
        /\ \E c \in CallOutcome \ {"Deadlock"}, k \in Nat : recorded' = [recorded EXCEPT ![c] = @ + k]
    <3>1. recorded' = [recorded EXCEPT ![class] = @ + failing] /\ class \in CallOutcome \ {"Deadlock"}
      BY <2>1, ClassesOfErrors DEF CallOutcome
    <3> HIDE DEF failing
    <3>2. recorded' \in [CallOutcome -> Nat]
      BY <3>1, <2>2 DEF Fielded
    <3>3. \E c \in CallOutcome \ {"Deadlock"}, k \in Nat : recorded' = [recorded EXCEPT ![c] = @ + k]
      BY <3>1, <2>2
    <3>4. QED
      BY <3>2, <3>3
  <2>4. /\ built \in [Fields -> Nat] /\ built["teardown"] = outcome["teardown"]
        /\ \A f \in Fields \ {"errors", "incomplete"} : built[f] = outcome[f]
        /\ \A f \in Fields : built[f] >= outcome[f]
        /\ built["incomplete"] = outcome["incomplete"] + failing
    <3> HIDE DEF failing
    <3>1. outcome \in [Fields -> Nat] /\ "teardown" \in Fields
      BY DEF Fielded, Fields
    <3>2. \A f \in Fields : outcome[f] \in Nat
      BY <3>1
    <3>3. /\ built \in [Fields -> Nat]
          /\ \A f \in Fields : built[f] = IF f = "errors" THEN outcome[f] + failing
                                          ELSE IF f = "incomplete" THEN outcome[f] + failing ELSE outcome[f]
      BY <2>2, <3>1, TwoFields
    <3>4. "incomplete" \in Fields
      BY DEF Fields
    <3> HIDE DEF built
    <3>5. QED
      BY <2>2, <3>1, <3>2, <3>3, <3>4
  <2>5. CASE /\ live # {} /\ at' = working /\ left' = live /\ outcome' = built
             /\ session' = [s \in Sessions |-> IF s \in live THEN Spawned(s) ELSE session[s]]
    <3> HIDE DEF built
    <3>1. \A s \in live : Spawned(s) = "open"
      BY <2>2 DEF Spawned, Resting
    <3>2. session' \in [Sessions -> SessionStates]
      BY <2>5, <3>1 DEF Fielded, SessionStates
    <3>3. Sound' /\ session'[0] = session[0]
      BY <2>2, <2>4, <2>5, <3>1, SessionsAssumption DEF Sound
    <3>4. \A s \in Sessions \ ({0} \cup left') : Resting(s)'
      BY <2>5, <3>1 DEF Resting
    <3>5. outcome'["incomplete"] = 0 => left' = 1..n
      <4>1. outcome'["incomplete"] = outcome["incomplete"] + failing /\ outcome["incomplete"] \in Nat
        BY <2>4, <2>5, <2>9
      <4> HIDE DEF failing
      <4>2. QED
        BY <2>2, <2>5, <2>8, <4>1
    <3>6. QED
      BY <2>2, <2>3, <2>4, <2>5, <3>1, <3>2, <3>3, <3>4, <3>5
  <2>6. ASSUME at' = done, left' = left, NEW unsure \in SUBSET live,
               session' = [s \in Sessions |-> IF s \in unsure THEN "unsure"
                                              ELSE IF s \in live THEN "closed" ELSE session[s]],
               outcome' = [built EXCEPT !.incomplete = @ + Cardinality(live), !.teardown = @ + Cardinality(unsure)]
        PROVE  /\ outcome' \in [Fields -> Nat] /\ session' \in [Sessions -> SessionStates] /\ Sound'
               /\ session'[0] = session[0] /\ \A s \in Sessions \ {0} : Resting(s)'
               /\ \A f \in Fields \ {"errors", "incomplete", "teardown"} : outcome'[f] = outcome[f]
               /\ \A f \in Fields : outcome'[f] >= outcome[f]
               /\ n > 0 => outcome'["incomplete"] > 0
    <3> HIDE DEF built
    <3>1. /\ outcome' \in [Fields -> Nat] /\ outcome'["teardown"] = built["teardown"] + Cardinality(unsure)
          /\ outcome'["incomplete"] = built["incomplete"] + Cardinality(live)
          /\ \A f \in Fields \ {"incomplete", "teardown"} : outcome'[f] = built[f]
      <4>1. "teardown" \in Fields
        BY DEF Fields
      <4>2. QED
        <5>1. /\ outcome' \in [Fields -> Nat]
              /\ \A f \in Fields : outcome'[f] = IF f = "incomplete" THEN built[f] + Cardinality(live)
                                               ELSE IF f = "teardown" THEN built[f] + Cardinality(unsure) ELSE built[f]
          BY <2>2, <2>4, <2>6, TwoFields
        <5>2. QED
          BY <2>9, <5>1
    <3>2. session' \in [Sessions -> SessionStates]
      BY <2>6 DEF Fielded, SessionStates
    <3>3. Sound'
      BY <2>2, <2>4, <2>6, <3>1 DEF Sound, Fielded, Fields
    <3>4. \A f \in Fields : outcome[f] \in Nat /\ built[f] \in Nat
      BY <2>4, <2>9
    <3>5. \A f \in Fields : outcome'[f] >= outcome[f]
      <4>1. \A f \in Fields : outcome'[f] >= built[f]
        BY <2>2, <2>9, <3>1, <3>4
      <4>2. QED
        BY <2>4, <3>1, <3>4, <4>1
    <3>6. n > 0 => outcome'["incomplete"] > 0
      <4>1. outcome'["incomplete"] = outcome["incomplete"] + failing + Cardinality(live)
        BY <2>4, <3>1
      <4>2. failing = n - Cardinality(live) /\ outcome["incomplete"] \in Nat
        BY <2>9, <3>4
      <4> HIDE DEF failing
      <4>3. QED
        BY <2>2, <4>1, <4>2
    <3>7. \A f \in Fields \ {"errors", "incomplete", "teardown"} : outcome'[f] = outcome[f]
      BY <2>4, <3>1
    <3>8. QED
      BY <2>2, <2>6, <3>1, <3>2, <3>3, <3>5, <3>6, <3>7, SessionsAssumption DEF Resting
  <2>7. CASE /\ at' = done /\ UNCHANGED left
             /\ \E unsure \in SUBSET live :
                   /\ session' = [s \in Sessions |-> IF s \in unsure THEN "unsure"
                                                     ELSE IF s \in live THEN "closed" ELSE session[s]]
                   /\ outcome' = [built EXCEPT !.incomplete = @ + Cardinality(live),
                                               !.teardown = @ + Cardinality(unsure)]
    <3>1. /\ outcome' \in [Fields -> Nat] /\ session' \in [Sessions -> SessionStates] /\ Sound'
          /\ session'[0] = session[0] /\ \A s \in Sessions \ {0} : Resting(s)'
          /\ \A f \in Fields \ {"errors", "incomplete", "teardown"} : outcome'[f] = outcome[f]
          /\ \A f \in Fields : outcome'[f] >= outcome[f]
          /\ n > 0 => outcome'["incomplete"] > 0
      BY <2>6, <2>7
    <3>2. ~(n > 0 /\ outcome'["incomplete"] = 0)
      BY <3>1
    <3>3. QED
      BY <2>3, <2>7, <3>1, <3>2
  <2>10. QED
    BY <2>1, <2>5, <2>7
<1>3. QED
  BY <1>1, <1>2

-----------------------------------------------------------------------------
\* What the other scenarios keep is theirs: a probe disturbs none of it.
LEMMA ProbesElsewhere ==
    ASSUME SessionsInv, kind \in ProbeKinds, UNCHANGED <<kind, plan, loadVars, fuzzVars>>, at' # "start"
    PROVE  LoadTyped' /\ LoadInv' /\ FuzzInv'
BY KindsAreApart DEF SessionsInv, LoadTyped, LoadInv, FuzzInv, loadVars, fuzzVars

\* A plan that is refused or passed over, and a single probe.
LEMMA SessionsOfRefusals ==
    ASSUME SessionsInv, kind \in ProbeKinds, UNCHANGED <<loadVars, fuzzVars>>, RefusePlan \/ SkipPlan
    PROVE  SessionsInv'
<1>1. /\ at' = "over" /\ UNCHANGED <<kind, plan, left, session, recorded, cancelled, probeVars>> /\ at = "start"
      /\ outcome' = Plus(NoOutcome, {"errors"}) \/ outcome' = outcome
  BY DEF RefusePlan, SkipPlan, Return
<1>2. LoadTyped' /\ LoadInv' /\ FuzzInv'
  BY <1>1, ProbesElsewhere
<1>3. outcome' \in [Fields -> Nat] /\ (\A s \in Sessions : session[s] # "unsure")
  BY <1>1, FieldsAre, Added DEF SessionsInv, Fielded
<1>4. Fielded' /\ Sound' /\ ProbeTyped'
  BY <1>1, <1>3 DEF SessionsInv, Fielded, Sound, ProbeTyped, probeVars
<1>5. PoolProbeInv' /\ RoundInv'
  BY <1>1 DEF SessionsInv, PoolProbeInv, RoundInv, Resting, InRound, Fresh, probeVars, Fielded
<1>6. QED
  BY <1>2, <1>4, <1>5 DEF SessionsInv

\* The tallies never say that a teardown failed, nor that one worked.
LEMMA Tallies ==
    ASSUME NEW r \in HangOutcomes
    PROVE  /\ "teardown" \notin Tally(r) /\ "teardown" \notin TallyProbe(r)
           /\ "incomplete" \notin Tally(r) /\ "incomplete" \notin TallyProbe(r)
           /\ "divergences" \notin Tally(r) /\ "divergences" \notin TallyProbe(r)
           /\ "total" \in Tally(r) /\ "total" \in TallyProbe(r)
           /\ "deadlocks" \in Tally(r) <=> r.verdict = "Deadlock"
           /\ "deadlocks" \in TallyProbe(r) <=> r.verdict = "Deadlock"
           /\ "successful" \in Tally(r) <=> RecordedAs(r) = "Success"
           /\ "successful" \in TallyProbe(r) <=> RecordedAs(r) = "Success"
           /\ "errors" \in Tally(r) <=> r.verdict = "Err" \/ (r.verdict \in {"Ok", "Slow"} /\ r.logical)
           /\ \E f \in {"successful", "hangs", "deadlocks", "errors"} : f \in Tally(r)
           /\ \E f \in {"successful", "hangs", "deadlocks", "errors"} : f \in TallyProbe(r)
<1>1. CASE r.verdict = "Deadlock"
  <2>1. Tally(r) = {"total", "deadlocks"} /\ TallyProbe(r) = {"total", "deadlocks"}
    BY <1>1 DEF Tally, TallyProbe
  <2>2. QED
    BY <1>1, <2>1, ClassesOfCalls
<1>2. CASE r.verdict = "Err"
  <2>1. Tally(r) = {"total", "errors"} /\ TallyProbe(r) = {"total", "errors"}
    BY <1>2 DEF Tally, TallyProbe
  <2>2. QED
    BY <1>2, <2>1, ClassesOfCalls, WhatACallEnds
<1>3. CASE r.verdict = "Slow"
  <2>1. /\ r.logical => Tally(r) = {"total", "errors"} /\ TallyProbe(r) = {"hangs", "total", "errors"}
        /\ ~r.logical => Tally(r) = {"total", "hangs"} /\ TallyProbe(r) = {"hangs", "total"}
    BY <1>3 DEF Tally, TallyProbe
  <2>2. QED
    BY <1>3, <2>1, ClassesOfCalls, WhatACallEnds
<1>4. CASE r.verdict = "Ok"
  <2>1. /\ r.logical => Tally(r) = {"total", "errors"} /\ TallyProbe(r) = {"total", "errors"}
        /\ ~r.logical => Tally(r) = {"total", "successful"} /\ TallyProbe(r) = {"total", "successful"}
    BY <1>4 DEF Tally, TallyProbe
  <2>2. QED
    BY <1>4, <2>1, ClassesOfCalls, WhatACallEnds
<1>5. QED
  BY <1>1, <1>2, <1>3, <1>4, WhatACallEnds

LEMMA SessionsOfProbeMain ==
    ASSUME SessionsInv, kind \in ProbeKinds, UNCHANGED <<loadVars, fuzzVars>>, ProbeMain
    PROVE  SessionsInv'
<1>1. at' = "over" /\ UNCHANGED <<kind, plan, left, cancelled, probeVars>> /\ at = "start" /\ kind = "deadlock_probe"
  BY DEF ProbeMain, Over
<1>2. LoadTyped' /\ LoadInv' /\ FuzzInv'
  BY <1>1, ProbesElsewhere
<1>3. /\ outcome' \in [Fields -> Nat] /\ recorded' \in [CallOutcome -> Nat]
      /\ session' \in [Sessions -> SessionStates]
      /\ \A s \in Sessions : session'[s] \notin {"misused", "unsure"} /\ (s # 0 => session'[s] = session[s])
  <2>1. CASE cancelled
    BY <2>1, <1>1, Added, CountedMore DEF ProbeMain, SessionsInv, Fielded, CallOutcome
  <2>2. CASE ~cancelled
    <3>1. PICK r \in HangOutcomes :
            /\ outcome' = Plus(outcome, TallyProbe(r)) /\ recorded' = Counted(RecordedAs(r))
            /\ session' = [session EXCEPT ![0] = AfterCall(0, r)]
      BY <2>2 DEF ProbeMain
    <3>2. AfterCall(0, r) \in {"open", "stuck", "gone"}
      BY <1>1, SessionsAssumption DEF AfterCall, SessionsInv, Fielded
    <3>3. outcome' \in [Fields -> Nat] /\ recorded' \in [CallOutcome -> Nat]
      <4>1. RecordedAs(r) \in CallOutcome
        BY ClassesOfCalls
      <4>2. QED
        BY <3>1, <4>1, Added, CountedMore DEF SessionsInv, Fielded
    <3>4. /\ session' \in [Sessions -> SessionStates]
          /\ \A s \in Sessions : session'[s] \notin {"misused", "unsure"} /\ (s # 0 => session'[s] = session[s])
      BY <1>1, <3>1, <3>2 DEF SessionsInv, Fielded, SessionStates
    <3>5. QED
      BY <3>3, <3>4
  <2>3. QED
    BY <2>1, <2>2
<1>4. Fielded' /\ Sound' /\ ProbeTyped'
  BY <1>1, <1>3 DEF SessionsInv, Fielded, Sound, ProbeTyped, probeVars
<1>5. PoolProbeInv' /\ RoundInv'
  BY <1>1, <1>3 DEF SessionsInv, PoolProbeInv, RoundInv, Resting, Rounds, Fielded, probeVars
<1>6. QED
  BY <1>2, <1>4, <1>5 DEF SessionsInv

LEMMA SessionsOfProbePool ==
    ASSUME SessionsInv, kind \in ProbeKinds, UNCHANGED <<loadVars, fuzzVars>>, ProbePool
    PROVE  SessionsInv'
<1>1. /\ UNCHANGED <<kind, plan, cancelled, probeVars>> /\ at = "start" /\ kind \in PoolProbes
      /\ PoolOpens(plan.count, "working", "joined") /\ plan.count \in Nat
  BY PlanIsTyped DEF ProbePool, PoolProbes, SessionsInv
<1>2. \A s \in Sessions \ {0} : Resting(s)
  BY <1>1 DEF SessionsInv, Fielded, Resting
<1>3. /\ outcome' \in [Fields -> Nat] /\ recorded' \in [CallOutcome -> Nat]
      /\ session' \in [Sessions -> SessionStates] /\ Sound' /\ session'[0] = session[0]
      /\ \/ at' = "joined" /\ left' = left /\ \A s \in Sessions \ {0} : Resting(s)'
         \/ /\ at' = "working" /\ left' # {} /\ left' \subseteq PoolWorkers(plan.count)
            /\ \A s \in left' : session'[s] = "open"
            /\ \A s \in Sessions \ ({0} \cup left') : Resting(s)'
  BY <1>1, <1>2, PoolOpened DEF SessionsInv
<1>4. LoadTyped' /\ LoadInv' /\ FuzzInv'
  BY <1>1, <1>3, ProbesElsewhere
<1>5. Fielded' /\ ProbeTyped'
  BY <1>1, <1>3 DEF SessionsInv, Fielded, ProbeTyped, probeVars, PoolWorkers
<1>6. PoolProbeInv'
  BY <1>1, <1>3 DEF SessionsInv, PoolProbeInv, Resting, Fielded, PoolWorkers, probeVars
<1>7. RoundInv'
  BY <1>1, KindsAreApart DEF RoundInv
<1>8. QED
  BY <1>3, <1>4, <1>5, <1>6, <1>7 DEF SessionsInv

\* A worker of a pool that has ended, however: its session is not used again.
LEMMA SessionsOfProbeWorkers ==
    ASSUME SessionsInv, kind \in ProbeKinds, UNCHANGED <<loadVars, fuzzVars>>, NEW w \in Sessions,
           ProbeCancelled(w) \/ ProbeWorker(w) \/ ProbeWorkerDies(w)
    PROVE  SessionsInv'
<1>1. /\ UNCHANGED <<kind, plan, at, cancelled, round, row, ended>> /\ at = "working"
      /\ w \in left /\ left' = left \ {w}
  BY DEF ProbeCancelled, ProbeWorker, ProbeWorkerDies, WorkerDies, probeVars
<1>2. kind \in PoolProbes /\ session[w] = "open" /\ w # 0 /\ w \in 1..plan.count
  BY <1>1, KindsAreApart, PlanIsTyped DEF SessionsInv, PoolProbeInv, RoundInv
<1>3. LoadTyped' /\ LoadInv' /\ FuzzInv'
  BY <1>1, ProbesElsewhere
<1>4. /\ outcome' \in [Fields -> Nat] /\ recorded' \in [CallOutcome -> Nat] /\ ProbeTyped'
      /\ \E end \in {"closed", "unsure"} :
            /\ session' = [session EXCEPT ![w] = end]
            /\ outcome'["teardown"] >= outcome["teardown"]
            /\ end = "unsure" => outcome'["teardown"] > 0
  <2>0. outcome \in [Fields -> Nat] /\ recorded \in [CallOutcome -> Nat] /\ {"teardown", "incomplete"} \subseteq Fields
    BY DEF SessionsInv, Fielded, Fields
  <2>1. CASE ProbeWorkerDies(w)
    BY <2>0, <2>1, Added, CountedMore
       DEF ProbeWorkerDies, WorkerDies, SessionsInv, ProbeTyped, probeVars, CallOutcome
  <2>2. CASE ProbeCancelled(w)
    <3>1. PICK end \in {"closed", "unsure"} :
            /\ session' = [session EXCEPT ![w] = AfterShutdown(@, end)]
            /\ outcome' = MergeWorker(outcome, Plus(NoOutcome, {"errors"} \cup Failed(end)))
      BY <2>2 DEF ProbeCancelled
    <3>2. session' = [session EXCEPT ![w] = end]
      BY <1>2, <3>1 DEF AfterShutdown
    <3> DEFINE mine == Plus(NoOutcome, {"errors"} \cup Failed(end))
    <3>3. mine \in [Fields -> Nat] /\ (end = "unsure" => mine["teardown"] = 1)
      BY <2>0, FieldsAre, Added DEF Failed
    <3>4. /\ outcome' \in [Fields -> Nat] /\ outcome'["teardown"] = outcome["teardown"] + mine["teardown"]
      <4> HIDE DEF mine
      <4>1. QED
        BY <2>0, <3>1, <3>3, Merged DEF mine
    <3>5. recorded' \in [CallOutcome -> Nat]
      BY <2>0, <2>2, CountedMore DEF ProbeCancelled, CallOutcome
    <3>6. ProbeTyped'
      BY <2>2 DEF ProbeCancelled, probeVars, SessionsInv, ProbeTyped
    <3>7. mine["teardown"] \in Nat /\ outcome["teardown"] \in Nat
      BY <2>0, <3>3
    <3> HIDE DEF mine
    <3>8. outcome'["teardown"] >= outcome["teardown"] /\ (end = "unsure" => outcome'["teardown"] > 0)
      BY <3>3, <3>4, <3>7
    <3>9. QED
      BY <3>2, <3>4, <3>5, <3>6, <3>8
  <2>3. CASE ProbeWorker(w)
    <3>1. PICK r \in HangOutcomes, end \in {"closed", "unsure"} :
            /\ recorded' = Counted(RecordedAs(r))
            /\ session' = [session EXCEPT ![w] = AfterShutdown(AfterCall(w, r), end)]
            /\ outcome' = MergeWorker(outcome, Plus(NoOutcome, TallyProbe(r) \cup Failed(end)))
            /\ IF kind = "race_check" /\ r.verdict \in {"Ok", "Slow"}
               THEN \E p \in Payloads : stored' = [v \in DOMAIN stored \cup {w} |-> IF v = w THEN p ELSE stored[v]]
               ELSE UNCHANGED stored
      BY <2>3 DEF ProbeWorker
    <3>2. session' = [session EXCEPT ![w] = end]
      BY <1>2, <3>1 DEF AfterShutdown, AfterCall
    <3> DEFINE mine == Plus(NoOutcome, TallyProbe(r) \cup Failed(end))
    <3>3. mine \in [Fields -> Nat] /\ (end = "unsure" => mine["teardown"] = 1)
      BY <2>0, FieldsAre, Added DEF Failed
    <3>4. /\ outcome' \in [Fields -> Nat] /\ outcome'["teardown"] = outcome["teardown"] + mine["teardown"]
      <4> HIDE DEF mine
      <4>1. QED
        BY <2>0, <3>1, <3>3, Merged DEF mine
    <3>5. recorded' \in [CallOutcome -> Nat]
      BY <2>0, <3>1, CountedMore, ClassesOfCalls
    <3>6. ProbeTyped'
      BY <1>1, <3>1 DEF SessionsInv, ProbeTyped
    <3>7. mine["teardown"] \in Nat /\ outcome["teardown"] \in Nat
      BY <2>0, <3>3
    <3> HIDE DEF mine
    <3>8. outcome'["teardown"] >= outcome["teardown"] /\ (end = "unsure" => outcome'["teardown"] > 0)
      BY <3>3, <3>4, <3>7
    <3>9. QED
      BY <3>2, <3>4, <3>5, <3>6, <3>8
  <2>4. QED
    BY <2>1, <2>2, <2>3
<1>10. DOMAIN stored' \subseteq DOMAIN stored \cup {w}
  BY DEF ProbeCancelled, ProbeWorker, ProbeWorkerDies, probeVars
<1>5. PICK end \in {"closed", "unsure"} :
            /\ session' = [session EXCEPT ![w] = end]
            /\ outcome'["teardown"] >= outcome["teardown"]
            /\ end = "unsure" => outcome'["teardown"] > 0
  BY <1>4
<1>6. Fielded'
  BY <1>1, <1>4, <1>5 DEF SessionsInv, Fielded, SessionStates
<1>7. Sound'
  BY <1>4, <1>5 DEF SessionsInv, Sound, Fielded, Fields
<1>8. PoolProbeInv' /\ RoundInv'
  BY <1>1, <1>2, <1>5, <1>10, KindsAreApart DEF SessionsInv, Fielded, PoolProbeInv, RoundInv, Resting
<1>9. QED
  BY <1>3, <1>4, <1>6, <1>7, <1>8 DEF SessionsInv

\* The largest of two numbers.
LEMMA MaxOfTwo ==
    ASSUME NEW a \in Nat, NEW b \in Nat
    PROVE  Max({a, b}) \in Nat /\ Max({a, b}) >= a /\ Max({a, b}) >= b /\ Max({a, b}) \in {a, b}
<1>1. \E m \in {a, b} : \A y \in {a, b} : m >= y
  OBVIOUS
<1>2. Max({a, b}) \in {a, b} /\ \A y \in {a, b} : Max({a, b}) >= y
  BY <1>1 DEF Max
<1>3. QED
  BY <1>2

\* What race_check makes of the responses changes nothing but errors and divergences.
LEMMA Judged ==
    ASSUME SessionsInv, kind \in PoolProbes, DOMAIN stored \subseteq 1..plan.count
    PROVE  /\ JudgeResponses \in [Fields -> Nat]
           /\ \A f \in Fields \ {"errors", "divergences"} : JudgeResponses[f] = outcome[f]
           /\ JudgeResponses["errors"] >= outcome["errors"] /\ JudgeResponses["divergences"] >= outcome["divergences"]
           /\ JudgeResponses["errors"] = 0 => DOMAIN stored = 1..plan.count
           /\ JudgeResponses["errors"] = 0 /\ JudgeResponses["divergences"] = 0 => ~Analyze(stored)
<1> DEFINE missing == plan.count - Cardinality(DOMAIN stored)
<1>1. IsFiniteSet(1..plan.count) /\ Cardinality(1..plan.count) = plan.count /\ plan.count \in Nat
  <2>1. plan.count \in Nat
    BY PlanIsTyped DEF SessionsInv
  <2>2. QED
    BY <2>1, FS_Interval
<1>2. /\ missing \in Nat
      /\ missing = 0 => DOMAIN stored = 1..plan.count
  BY <1>1, FS_Subset, FS_CardinalityType
<1>3. outcome \in [Fields -> Nat] /\ {"errors", "divergences"} \subseteq Fields /\ "errors" # "divergences"
  BY DEF SessionsInv, Fielded, Fields
<1> HIDE DEF missing
<1>4. JudgeResponses = IF missing # 0 THEN [outcome EXCEPT !["errors"] = Max({outcome["errors"], missing})]
                       ELSE IF Analyze(stored) THEN Plus(outcome, {"divergences"}) ELSE outcome
  BY <1>3 DEF JudgeResponses, missing
<1>5. CASE missing # 0
  <2>1. Max({outcome["errors"], missing}) \in Nat /\ Max({outcome["errors"], missing}) >= outcome["errors"]
        /\ Max({outcome["errors"], missing}) >= missing /\ outcome["errors"] \in Nat
    BY <1>2, <1>3, MaxOfTwo
  <2>2. QED
    BY <1>2, <1>3, <1>4, <1>5, <2>1
<1>6. CASE missing = 0 /\ Analyze(stored)
  BY <1>2, <1>3, <1>4, <1>6, Added
<1>7. CASE missing = 0 /\ ~Analyze(stored)
  BY <1>2, <1>3, <1>4, <1>7
<1>8. QED
  BY <1>5, <1>6, <1>7

LEMMA SessionsOfProbeJoined ==
    ASSUME SessionsInv, kind \in ProbeKinds, UNCHANGED <<loadVars, fuzzVars>>, ProbeJoined
    PROVE  SessionsInv'
<1>1. /\ at' = "over" /\ UNCHANGED <<kind, plan, left, session, recorded, cancelled, probeVars>>
      /\ outcome' = JudgeResponses \/ outcome' = outcome
      /\ kind \in PoolProbes /\ at # "start" /\ left = {}
  BY DEF ProbeJoined, Return, PoolProbes, SessionsInv, PoolProbeInv
<1>2. LoadTyped' /\ LoadInv' /\ FuzzInv'
  BY <1>1, ProbesElsewhere
<1>3. outcome' \in [Fields -> Nat] /\ outcome'["teardown"] = outcome["teardown"]
  BY <1>1, Judged DEF SessionsInv, PoolProbeInv, Fielded, Fields
<1>4. Fielded' /\ Sound' /\ ProbeTyped'
  BY <1>1, <1>3 DEF SessionsInv, Fielded, Sound, ProbeTyped, probeVars
<1>5. PoolProbeInv' /\ RoundInv'
  BY <1>1, KindsAreApart DEF SessionsInv, PoolProbeInv, RoundInv, Resting, probeVars
<1>6. QED
  BY <1>2, <1>4, <1>5 DEF SessionsInv

LEMMA RecordingOf ==
    ASSUME recorded \in [CallOutcome -> Nat], NEW c \in CallOutcome
    PROVE  Recording(c) \in [CallOutcome -> Nat]
BY CountedMore DEF Recording

LEMMA RoundsAreProbes ==
    ASSUME SessionsInv, kind \in ProbeKinds, at \in {"round", "calls", "close", "last"}
    PROVE  kind \in Rounds /\ plan.count \in Nat
<1>1. plan.count \in Nat
  BY PlanIsTyped DEF SessionsInv
<1>2. QED
  BY <1>1, KindsAreApart DEF SessionsInv, PoolProbeInv

\* The session of a round that goes on.
LEMMA FreshIsOwn ==
    ASSUME SessionsInv, kind \in Rounds, round < plan.count
    PROVE  Fresh \in Sessions /\ Fresh # 0
<1>1. plan.count \in Nat /\ 1..plan.count \subseteq Sessions
  BY PlanIsTyped DEF SessionsInv
<1>2. QED
  BY <1>1 DEF SessionsInv, ProbeTyped, Fresh

\* What ends without a call.
LEMMA SessionsOfRounds ==
    ASSUME SessionsInv, kind \in ProbeKinds, UNCHANGED <<loadVars, fuzzVars>>,
           BeginRounds \/ RoundsEnd \/ RoundSpawnFails \/ RowDone
    PROVE  SessionsInv'
<1>1. /\ UNCHANGED <<kind, plan, left, session, cancelled, stored>> /\ kind \in Rounds /\ at' # "start"
      /\ row' = row
  BY RoundsAreProbes DEF BeginRounds, RoundsEnd, RoundSpawnFails, RowDone, Return, Rounds, probeVars
<1>2. LoadTyped' /\ LoadInv' /\ FuzzInv'
  BY <1>1, ProbesElsewhere
<1>3. /\ outcome' \in [Fields -> Nat] /\ recorded' \in [CallOutcome -> Nat]
      /\ outcome'["teardown"] = outcome["teardown"]
  <2>0. outcome \in [Fields -> Nat] /\ recorded \in [CallOutcome -> Nat] /\ {"teardown", "errors"} \subseteq Fields
    BY DEF SessionsInv, Fielded, Fields
  <2>1. CASE RoundSpawnFails
    <3>1. \A e : ClassifyError(e) \in CallOutcome
      BY ClassesOfErrors DEF CallOutcome
    <3>2. QED
      BY <2>0, <2>1, <3>1, Added, RecordingOf DEF RoundSpawnFails
  <2>2. CASE BeginRounds \/ RoundsEnd \/ RowDone
    BY <2>0, <2>2 DEF BeginRounds, RoundsEnd, RowDone, Return
  <2>3. QED
    BY <2>1, <2>2
<1>4. Fielded' /\ Sound'
  BY <1>1, <1>3 DEF SessionsInv, Fielded, Sound
<1>5. ProbeTyped'
  <2>1. CASE BeginRounds \/ RoundsEnd
    BY <2>1 DEF SessionsInv, ProbeTyped, BeginRounds, RoundsEnd, Return, probeVars
  <2>2. CASE RoundSpawnFails
    BY <2>2 DEF SessionsInv, ProbeTyped, RoundSpawnFails
  <2>3. CASE RowDone
    BY <2>3 DEF SessionsInv, ProbeTyped, RowDone
  <2>4. QED
    BY <2>1, <2>2, <2>3
<1>6. PoolProbeInv'
  BY <1>1, KindsAreApart, RoundsAreProbes DEF PoolProbeInv, ProbeKinds
<1>7. RoundInv'
  <2>0. RoundInv /\ round \in Nat /\ plan.count \in Nat
    BY PlanIsTyped DEF SessionsInv, ProbeTyped
  <2>1. CASE BeginRounds \/ RoundsEnd
    BY <1>1, <2>0, <2>1 DEF BeginRounds, RoundsEnd, Return, probeVars, RoundInv, InRound, Resting
  <2>2. CASE RoundSpawnFails
    BY <1>1, <2>0, <2>2 DEF RoundSpawnFails, RoundInv, InRound, Resting
  <2>3. CASE RowDone
    BY <1>1, <2>0, <2>3 DEF RowDone, RoundInv, InRound, Resting, Usable, Fresh
  <2>4. QED
    BY <2>1, <2>2, <2>3
<1>8. QED
  BY <1>2, <1>4, <1>5, <1>6, <1>7 DEF SessionsInv

\* A round's session: spawned, called on, shut down.
LEMMA SessionsOfFresh ==
    ASSUME SessionsInv, kind \in ProbeKinds, UNCHANGED <<loadVars, fuzzVars>>,
           RoundSpawned \/ RoundCall \/ RoundShutdown
    PROVE  SessionsInv'
<1>0. /\ RoundInv /\ round \in Nat /\ plan.count \in Nat /\ outcome \in [Fields -> Nat]
      /\ recorded \in [CallOutcome -> Nat] /\ session \in [Sessions -> SessionStates] /\ "teardown" \in Fields
  BY PlanIsTyped DEF SessionsInv, ProbeTyped, Fielded, Fields
<1>1. /\ UNCHANGED <<kind, plan, left, cancelled, stored, ended>> /\ kind \in Rounds /\ at # "start" /\ at' # "start"
      /\ round < plan.count
  BY RoundsAreProbes, <1>0 DEF RoundSpawned, RoundCall, RoundShutdown, RoundInv, InRound
<1>2. LoadTyped' /\ LoadInv' /\ FuzzInv'
  BY <1>1, ProbesElsewhere
<1>3. Fresh \in Sessions /\ Fresh # 0
  BY <1>1, FreshIsOwn
<1>4. ASSUME NEW to \in Usable, session' = [session EXCEPT ![Fresh] = to],
             outcome' \in [Fields -> Nat], outcome'["teardown"] = outcome["teardown"],
             recorded' \in [CallOutcome -> Nat], at' \in {"calls", "close", "last"}, at' = "calls" => to = "open",
             round' = round, row' \in Nat
      PROVE  SessionsInv'
  <2>1. Fielded'
    BY <1>0, <1>1, <1>3, <1>4 DEF SessionsInv, Fielded, SessionStates, Usable
  <2>2. Sound'
    BY <1>0, <1>1, <1>3, <1>4 DEF SessionsInv, Sound, Usable
  <2>3. ProbeTyped'
    BY <1>1, <1>4 DEF SessionsInv, ProbeTyped
  <2>4. PoolProbeInv'
    BY <1>1, KindsAreApart DEF PoolProbeInv
  <2>5. RoundInv'
    <3>1. \A s \in Sessions \ {0, Fresh} : Resting(s)
      BY <1>0, <1>1 DEF RoundInv
    <3>2. Fresh' = Fresh
      BY <1>4 DEF Fresh
    <3>3. session'[Fresh] = to /\ \A s \in Sessions \ {0, Fresh} : Resting(s)'
      BY <1>0, <1>3, <1>4, <3>1 DEF Resting
    <3>4. QED
      BY <1>0, <1>1, <1>4, <3>2, <3>3 DEF RoundInv, InRound, Usable
  <2>6. QED
    BY <1>2, <2>1, <2>2, <2>3, <2>4, <2>5 DEF SessionsInv
<1>5. CASE RoundSpawned
  <2>1. Spawned(Fresh) = "open"
    BY <1>0, <1>1, <1>3, <1>5 DEF RoundSpawned, RoundInv, InRound, Resting, Spawned
  <2>2. recorded' \in [CallOutcome -> Nat]
    BY <1>0, <1>5, RecordingOf DEF RoundSpawned, CallOutcome
  <2>3. QED
    BY <1>0, <1>4, <1>5, <2>1, <2>2 DEF RoundSpawned, Usable
<1>6. CASE RoundCall
  <2>1. PICK r \in HangOutcomes :
          /\ outcome' = Plus(outcome, Tally(r))
          /\ recorded' = Recording(RecordedAs(r))
          /\ session' = [session EXCEPT ![Fresh] = AfterCall(Fresh, r)]
          /\ at' = IF kind = "cold_start" /\ Ends(r) THEN "last"
                   ELSE IF RowEndsAt(r) THEN "close" ELSE "calls"
    BY <1>6 DEF RoundCall
  <2>2. session[Fresh] = "open"
    BY <1>0, <1>1, <1>6 DEF RoundCall, RoundInv
  <2>3. AfterCall(Fresh, r) \in Usable /\ (at' = "calls" => AfterCall(Fresh, r) = "open")
    BY <2>1, <2>2, WhatACallEnds DEF AfterCall, Usable, RowEndsAt
  <2>4. /\ outcome' \in [Fields -> Nat] /\ outcome'["teardown"] = outcome["teardown"]
        /\ recorded' \in [CallOutcome -> Nat]
    BY <1>0, <2>1, Added, Tallies, ClassesOfCalls, RecordingOf
  <2>5. at' \in {"calls", "close", "last"} /\ round' = round /\ row' \in Nat
    BY <1>6, <2>1 DEF RoundCall, SessionsInv, ProbeTyped
  <2>6. QED
    BY <1>4, <2>1, <2>3, <2>4, <2>5
<1>7. CASE RoundShutdown
  <2>1. PICK end \in {"closed", "unsure"} :
          /\ session' = [session EXCEPT ![Fresh] = AfterShutdown(@, end)]
          /\ outcome' = Plus(outcome, Failed(end))
    BY <1>7 DEF RoundShutdown
  <2>2. /\ round' = round + 1 /\ row' = row /\ recorded' = recorded /\ at' \in {"over", "round"}
        /\ session[Fresh] \in Usable
    BY <1>0, <1>1, <1>7 DEF RoundShutdown, RoundInv, InRound
  <2>3. session' = [session EXCEPT ![Fresh] = end]
    BY <1>0, <1>3, <2>1, <2>2 DEF AfterShutdown, Usable
  <2>4. /\ outcome' \in [Fields -> Nat]
        /\ outcome'["teardown"] = IF end = "unsure" THEN outcome["teardown"] + 1 ELSE outcome["teardown"]
    BY <1>0, <2>1, Added DEF Failed
  <2>5. Fielded'
    BY <1>0, <1>1, <1>3, <2>2, <2>3, <2>4 DEF SessionsInv, Fielded, SessionStates
  <2>6. Sound'
    BY <1>0, <1>3, <2>3, <2>4 DEF SessionsInv, Sound
  <2>7. ProbeTyped' /\ PoolProbeInv'
    BY <1>1, <2>2, KindsAreApart DEF SessionsInv, ProbeTyped, PoolProbeInv
  <2>8. RoundInv'
    <3>1. \A s \in Sessions \ {0} : Resting(s)'
      <4>1. \A s \in Sessions \ {0, Fresh} : Resting(s)
        BY <1>0, <1>1 DEF RoundInv
      <4>2. QED
        BY <1>0, <1>3, <2>3, <4>1 DEF Resting
    <3>2. QED
      BY <1>0, <1>1, <2>2, <3>1 DEF RoundInv, InRound
  <2>9. QED
    BY <1>2, <2>5, <2>6, <2>7, <2>8 DEF SessionsInv
<1>8. QED
  BY <1>5, <1>6, <1>7

LEMMA SessionsOfProbes ==
    SessionsInv /\ kind \in ProbeKinds /\ ProbeStep /\ UNCHANGED <<loadVars, fuzzVars>> => SessionsInv'
BY SessionsOfRefusals, SessionsOfProbeMain, SessionsOfProbePool, SessionsOfProbeWorkers, SessionsOfProbeJoined,
   SessionsOfRounds, SessionsOfFresh DEF ProbeStep

-----------------------------------------------------------------------------
LEMMA FuzzElsewhere ==
    ASSUME SessionsInv, kind = "fuzzer", UNCHANGED <<kind, plan, probeVars, loadVars>>
    PROVE  ProbeTyped' /\ LoadTyped' /\ PoolProbeInv' /\ RoundInv' /\ LoadInv'
BY KindsAreApart DEF SessionsInv, ProbeTyped, LoadTyped, PoolProbeInv, RoundInv, LoadInv, probeVars, loadVars

LEMMA MetricsOfFuzz ==
    /\ \A c \in FuzzClass : ProbeMetric[c] \in {"ExpectedRejection", "Malformed", "Disconnected", "ServerError"}
    /\ \A e : ClassifyErr(e) \in {"ProtocolError", "ParseError", "Disconnected", "Other", "ServerError"}
    /\ \A e : /\ ClassifyProbeErr(e).class \in FuzzClass \ {"Deadlock"}
              /\ ClassifyProbeErr(e).metric \in {"Disconnected", "ExpectedRejection", "ServerError", "Malformed"}
              /\ ClassifyProbeErr(e).metric = "ExpectedRejection" <=> ClassifyProbeErr(e).class = "ProtocolError"
    /\ \A e : IsTerminalError(e) => ClassifyErr(e) = "Disconnected"
<1>1. \A c \in FuzzClass : ProbeMetric[c] \in {"ExpectedRejection", "Malformed", "Disconnected", "ServerError"}
  BY DEF ProbeMetric
<1>2. \A e : ClassifyErr(e) \in {"ProtocolError", "ParseError", "Disconnected", "Other", "ServerError"}
  BY DEF ClassifyErr
<1>3. \A e : /\ ClassifyProbeErr(e).class \in FuzzClass \ {"Deadlock"}
             /\ ClassifyProbeErr(e).metric \in {"Disconnected", "ExpectedRejection", "ServerError", "Malformed"}
             /\ ClassifyProbeErr(e).metric = "ExpectedRejection" <=> ClassifyProbeErr(e).class = "ProtocolError"
  BY DEF ClassifyProbeErr, FuzzClass
<1>4. \A e : IsTerminalError(e) => ClassifyErr(e) = "Disconnected"
  BY DEF ClassifyErr, IsTerminalError
<1>5. QED
  BY <1>1, <1>2, <1>3, <1>4

\* The class of a finding and its metric.
ClassOfCall(r) == IF r.verdict \in {"Ok", "Slow"} THEN IF r.logical THEN "ProtocolError" ELSE "Accepted"
                  ELSE IF r.verdict = "Deadlock" THEN "Deadlock" ELSE ClassifyErr(r.error)

MetricOfCall(r) == IF ClassOfCall(r) = "Deadlock" THEN "Deadlock"
                   ELSE IF ClassOfCall(r) = "Accepted" THEN IF r.verdict = "Slow" THEN "Hang" ELSE "Malformed"
                   ELSE ProbeMetric[ClassOfCall(r)]

FieldsOfCall(r) == {"total"} \cup (IF r.verdict = "Slow" THEN {"hangs"} ELSE {})
                   \cup {IF ClassOfCall(r) = "ProtocolError" THEN "successful"
                         ELSE IF ClassOfCall(r) = "Deadlock" THEN "deadlocks" ELSE "errors"}

\* What a malformed call leaves.
LEMMA CallOfFuzz ==
    ASSUME ProbeCall
    PROVE  \E r \in HangOutcomes :
              /\ findings' = Found(ClassOfCall(r))
              /\ session' = [session EXCEPT ![current] = AfterCall(current, r)]
              /\ recorded' = Counted(MetricOfCall(r)) /\ outcome' = Plus(outcome, FieldsOfCall(r))
              /\ at' = IF FuzzStops(ClassOfCall(r)) THEN "over" ELSE "fuzz"
<1> DEFINE Class(r) == LET answered == r.verdict \in {"Ok", "Slow"} IN
                       CASE answered -> IF r.logical THEN "ProtocolError" ELSE "Accepted"
                         [] r.verdict = "Deadlock" -> "Deadlock"
                         [] OTHER -> ClassifyErr(r.error)
<1>1. PICK r \in HangOutcomes :
        /\ findings' = Found(Class(r))
        /\ session' = [session EXCEPT ![current] = AfterCall(current, r)]
        /\ recorded' = Counted(CASE Class(r) = "Deadlock" -> "Deadlock"
                                 [] Class(r) = "Accepted" -> IF r.verdict = "Slow" THEN "Hang" ELSE "Malformed"
                                 [] OTHER -> ProbeMetric[Class(r)])
        /\ outcome' = Plus(outcome, {"total"} \cup (IF r.verdict = "Slow" THEN {"hangs"} ELSE {})
                                    \cup {CASE Class(r) = "ProtocolError" -> "successful"
                                            [] Class(r) = "Deadlock" -> "deadlocks"
                                            [] OTHER -> "errors"})
        /\ at' = IF FuzzStops(Class(r)) THEN "over" ELSE "fuzz"
  BY DEF ProbeCall
<1>2. Class(r) = ClassOfCall(r)
  BY DEF ClassOfCall
<1> HIDE DEF Class
<1>3. (CASE Class(r) = "Deadlock" -> "Deadlock"
         [] Class(r) = "Accepted" -> IF r.verdict = "Slow" THEN "Hang" ELSE "Malformed"
         [] OTHER -> ProbeMetric[Class(r)]) = MetricOfCall(r)
  BY <1>2 DEF MetricOfCall
<1>4. (CASE Class(r) = "ProtocolError" -> "successful"
         [] Class(r) = "Deadlock" -> "deadlocks"
         [] OTHER -> "errors") = IF ClassOfCall(r) = "ProtocolError" THEN "successful"
                                 ELSE IF ClassOfCall(r) = "Deadlock" THEN "deadlocks" ELSE "errors"
  BY <1>2
<1>5. QED
  BY <1>1, <1>2, <1>3, <1>4 DEF FieldsOfCall

LEMMA FieldsOfFuzz ==
    ASSUME NEW r \in HangOutcomes
    PROVE  /\ ClassOfCall(r) \in FuzzClass /\ MetricOfCall(r) \in CallOutcome
           /\ FuzzStops(ClassOfCall(r)) \/ (~r.pending /\ ~Ends(r))
           /\ {"teardown", "incomplete", "divergences"} \cap FieldsOfCall(r) = {}
           /\ "total" \in FieldsOfCall(r)
           /\ \E f \in {"successful", "deadlocks", "errors"} :
                 f \in FieldsOfCall(r) /\ \A g \in {"successful", "deadlocks", "errors"} \ {f} : g \notin FieldsOfCall(r)
           /\ "deadlocks" \in FieldsOfCall(r) <=> MetricOfCall(r) = "Deadlock"
           /\ "deadlocks" \in FieldsOfCall(r) <=> ClassOfCall(r) = "Deadlock"
           /\ "successful" \in FieldsOfCall(r) <=> ClassOfCall(r) = "ProtocolError"
           /\ ClassOfCall(r) = "ProtocolError" => MetricOfCall(r) = "ExpectedRejection"
<1>1. ClassOfCall(r) \in FuzzClass
  BY MetricsOfFuzz DEF ClassOfCall, FuzzClass
<1>2. /\ MetricOfCall(r) \in CallOutcome /\ (MetricOfCall(r) = "Deadlock" <=> ClassOfCall(r) = "Deadlock")
      /\ ClassOfCall(r) = "ProtocolError" => MetricOfCall(r) = "ExpectedRejection"
  <2>1. ProbeMetric["ProtocolError"] = "ExpectedRejection"
    BY DEF ProbeMetric, FuzzClass
  <2>2. QED
    BY <1>1, <2>1, MetricsOfFuzz DEF MetricOfCall, CallOutcome
<1>3. FuzzStops(ClassOfCall(r)) \/ (~r.pending /\ ~Ends(r))
  <2>1. r.pending => ClassOfCall(r) = "Deadlock"
    BY WhatACallEnds DEF ClassOfCall
  <2>2. Ends(r) => ClassOfCall(r) = "Disconnected"
    BY MetricsOfFuzz DEF ClassOfCall, Ends
  <2>3. QED
    BY <2>1, <2>2 DEF FuzzStops
<1>4. QED
  BY <1>1, <1>2, <1>3 DEF FieldsOfCall

\* What a raw frame leaves.
LEMMA FrameOfFuzz ==
    ASSUME RawProbe
    PROVE  \E class \in FuzzClass, metric \in CallOutcome, f \in {"successful", "deadlocks", "errors"} :
              /\ findings' = Found(class) /\ recorded' = Counted(metric) /\ outcome' = Plus(outcome, {"total", f})
              /\ f = "deadlocks" <=> metric = "Deadlock"
              /\ f = "deadlocks" <=> class = "Deadlock"
              /\ f = "successful" <=> metric \in {"Success", "ExpectedRejection"}
              /\ f = "successful" <=> class = "ProtocolError"
<1>1. PICK found \in (IF plan.stream THEN {ClassifyProbeErr(e) : e \in CallErrors}
                                         \cup {[class |-> "ProtocolError", metric |-> "Success"],
                                               [class |-> "Deadlock", metric |-> "Deadlock"]} ELSE {})
                     \cup {[class |-> "Disconnected", metric |-> "Disconnected"]} :
          /\ findings' = Found(found.class)
          /\ recorded' = Counted(found.metric)
          /\ outcome' = Plus(outcome, {"total", CASE found.class = "Deadlock" -> "deadlocks"
                                                  [] found.metric \in {"Success", "ExpectedRejection"} -> "successful"
                                                  [] OTHER -> "errors"})
  BY DEF RawProbe
<1>2. /\ found.class \in FuzzClass /\ found.metric \in CallOutcome
      /\ found.class = "Deadlock" <=> found.metric = "Deadlock"
      /\ found.class = "ProtocolError" <=> found.metric \in {"Success", "ExpectedRejection"}
  <2>1. CASE \E e : found = ClassifyProbeErr(e)
    BY <2>1, MetricsOfFuzz DEF CallOutcome
  <2>2. CASE found = [class |-> "ProtocolError", metric |-> "Success"]
             \/ found = [class |-> "Deadlock", metric |-> "Deadlock"]
             \/ found = [class |-> "Disconnected", metric |-> "Disconnected"]
    BY <2>2 DEF FuzzClass, CallOutcome
  <2>3. QED
    BY <1>1, <2>1, <2>2
<1> DEFINE f == CASE found.class = "Deadlock" -> "deadlocks"
                  [] found.metric \in {"Success", "ExpectedRejection"} -> "successful"
                  [] OTHER -> "errors"
<1>3. /\ f \in {"successful", "deadlocks", "errors"}
      /\ f = "deadlocks" <=> found.class = "Deadlock"
      /\ f = "successful" <=> found.metric \in {"Success", "ExpectedRejection"}
  BY <1>2
<1> HIDE DEF f
<1>4. outcome' = Plus(outcome, {"total", f})
  BY <1>1 DEF f
<1>5. QED
  BY <1>1, <1>2, <1>3, <1>4

LEMMA SessionsOfFuzz ==
    ASSUME SessionsInv, kind = "fuzzer", FuzzStep, UNCHANGED <<probeVars, loadVars>>
    PROVE  SessionsInv'
<1>0. /\ outcome \in [Fields -> Nat] /\ recorded \in [CallOutcome -> Nat] /\ session \in [Sessions -> SessionStates]
      /\ tries \in Nat /\ current \in Sessions /\ findings \in [FuzzClass -> Nat] /\ plan.count \in Nat
      /\ 1..plan.count \subseteq Sessions /\ {"teardown", "errors"} \subseteq Fields
      /\ left = {} /\ tries <= plan.count /\ current <= tries
      /\ \A s \in Sessions \ {current} : Resting(s)
      /\ at \in {"start", "fuzz"} => session[current] = "open"
      /\ at = "respawn" => session[current] = "stuck" /\ current < tries
  BY PlanIsTyped DEF SessionsInv, Fielded, FuzzInv, Fields
<1>9. current \in Nat /\ tries + 1 \in Nat /\ current <= tries + 1 /\ current < tries + 1
  BY <1>0, SessionsAssumption
<1>1. UNCHANGED <<kind, plan, left, cancelled>> /\ at' # "start"
  BY DEF FuzzStep, FuzzBegins, FuzzEnds, SkipRaw, ProbeCall, RawProbe, Respawn, Try, Over, scenarioVars
<1>2. ProbeTyped' /\ LoadTyped' /\ PoolProbeInv' /\ RoundInv' /\ LoadInv'
  BY <1>1, FuzzElsewhere
<1>3. \A c \in FuzzClass : Found(c) \in [FuzzClass -> Nat]
  BY <1>0 DEF Found
<1>4. CASE FuzzBegins \/ FuzzEnds \/ SkipRaw
  <2>1. /\ session' = session /\ outcome' = outcome /\ recorded' = recorded /\ current' = current
        /\ at \in {"start", "fuzz"} /\ at' \in {"fuzz", "over"}
        /\ tries' = tries \/ (tries' = tries + 1 /\ tries < plan.count)
        /\ findings' \in [FuzzClass -> Nat]
    <3>1. CASE FuzzBegins \/ FuzzEnds
      BY <1>0, <3>1 DEF FuzzBegins, FuzzEnds, fuzzVars, Over
    <3>2. CASE SkipRaw
      <4>1. "Other" \in FuzzClass
        BY DEF FuzzClass
      <4>2. QED
        BY <1>3, <3>2, <4>1 DEF SkipRaw, scenarioVars, Try
    <3>3. QED
      BY <1>4, <3>1, <3>2
  <2>2. Fielded' /\ Sound'
    BY <1>1, <2>1 DEF SessionsInv, Fielded, Sound
  <2>3. FuzzInv'
    <3>1. \A s \in Sessions \ {current} : Resting(s)'
      BY <1>0, <2>1 DEF Resting
    <3>2. tries' <= plan.count /\ current' <= tries' /\ tries' \in Nat
      BY <1>0, <1>9, <2>1
    <3>3. QED
      BY <1>0, <1>1, <2>1, <3>1, <3>2 DEF FuzzInv
  <2>4. QED
    BY <1>2, <2>2, <2>3 DEF SessionsInv
<1>5. CASE ProbeCall
  <2>1. PICK r \in HangOutcomes :
          /\ findings' = Found(ClassOfCall(r))
          /\ session' = [session EXCEPT ![current] = AfterCall(current, r)]
          /\ recorded' = Counted(MetricOfCall(r)) /\ outcome' = Plus(outcome, FieldsOfCall(r))
          /\ at' = IF FuzzStops(ClassOfCall(r)) THEN "over" ELSE "fuzz"
    BY <1>5, CallOfFuzz
  <2>2. /\ at = "fuzz" /\ tries < plan.count /\ tries' = tries + 1 /\ current' = current
        /\ session[current] = "open"
    BY <1>0, <1>5 DEF ProbeCall, Try
  <2>3. /\ AfterCall(current, r) \in Usable
        /\ at' = "fuzz" => AfterCall(current, r) = "open"
    BY <2>1, <2>2, FieldsOfFuzz DEF AfterCall, Usable
  <2>4. /\ outcome' \in [Fields -> Nat] /\ outcome'["teardown"] = outcome["teardown"]
        /\ recorded' \in [CallOutcome -> Nat] /\ findings' \in [FuzzClass -> Nat]
    BY <1>0, <1>3, <2>1, Added, CountedMore, FieldsOfFuzz
  <2>5. Fielded' /\ Sound'
    BY <1>0, <1>1, <2>1, <2>3, <2>4 DEF SessionsInv, Fielded, Sound, Usable, SessionStates
  <2>6. FuzzInv'
    <3>1. \A s \in Sessions \ {current} : Resting(s)'
      BY <1>0, <2>1 DEF Resting
    <3>2. at' = "fuzz" => session'[current] = "open"
      BY <1>0, <2>1, <2>3
    <3>3. at' \in {"fuzz", "over"} /\ tries + 1 <= plan.count
      BY <1>0, <2>1, <2>2
    <3>4. QED
      BY <1>0, <1>1, <1>9, <2>2, <2>4, <3>1, <3>2, <3>3 DEF FuzzInv
  <2>7. QED
    BY <1>2, <2>5, <2>6 DEF SessionsInv
<1>6. CASE RawProbe
  <2>1. PICK class \in FuzzClass, metric \in CallOutcome, f \in {"successful", "deadlocks", "errors"} :
          findings' = Found(class) /\ recorded' = Counted(metric) /\ outcome' = Plus(outcome, {"total", f})
    BY <1>6, FrameOfFuzz
  <2>2. /\ at = "fuzz" /\ tries < plan.count /\ tries' = tries + 1 /\ current' = current /\ at' = "respawn"
        /\ session' = [session EXCEPT ![current] = "stuck"]
    BY <1>0, <1>6 DEF RawProbe, Try
  <2>3. /\ outcome' \in [Fields -> Nat] /\ outcome'["teardown"] = outcome["teardown"]
        /\ recorded' \in [CallOutcome -> Nat] /\ findings' \in [FuzzClass -> Nat]
    <3>1. "teardown" \notin {"total", f}
      OBVIOUS
    <3>2. outcome' \in [Fields -> Nat] /\ outcome'["teardown"] = outcome["teardown"]
      BY <1>0, <2>1, <3>1, Added
    <3>3. QED
      BY <1>0, <1>3, <2>1, <3>2, CountedMore
  <2>4. Fielded' /\ Sound'
    BY <1>0, <1>1, <2>2, <2>3 DEF SessionsInv, Fielded, Sound, SessionStates
  <2>5. FuzzInv'
    <3>1. \A s \in Sessions \ {current} : Resting(s)'
      BY <1>0, <2>2 DEF Resting
    <3>2. session'[current] = "stuck" /\ tries + 1 <= plan.count
      BY <1>0, <2>2
    <3>3. QED
      BY <1>0, <1>1, <1>9, <2>2, <2>3, <3>1, <3>2 DEF FuzzInv
  <2>6. QED
    BY <1>2, <2>4, <2>5 DEF SessionsInv
<1>7. CASE Respawn
  <2>0. at = "respawn" /\ tries' = tries /\ recorded' = recorded /\ findings' = findings
    BY <1>7 DEF Respawn
  <2>1. CASE at' = "over" /\ outcome' = Plus(outcome, {"errors"}) /\ UNCHANGED <<session, current>>
    <3>1. outcome' \in [Fields -> Nat] /\ outcome'["teardown"] = outcome["teardown"]
      BY <1>0, <2>1, Added
    <3>2. Fielded' /\ Sound'
      BY <1>1, <2>0, <2>1, <3>1 DEF SessionsInv, Fielded, Sound
    <3>3. FuzzInv'
      BY <1>0, <1>1, <2>0, <2>1 DEF FuzzInv, Resting
    <3>4. QED
      BY <1>2, <3>2, <3>3 DEF SessionsInv
  <2>2. ASSUME at' = "fuzz", current' = tries, NEW end \in {"closed", "unsure"},
               session' = [session EXCEPT ![tries] = Spawned(tries), ![current] = AfterShutdown(@, end)],
               outcome' = Plus(outcome, Failed(end))
        PROVE  SessionsInv'
    <3>1. tries \in Sessions /\ tries # current /\ current \in Nat
      BY <1>0, <2>0, SessionsAssumption
    <3>2. Spawned(tries) = "open" /\ AfterShutdown(session[current], end) = end
      BY <1>0, <2>0, <3>1 DEF Spawned, AfterShutdown, Resting
    <3>3. /\ session' \in [Sessions -> SessionStates] /\ session'[tries] = "open" /\ session'[current] = end
          /\ \A s \in Sessions \ {tries, current} : session'[s] = session[s]
      BY <1>0, <2>2, <3>1, <3>2 DEF SessionStates
    <3>4. /\ outcome' \in [Fields -> Nat] /\ outcome'["teardown"] >= outcome["teardown"]
          /\ end = "unsure" => outcome'["teardown"] > 0
      BY <1>0, <2>2, Added DEF Failed
    <3>5. Fielded'
      BY <1>1, <2>0, <2>2, <3>3, <3>4 DEF SessionsInv, Fielded
    <3>6. Sound'
      BY <1>0, <3>3, <3>4 DEF SessionsInv, Sound
    <3>7. \A s \in Sessions \ {tries} : Resting(s)'
      BY <1>0, <3>3 DEF Resting
    <3>8. FuzzInv'
      BY <1>0, <1>1, <2>0, <2>2, <3>1, <3>3, <3>7 DEF FuzzInv
    <3>9. QED
      BY <1>2, <3>5, <3>6, <3>8 DEF SessionsInv
  <2>3. QED
    BY <1>7, <2>1, <2>2 DEF Respawn
<1>8. QED
  BY <1>4, <1>5, <1>6, <1>7 DEF FuzzStep

-----------------------------------------------------------------------------
LEMMA LoadElsewhere ==
    ASSUME SessionsInv, kind \in LoadKinds, UNCHANGED <<kind, plan, probeVars, fuzzVars>>, at' # "start"
    PROVE  ProbeTyped' /\ PoolProbeInv' /\ RoundInv' /\ FuzzInv'
BY KindsAreApart DEF SessionsInv, ProbeTyped, PoolProbeInv, RoundInv, FuzzInv, probeVars, fuzzVars

\* The windows of a valid plan, and the first of them.
LEMMA FirstWindow ==
    ASSUME Fielded, kind \in LoadKinds, ~InvalidLoad
    PROVE  /\ Windows \subseteq Nat \ {0} /\ Min(Windows) \in Windows
           /\ \A l \in Windows : Min(Windows) <= l
           /\ kind = "ramp" => Min(Windows) = plan.count /\ plan.count > 0 /\ plan.step > 0
           /\ kind # "ramp" => Min(Windows) = 1
<1>1. plan.count \in Nat /\ plan.to \in Nat /\ plan.step \in Nat
  BY PlanIsTyped
<1>2. \A S, m : m \in S /\ S \subseteq Nat /\ (\A l \in S : m <= l) => Min(S) = m
  <2> SUFFICES ASSUME NEW S, NEW m \in S, S \subseteq Nat, \A l \in S : m <= l PROVE Min(S) = m
    OBVIOUS
  <2>1. Min(S) \in S /\ \A l \in S : Min(S) <= l
    BY DEF Min
  <2>2. Min(S) <= m /\ m <= Min(S) /\ Min(S) \in Nat /\ m \in Nat
    BY <2>1
  <2>3. QED
    BY <2>2
<1>3. CASE kind = "ramp"
  <2>1. plan.count > 0 /\ plan.step > 0 /\ plan.count <= plan.to
    BY <1>1, <1>3 DEF InvalidLoad
  <2>2. (plan.count - plan.count) % plan.step = 0
    BY <1>1, <2>1
  <2>3. Windows = {l \in plan.count..plan.to : (l - plan.count) % plan.step = 0}
    BY <1>3 DEF Windows
  <2>4. plan.count \in Windows /\ Windows \subseteq Nat \ {0} /\ \A l \in Windows : plan.count <= l
    BY <1>1, <2>1, <2>2, <2>3
  <2>5. QED
    BY <1>2, <1>3, <2>1, <2>4
<1>4. CASE kind # "ramp"
  <2>1. 1 \in Windows /\ Windows \subseteq 1..3
    BY <1>4 DEF Windows
  <2>2. Windows \subseteq Nat \ {0} /\ \A l \in Windows : 1 <= l
    BY <2>1
  <2>3. QED
    BY <1>2, <1>4, <2>1, <2>2
<1>5. QED
  BY <1>3, <1>4

LEMMA SessionsOfWindows ==
    ASSUME SessionsInv, kind \in LoadKinds, UNCHANGED <<probeVars, fuzzVars>>,
           LoadBegins \/ WindowsOver \/ SkipPhase \/ WindowJoined \/ LevelJudged \/ WindowCloses
    PROVE  SessionsInv'
<1>0. LoadInv /\ LoadTyped /\ Fielded /\ plan.step \in Nat
  BY PlanIsTyped DEF SessionsInv
<1>1. UNCHANGED <<kind, plan, left, session, recorded, cancelled, made, own, calling, mid, quit, seen>> /\ at' # "start"
  BY DEF LoadBegins, WindowsOver, SkipPhase, WindowJoined, LevelJudged, WindowCloses, Finish, scenarioVars
<1>2. ProbeTyped' /\ PoolProbeInv' /\ RoundInv' /\ FuzzInv'
  BY <1>1, LoadElsewhere
<1>3. outcome' \in [Fields -> Nat] /\ outcome'["teardown"] = outcome["teardown"]
  <2>1. outcome \in [Fields -> Nat] /\ {"teardown", "errors"} \subseteq Fields
    BY <1>0 DEF Fielded, Fields
  <2>2. outcome' = outcome \/ outcome' = Plus(outcome, {"errors"})
    BY DEF LoadBegins, WindowsOver, SkipPhase, WindowJoined, LevelJudged, WindowCloses, scenarioVars
  <2>3. QED
    BY <2>1, <2>2, Added
<1>4. Fielded' /\ Sound'
  BY <1>0, <1>1, <1>3 DEF SessionsInv, Fielded, Sound
<1>5. window' \in Nat /\ claim' \in {"none", "completed", "broke"} /\ closed' \in BOOLEAN
  <2>1. window \in Nat /\ claim \in {"none", "completed", "broke"} /\ closed \in BOOLEAN /\ Following \in Nat
    BY <1>0 DEF LoadTyped, Following
  <2>2. CASE LoadBegins
    BY <1>0, <2>1, <2>2, FirstWindow DEF LoadBegins
  <2>3. CASE WindowsOver \/ SkipPhase \/ WindowCloses
    BY <2>1, <2>3 DEF WindowsOver, SkipPhase, WindowCloses, Finish
  <2>4. CASE WindowJoined \/ LevelJudged
    BY <2>1, <2>4 DEF WindowJoined, LevelJudged, Finish
  <2>5. QED
    BY <2>2, <2>3, <2>4
<1>6. LoadTyped'
  BY <1>0, <1>1, <1>5 DEF LoadTyped
<1>7. /\ at' \in {"window", "working", "rest", "over"} /\ (at' # "working" => left = {})
      /\ ~Pooled /\ at' = "window" => 0 \notin quit \/ at \in {"start", "window"}
  <2>1. CASE LoadBegins \/ WindowsOver \/ SkipPhase
    BY <1>0, <2>1 DEF LoadBegins, WindowsOver, SkipPhase, Finish, scenarioVars, LoadInv
  <2>2. CASE WindowJoined
    BY <1>0, <2>2 DEF WindowJoined, Finish, LoadInv, Joined, BrokenOff, NoUsableSessions
  <2>3. CASE LevelJudged
    BY <1>0, <2>3 DEF LevelJudged, Finish, LoadInv, BrokenOff
  <2>4. CASE WindowCloses
    BY <1>0, <2>4 DEF WindowCloses, scenarioVars, LoadInv
  <2>5. QED
    BY <2>1, <2>2, <2>3, <2>4
<1>8. LoadInv'
  <2>1. Pooled' = Pooled
    BY <1>1 DEF Pooled
  <2>2. QED
    BY <1>0, <1>1, <1>7, <2>1 DEF LoadInv, Resting
<1>9. QED
  BY <1>2, <1>4, <1>6, <1>8 DEF SessionsInv

LEMMA SessionsOfWindowOpens ==
    ASSUME SessionsInv, kind \in LoadKinds, UNCHANGED <<probeVars, fuzzVars>>, WindowOpens
    PROVE  SessionsInv'
<1>0. LoadInv /\ LoadTyped /\ Fielded /\ Sound /\ at = "window" /\ left = {}
  BY DEF SessionsInv, WindowOpens, LoadInv
<1>1. /\ UNCHANGED <<kind, plan, cancelled, window, levels, claim>> /\ closed' \in BOOLEAN
      /\ made' = [w \in Sessions |-> 0] /\ own' = [w \in Sessions |-> NoOutcome]
      /\ calling' = {} /\ mid' = {} /\ quit' = {} /\ before' = outcome /\ seen' = NothingSeen
  BY DEF WindowOpens
<1>2. LoadTyped'
  BY <1>0, <1>1, FieldsAre DEF LoadTyped, NothingSeen
<1>3. Pooled' = Pooled /\ \A s \in Sessions \ {0} : Resting(s)
  BY <1>0, <1>1 DEF Pooled, LoadInv
<1>4. CASE Pooled /\ PoolOpens(Size, "working", "joined")
  <2>1. Size \in Nat
    BY <1>0, PlanIsTyped DEF Size, LoadTyped
  <2>2. /\ outcome' \in [Fields -> Nat] /\ recorded' \in [CallOutcome -> Nat]
        /\ session' \in [Sessions -> SessionStates] /\ Sound' /\ session'[0] = session[0]
        /\ \/ at' = "joined" /\ left' = left /\ \A s \in Sessions \ {0} : Resting(s)'
           \/ /\ at' = "working" /\ left' # {} /\ left' \subseteq PoolWorkers(Size)
              /\ \A s \in left' : session'[s] = "open"
              /\ \A s \in Sessions \ ({0} \cup left') : Resting(s)'
    BY <1>0, <1>3, <1>4, <2>1, PoolOpened
  <2>3. 0 \notin PoolWorkers(Size) /\ PoolWorkers(Size) \subseteq Sessions
    BY <2>1 DEF PoolWorkers
  <2>4. Fielded'
    BY <1>0, <1>1, <2>2, <2>3 DEF Fielded
  <2>5. LoadInv'
    BY <1>0, <1>1, <1>3, <1>4, <2>2, <2>3 DEF LoadInv, Usable
  <2>6. ProbeTyped' /\ PoolProbeInv' /\ RoundInv' /\ FuzzInv'
    BY <1>1, <2>2, LoadElsewhere
  <2>7. QED
    BY <1>2, <2>2, <2>4, <2>5, <2>6 DEF SessionsInv
<1>5. CASE /\ ~Pooled /\ UNCHANGED <<session, recorded>>
           /\ \/ at' = "working" /\ left' = {0} /\ outcome' = outcome
              \/ at' = "over" /\ outcome' = Plus(outcome, {"incomplete"}) /\ left' = left
  <2>1. outcome' \in [Fields -> Nat] /\ outcome'["teardown"] = outcome["teardown"]
    BY <1>0, <1>5, Added DEF Fielded, Fields
  <2>2. Fielded' /\ Sound'
    BY <1>0, <1>1, <1>5, <2>1, SessionsAssumption DEF Fielded, Sound
  <2>3. LoadInv'
    BY <1>0, <1>1, <1>3, <1>5, SessionsAssumption DEF LoadInv, Usable, Resting
  <2>4. ProbeTyped' /\ PoolProbeInv' /\ RoundInv' /\ FuzzInv'
    BY <1>1, <1>5, LoadElsewhere
  <2>5. QED
    BY <1>2, <2>2, <2>3, <2>4 DEF SessionsInv
<1>6. QED
  BY <1>4, <1>5 DEF WindowOpens

\* A caller's session after a call of a load, which is awaited to its end.
LEMMA PlainCalls ==
    ASSUME NEW r \in PlainOutcomes
    PROVE  r \in HangOutcomes /\ r.verdict \in {"Ok", "Err"} /\ ~r.pending
BY WhatACallEnds DEF PlainOutcomes

LEMMA SessionsOfCalls ==
    ASSUME SessionsInv, kind \in LoadKinds, UNCHANGED <<probeVars, fuzzVars>>, NEW w \in Sessions,
           LoadCall(w) \/ CallDropped(w)
    PROVE  SessionsInv'
<1>0. /\ LoadInv /\ LoadTyped /\ Fielded /\ Sound /\ at = "working" /\ w \in left /\ w \notin quit
      /\ session[w] = "open"
  BY DEF SessionsInv, LoadCall, CallDropped, CallCounted, MayCall, LoadInv
<1>1. PICK fields \in SUBSET Fields, class \in CallOutcome, to \in Usable :
        /\ CallCounted(w, fields, class)
        /\ session' = [session EXCEPT ![w] = to]
        /\ \/ to = "open" /\ quit' = quit
           \/ quit' = quit \cup {w}
        /\ mid' \subseteq mid \cup {w}
  <2>1. CASE LoadCall(w)
    <3>1. PICK r \in PlainOutcomes, further \in BOOLEAN :
          /\ CallCounted(w, Tally(r), RecordedAs(r))
          /\ session' = [session EXCEPT ![w] = AfterCall(w, r)]
          /\ quit' = IF LoopBreaks(r) THEN quit \cup {w} ELSE quit
          /\ mid' = IF kind = "sustained" /\ further /\ ~LoopBreaks(r) /\ ~(plan.abort /\ RecordedAs(r) # "Success")
                    THEN mid \cup {w} ELSE mid \ {w}
      BY <2>1 DEF LoadCall
    <3>2. AfterCall(w, r) \in Usable /\ (AfterCall(w, r) = "open" \/ LoopBreaks(r)) /\ RecordedAs(r) \in CallOutcome
      BY <1>0, PlainCalls, ClassesOfCalls DEF AfterCall, Usable, LoopBreaks
    <3>3. mid' \subseteq mid \cup {w}
      BY <3>1
    <3>4. (AfterCall(w, r) = "open" /\ quit' = quit) \/ quit' = quit \cup {w}
      BY <3>1, <3>2
    <3>6. AfterCall(w, r) \in Usable /\ RecordedAs(r) \in CallOutcome /\ Tally(r) \in SUBSET Fields
      BY <3>2 DEF Tally, Fields
    <3> USE <3>6
    <3>7. WITNESS Tally(r) \in SUBSET Fields, RecordedAs(r) \in CallOutcome, AfterCall(w, r) \in Usable
    <3>8. QED
      BY <3>1, <3>3, <3>4
  <2>2. CASE CallDropped(w)
    <3>1. AfterCall(w, Unanswered) = "stuck" /\ "stuck" \in Usable /\ "Cancelled" \in CallOutcome
      BY <1>0 DEF AfterCall, Usable, Unanswered, CallOutcome
    <3>2. /\ CallCounted(w, {"total", "errors"}, "Cancelled")
          /\ session' = [session EXCEPT ![w] = "stuck"] /\ quit' = quit \cup {w} /\ mid' \subseteq mid \cup {w}
      BY <2>2, <3>1 DEF CallDropped
    <3>5. {"total", "errors"} \in SUBSET Fields /\ "Cancelled" \in CallOutcome /\ "stuck" \in Usable
      BY <3>1 DEF Fields
    <3> USE <3>5
    <3>3. WITNESS {"total", "errors"} \in SUBSET Fields, "Cancelled" \in CallOutcome, "stuck" \in Usable
    <3>4. QED
      BY <3>2
  <2>3. QED
    BY <2>1, <2>2
<1>2. /\ made' = [made EXCEPT ![w] = @ + 1] /\ own' = [own EXCEPT ![w] = Plus(@, fields)]
      /\ recorded' = Counted(class)
      /\ seen' = [total |-> seen.total + 1, good |-> seen.good + (IF class = "Success" THEN 1 ELSE 0)]
      /\ calling' = calling \ {w}
      /\ UNCHANGED <<kind, plan, at, left, outcome, cancelled, window, closed, before, levels, claim>>
  BY <1>1 DEF CallCounted
<1>3. ProbeTyped' /\ PoolProbeInv' /\ RoundInv' /\ FuzzInv'
  BY <1>0, <1>2, LoadElsewhere
<1>4. Fielded'
  BY <1>0, <1>1, <1>2, CountedMore DEF Fielded, Usable, SessionStates
<1>5. Sound'
  BY <1>0, <1>1, <1>2 DEF Sound, Usable, Fielded
<1>6. LoadTyped'
  <2>1. own' \in [Sessions -> [Fields -> Nat]]
    <3>1. Plus(own[w], fields) \in [Fields -> Nat]
      BY <1>0, Added DEF LoadTyped
    <3>2. QED
      BY <1>0, <1>2, <3>1 DEF LoadTyped
  <2>2. made' \in [Sessions -> Nat] /\ seen' \in [total : Nat, good : Nat]
    BY <1>0, <1>2 DEF LoadTyped
  <2>3. QED
    BY <1>0, <1>1, <1>2, <2>1, <2>2 DEF LoadTyped
<1>7. LoadInv'
  <2>1. Pooled' = Pooled
    BY <1>2 DEF Pooled
  <2>2. /\ session'[w] = to /\ \A s \in Sessions \ {w} : session'[s] = session[s]
        /\ \A s \in Sessions \ {w} : s \in quit' <=> s \in quit
        /\ w \notin quit' => to = "open"
    BY <1>0, <1>1 DEF Fielded
  <2>3. QED
    BY <1>0, <1>1, <1>2, <2>1, <2>2, SessionsAssumption DEF LoadInv, Resting
<1>8. QED
  BY <1>3, <1>4, <1>5, <1>6, <1>7 DEF SessionsInv

LEMMA SessionsOfCallers ==
    ASSUME SessionsInv, kind \in LoadKinds, UNCHANGED <<probeVars, fuzzVars>>, NEW w \in Sessions,
           CallerStops(w) \/ CallerDies(w)
    PROVE  SessionsInv'
<1>0. LoadInv /\ LoadTyped /\ Fielded /\ Sound /\ at = "working" /\ w \in left /\ session[w] \in Usable
  BY DEF SessionsInv, CallerStops, CallerDies, LoadInv
<1>1. /\ UNCHANGED <<kind, plan, at, cancelled, window, closed, made, own, mid, quit, before, seen, levels, claim>>
      /\ left' = left \ {w} /\ calling' \subseteq calling
  BY DEF CallerStops, CallerDies, WorkerDies, loadVars
<1>2. ProbeTyped' /\ PoolProbeInv' /\ RoundInv' /\ FuzzInv' /\ LoadTyped'
  BY <1>0, <1>1, LoadElsewhere DEF LoadTyped
<1>3. /\ outcome \in [Fields -> Nat] /\ own[w] \in [Fields -> Nat] /\ {"teardown", "incomplete"} \subseteq Fields
      /\ recorded \in [CallOutcome -> Nat] /\ session \in [Sessions -> SessionStates]
  BY <1>0 DEF Fielded, LoadTyped, Fields
<1>4. CASE Pooled
  <2>1. \E end \in {"closed", "unsure"} :
          /\ session' = [session EXCEPT ![w] = end]
          /\ outcome' \in [Fields -> Nat] /\ recorded' \in [CallOutcome -> Nat]
          /\ outcome'["teardown"] >= outcome["teardown"] /\ (end = "unsure" => outcome'["teardown"] > 0)
    <3>1. CASE CallerDies(w)
      BY <1>3, <3>1, Added, CountedMore DEF CallerDies, WorkerDies, CallOutcome
    <3>2. CASE CallerStops(w)
      <4>1. PICK end \in {"closed", "unsure"} :
               /\ session' = [session EXCEPT ![w] = AfterShutdown(@, end)]
               /\ outcome' = MergeWorker(outcome, Plus(own[w], Failed(end)))
        BY <1>4, <3>2 DEF CallerStops
      <4>2. session' = [session EXCEPT ![w] = end]
        BY <1>0, <4>1 DEF AfterShutdown, Usable
      <4> DEFINE mine == Plus(own[w], Failed(end))
      <4>3. mine \in [Fields -> Nat] /\ (end = "unsure" => mine["teardown"] > 0)
        BY <1>3, Added DEF Failed
      <4>4. outcome' = MergeWorker(outcome, mine)
        BY <4>1
      <4> HIDE DEF mine
      <4>5. outcome' \in [Fields -> Nat] /\ outcome'["teardown"] = outcome["teardown"] + mine["teardown"]
        BY <1>3, <4>3, <4>4, Merged
      <4>6. mine["teardown"] \in Nat /\ outcome["teardown"] \in Nat
        BY <1>3, <4>3
      <4>7. outcome'["teardown"] >= outcome["teardown"] /\ (end = "unsure" => outcome'["teardown"] > 0)
        BY <4>3, <4>5, <4>6
      <4>8. recorded' = recorded
        BY <3>2 DEF CallerStops
      <4>9. QED
        BY <1>3, <4>2, <4>5, <4>7, <4>8
    <3>3. QED
      BY <3>1, <3>2
  <2>2. PICK end \in {"closed", "unsure"} :
          /\ session' = [session EXCEPT ![w] = end]
          /\ outcome' \in [Fields -> Nat] /\ recorded' \in [CallOutcome -> Nat]
          /\ outcome'["teardown"] >= outcome["teardown"] /\ (end = "unsure" => outcome'["teardown"] > 0)
    BY <2>1
  <2>3. Fielded'
    BY <1>0, <1>1, <2>2 DEF Fielded, SessionStates
  <2>4. Sound'
    BY <1>0, <1>3, <2>2 DEF Sound
  <2>5. LoadInv'
    <3>1. Pooled' = Pooled /\ w # 0 /\ quit' = quit
      BY <1>0, <1>1, <1>4 DEF Pooled, LoadInv
    <3>2. QED
      BY <1>0, <1>1, <1>4, <2>2, <3>1 DEF LoadInv, Resting, Fielded
  <2>6. QED
    BY <1>2, <2>3, <2>4, <2>5 DEF SessionsInv
<1>5. CASE ~Pooled
  <2>1. CallerStops(w) /\ outcome' = Sum2(outcome, own[w]) /\ session' = session /\ recorded' = recorded
    BY <1>5 DEF CallerStops, CallerDies
  <2>2. outcome' \in [Fields -> Nat] /\ outcome'["teardown"] >= outcome["teardown"]
    <3>1. outcome' \in [Fields -> Nat] /\ outcome'["teardown"] = outcome["teardown"] + own[w]["teardown"]
      BY <1>3, <2>1, AddedUp
    <3>2. own[w]["teardown"] \in Nat /\ outcome["teardown"] \in Nat
      BY <1>3
    <3>3. QED
      BY <3>1, <3>2
  <2>3. Fielded'
    BY <1>0, <1>1, <2>1, <2>2 DEF Fielded
  <2>4. Sound'
    BY <1>0, <1>3, <2>1, <2>2 DEF Sound
  <2>5. LoadInv'
    BY <1>0, <1>1, <1>5, <2>1 DEF LoadInv, Resting, Pooled
  <2>6. QED
    BY <1>2, <2>3, <2>4, <2>5 DEF SessionsInv
<1>6. QED
  BY <1>4, <1>5

\* A call that begins changes nothing else.
LEMMA SessionsOfBegins ==
    ASSUME SessionsInv, UNCHANGED <<probeVars, fuzzVars>>, NEW w \in Sessions, CallBegins(w)
    PROVE  SessionsInv'
<1> USE DEF CallBegins, scenarioVars, probeVars, fuzzVars
<1>1. Fielded' /\ Sound' /\ ProbeTyped' /\ LoadTyped'
  BY DEF SessionsInv, Fielded, Sound, ProbeTyped, LoadTyped
<1>2. PoolProbeInv' /\ RoundInv' /\ FuzzInv'
  BY DEF SessionsInv, PoolProbeInv, RoundInv, FuzzInv, Resting, InRound, Fresh
<1>3. LoadInv'
  BY DEF SessionsInv, LoadInv, Resting, Pooled
<1>4. QED
  BY <1>1, <1>2, <1>3 DEF SessionsInv

LEMMA SessionsOfLoads ==
    SessionsInv /\ kind \in LoadKinds /\ (LoadStep \/ LoadEnvironment) /\ UNCHANGED <<probeVars, fuzzVars>>
        => SessionsInv'
BY SessionsOfWindows, SessionsOfWindowOpens, SessionsOfBegins, SessionsOfCalls, SessionsOfCallers DEF LoadStep, LoadEnvironment

LEMMA SessionsKeep == SessionsInv /\ [Next]_scenariosVars => SessionsInv'
BY SessionsOfProbes, SessionsOfLoads, SessionsOfFuzz, SessionsOfCancel, SessionsStutter DEF Next, Drive, Environment

\* From first to last a session is either in use, or shut down, or known not to be,
\* whichever scenario drives it (every scenario's drive).
THEOREM SessionsStayKept == Spec => []SessionsAreKept
<1>1. SessionsInv => SessionsAreKept
  <2> SUFFICES ASSUME SessionsInv PROVE SessionsAreKept
    OBVIOUS
  <2>1. TypeOK
    <3>1. kind \in ProbeKinds \cup LoadKinds \cup {"fuzzer"}
      BY PlanIsTyped DEF SessionsInv
    <3>2. DOMAIN outcome = DOMAIN NoOutcome /\ \A f \in DOMAIN outcome : outcome[f] \in Nat
      BY FieldsAre DEF SessionsInv, Fielded
    <3>3. ProbeTypeOK
      BY <3>2 DEF SessionsInv, Fielded, ProbeTyped, ProbeTypeOK
    <3>4. LoadTypeOK
      BY DEF SessionsInv, LoadTyped, LoadTypeOK
    <3>5. FuzzTypeOK
      BY DEF SessionsInv, FuzzInv, FuzzTypeOK
    <3>6. QED
      BY <3>1, <3>3, <3>4, <3>5 DEF TypeOK
  <2>2. SessionsUsedProperly
    BY DEF SessionsInv, Sound, SessionsUsedProperly
  <2>3. SpawnedAreShutDown
    <3> SUFFICES ASSUME at = "over" PROVE \A s \in Sessions \ {Held} : Resting(s)
      BY DEF SpawnedAreShutDown, SessionsInv, Sound, Resting
    <3>1. CASE kind \in ProbeKinds
      BY <3>1, KindsAreApart DEF SessionsInv, PoolProbeInv, RoundInv, InRound, Held
    <3>2. CASE kind \in LoadKinds
      BY <3>2, KindsAreApart DEF SessionsInv, LoadInv, Held
    <3>3. CASE kind = "fuzzer"
      BY <3>3 DEF SessionsInv, FuzzInv, Held
    <3>4. QED
      BY <3>1, <3>2, <3>3, PlanIsTyped DEF SessionsInv
  <2>4. QED
    BY <2>1, <2>2, <2>3 DEF SessionsAreKept
<1>2. QED
  BY SessionsBegin, SessionsKeep, <1>1, PTL DEF Spec

-----------------------------------------------------------------------------
(***************************************************************************)
(* The two books.                                                          *)
(***************************************************************************)
Balanced(o) == /\ o["total"] <= o["successful"] + o["hangs"] + o["deadlocks"] + o["errors"]
               /\ o["successful"] <= o["total"] /\ o["deadlocks"] <= o["total"]

\* What a call may add to an outcome.
Tallied(s) == /\ "total" \in s => \E f \in {"successful", "hangs", "deadlocks", "errors"} : f \in s
              /\ "successful" \in s \/ "deadlocks" \in s => "total" \in s

Answered == recorded["Success"] + recorded["ExpectedRejection"]

OwnSum(f) == SumFunctionOnSet([w \in Sessions |-> own[w][f]], left)

\* While a window is open its callers hold back what they have counted.
LoadCounts == kind \in LoadKinds =>
    /\ \A w \in Sessions : Balanced(own[w]) /\ own[w]["deadlocks"] = 0 /\ own[w]["incomplete"] = 0
                           /\ own[w]["total"] = made[w] /\ made[w] <= seen.total
    /\ outcome["deadlocks"] = 0 /\ recorded["Deadlock"] = 0
    /\ outcome["successful"] + OwnSum("successful") <= Answered
    /\ outcome["total"] + OwnSum("total") <= SumFunction(recorded)

OtherCounts == kind \notin LoadKinds /\ ~Warm =>
    /\ outcome["successful"] <= Answered /\ outcome["total"] <= SumFunction(recorded)
    /\ outcome["deadlocks"] = recorded["Deadlock"]

CountsInv == Balanced(outcome) /\ LoadCounts /\ OtherCounts

LEMMA FieldNames == {"total", "successful", "hangs", "deadlocks", "errors", "divergences", "incomplete", "teardown"} = Fields
BY DEF Fields

LEMMA BalancedNone == Balanced(NoOutcome)
<1>1. /\ NoOutcome["total"] = 0 /\ NoOutcome["successful"] = 0 /\ NoOutcome["hangs"] = 0
      /\ NoOutcome["deadlocks"] = 0 /\ NoOutcome["errors"] = 0
  BY FieldsAre, FieldNames
<1>2. QED
  BY <1>1 DEF Balanced

\* q is o with one more in each of the fields s, the two that no call counts aside.
OneMore(o, s, q) == \A f \in Fields \ {"incomplete", "teardown"} : q[f] = IF f \in s THEN o[f] + 1 ELSE o[f]

LEMMA BalancedAdds ==
    ASSUME NEW o \in [Fields -> Nat], NEW s, Balanced(o), Tallied(s), NEW q, OneMore(o, s, q)
    PROVE  Balanced(q)
<1> DEFINE n(f) == IF f \in s THEN o[f] + 1 ELSE o[f]
<1>1. /\ q["total"] = n("total") /\ q["successful"] = n("successful")
      /\ q["hangs"] = n("hangs") /\ q["deadlocks"] = n("deadlocks")
      /\ q["errors"] = n("errors")
  BY FieldNames DEF OneMore
<1>2. /\ o["total"] \in Nat /\ o["successful"] \in Nat /\ o["hangs"] \in Nat /\ o["deadlocks"] \in Nat
      /\ o["errors"] \in Nat
  BY FieldNames
<1>3. /\ n("total") <= n("successful") + n("hangs") + n("deadlocks") + n("errors")
      /\ n("successful") <= n("total") /\ n("deadlocks") <= n("total")
  BY <1>2 DEF Balanced, Tallied
<1> HIDE DEF n
<1>4. QED
  BY <1>1, <1>3 DEF Balanced

LEMMA BalancedSum ==
    ASSUME NEW o \in [Fields -> Nat], NEW p \in [Fields -> Nat], Balanced(o), Balanced(p)
    PROVE  Balanced(Sum2(o, p)) /\ Balanced(MergeWorker(o, p))
<1>1. /\ o["total"] \in Nat /\ o["successful"] \in Nat /\ o["hangs"] \in Nat /\ o["deadlocks"] \in Nat
      /\ o["errors"] \in Nat
      /\ p["total"] \in Nat /\ p["successful"] \in Nat /\ p["hangs"] \in Nat /\ p["deadlocks"] \in Nat
      /\ p["errors"] \in Nat
  BY FieldNames
<1>2. ASSUME NEW q, \A f \in Fields \ {"incomplete"} : q[f] = o[f] + p[f]
      PROVE  Balanced(q)
  <2>1. /\ q["total"] = o["total"] + p["total"] /\ q["successful"] = o["successful"] + p["successful"]
        /\ q["hangs"] = o["hangs"] + p["hangs"] /\ q["deadlocks"] = o["deadlocks"] + p["deadlocks"]
        /\ q["errors"] = o["errors"] + p["errors"]
    BY <1>2, FieldNames
  <2>2. QED
    BY <1>1, <2>1 DEF Balanced
<1>3. \A f \in Fields \ {"incomplete"} : Sum2(o, p)[f] = o[f] + p[f]
  BY AddedUp
<1>4. \A f \in Fields \ {"incomplete"} : MergeWorker(o, p)[f] = o[f] + p[f]
  BY Merged
<1>5. QED
  BY <1>2, <1>3, <1>4

\* The counters of the recorder add up.
LEMMA RecordedAdds ==
    ASSUME NEW f \in [CallOutcome -> Nat]
    PROVE  /\ SumFunction(f) \in Nat
           /\ \A c \in CallOutcome, n \in Nat : SumFunction([f EXCEPT ![c] = @ + n]) = SumFunction(f) + n
<1>1. IsFiniteSet(CallOutcome)
  <2> DEFINE A == {"Success", "ServerError", "ProtocolError", "Malformed"}
             B == {"Disconnected", "Timeout", "Hang", "Deadlock"}
             C == {"Cancelled", "Crash", "ExpectedRejection"}
  <2>1. \A a, b, c, d : IsFiniteSet({a, b, c, d}) /\ IsFiniteSet({a, b, c})
    <3> SUFFICES ASSUME NEW a, NEW b, NEW c, NEW d PROVE IsFiniteSet({a, b, c, d}) /\ IsFiniteSet({a, b, c})
      OBVIOUS
    <3>1. IsFiniteSet({a}) /\ IsFiniteSet({b}) /\ IsFiniteSet({c}) /\ IsFiniteSet({d})
      BY FS_Singleton
    <3>2. IsFiniteSet({a} \cup {b}) /\ IsFiniteSet({c} \cup {d})
      BY <3>1, FS_Union
    <3>3. IsFiniteSet(({a} \cup {b}) \cup ({c} \cup {d})) /\ IsFiniteSet(({a} \cup {b}) \cup {c})
      BY <3>1, <3>2, FS_Union
    <3>4. ({a} \cup {b}) \cup ({c} \cup {d}) = {a, b, c, d} /\ ({a} \cup {b}) \cup {c} = {a, b, c}
      OBVIOUS
    <3>5. QED
      BY <3>3, <3>4
  <2>2. IsFiniteSet(A) /\ IsFiniteSet(B) /\ IsFiniteSet(C)
    BY <2>1
  <2> HIDE DEF A, B, C
  <2>3. IsFiniteSet((A \cup B) \cup C)
    BY <2>2, FS_Union
  <2>4. (A \cup B) \cup C = CallOutcome
    BY DEF A, B, C, CallOutcome
  <2>5. QED
    BY <2>3, <2>4
<1>2. SumFunctionOnSet(f, CallOutcome) \in Nat /\ DOMAIN f = CallOutcome /\ \A x \in CallOutcome : f[x] \in Int
  BY <1>1, SumIsNat
<1>3. ASSUME NEW c \in CallOutcome, NEW n \in Nat
      PROVE  SumFunction([f EXCEPT ![c] = @ + n]) = SumFunction(f) + n
  <2> DEFINE g == [f EXCEPT ![c] = @ + n]
             D == CallOutcome \ {c}
  <2>1. DOMAIN g = CallOutcome /\ g[c] = f[c] + n /\ \A x \in CallOutcome : g[x] \in Int
    OBVIOUS
  <2>2. \A x \in D : g[x] = f[x]
    OBVIOUS
  <2>3. IsFiniteSet(D) /\ D \subseteq CallOutcome
    BY <1>1, FS_Subset
  <2> HIDE DEF g
  <2>4. SumFunctionOnSet(g, CallOutcome) = g[c] + SumFunctionOnSet(g, D)
    BY <1>1, <2>1, SumTakes
  <2>5. SumFunctionOnSet(f, CallOutcome) = f[c] + SumFunctionOnSet(f, D)
    BY <1>1, <1>2, SumTakes
  <2> HIDE DEF D
  <2>6. SumFunctionOnSet(g, D) = SumFunctionOnSet(f, D) /\ SumFunctionOnSet(f, D) \in Int
    <3>1. \A x \in D : g[x] = f[x] /\ g[x] \in Int /\ f[x] \in Int
      BY <1>2, <2>1, <2>2, <2>3
    <3>2. QED
      BY <2>3, <3>1, SumSame, SumIsInt
  <2>7. f[c] \in Nat /\ SumFunction(g) = SumFunctionOnSet(g, CallOutcome) /\ SumFunction(f) = SumFunctionOnSet(f, CallOutcome)
    BY <1>2, <2>1 DEF SumFunction
  <2>8. SumFunction(g) = SumFunction(f) + n
    BY <2>1, <2>4, <2>5, <2>6, <2>7
  <2>9. QED
    BY <2>8 DEF g
<1>4. QED
  BY <1>2, <1>3 DEF SumFunction

\* One call counted: in one of the recorder's counters, and in their sum.
LEMMA CountedOnce ==
    ASSUME recorded \in [CallOutcome -> Nat], NEW c \in CallOutcome, recorded' = Counted(c)
    PROVE  /\ recorded' \in [CallOutcome -> Nat] /\ SumFunction(recorded') = SumFunction(recorded) + 1
           /\ SumFunction(recorded) \in Nat /\ Answered \in Nat
           /\ Answered' = IF c \in {"Success", "ExpectedRejection"} THEN Answered + 1 ELSE Answered
           /\ recorded'["Deadlock"] = IF c = "Deadlock" THEN recorded["Deadlock"] + 1 ELSE recorded["Deadlock"]
<1>1. {"Success", "ExpectedRejection", "Deadlock"} \subseteq CallOutcome
  BY DEF CallOutcome
<1>2. recorded' = [recorded EXCEPT ![c] = @ + 1]
  BY DEF Counted
<1>3. /\ recorded["Success"] \in Nat /\ recorded["ExpectedRejection"] \in Nat /\ recorded["Deadlock"] \in Nat
      /\ recorded'["Success"] = IF c = "Success" THEN recorded["Success"] + 1 ELSE recorded["Success"]
      /\ recorded'["ExpectedRejection"] =
            IF c = "ExpectedRejection" THEN recorded["ExpectedRejection"] + 1 ELSE recorded["ExpectedRejection"]
      /\ recorded'["Deadlock"] = IF c = "Deadlock" THEN recorded["Deadlock"] + 1 ELSE recorded["Deadlock"]
  BY <1>1, CountedMore
<1>4. SumFunction(recorded') = SumFunction(recorded) + 1 /\ SumFunction(recorded) \in Nat
  <2>1. /\ SumFunction(recorded) \in Nat
        /\ \A d \in CallOutcome, n \in Nat : SumFunction([recorded EXCEPT ![d] = @ + n]) = SumFunction(recorded) + n
    BY RecordedAdds
  <2>2. SumFunction([recorded EXCEPT ![c] = @ + 1]) = SumFunction(recorded) + 1
    BY <2>1
  <2>3. QED
    BY <1>2, <2>1, <2>2
<1>5. Answered \in Nat /\ Answered' = IF c \in {"Success", "ExpectedRejection"} THEN Answered + 1 ELSE Answered
  BY <1>3 DEF Answered
<1>6. QED
  BY <1>3, <1>4, <1>5, CountedMore

\* One step of a probe or of the fuzzer in the two books: a call is recorded, what is
\* no call may be.
LEMMA BothBooks ==
    ASSUME SessionsInv, CountsInv, kind \notin LoadKinds, kind' = kind, plan' = plan,
           NEW s, Tallied(s), OneMore(outcome, s, outcome'), NEW c \in CallOutcome,
           "successful" \in s => c \in {"Success", "ExpectedRejection"},
           \/ recorded' = Counted(c) /\ (c = "Deadlock" <=> "deadlocks" \in s)
           \/ recorded' = recorded /\ "total" \notin s
           \/ Warm
    PROVE  CountsInv'
<1>0. outcome \in [Fields -> Nat] /\ recorded \in [CallOutcome -> Nat]
  BY DEF SessionsInv, Fielded
<1>1. Balanced(outcome')
  BY <1>0, BalancedAdds DEF CountsInv
<1>2. LoadCounts' /\ Warm' = Warm
  BY DEF LoadCounts, Warm
<1>3. /\ outcome["total"] \in Nat /\ outcome["successful"] \in Nat /\ outcome["deadlocks"] \in Nat
      /\ outcome'["total"] = IF "total" \in s THEN outcome["total"] + 1 ELSE outcome["total"]
      /\ outcome'["successful"] = IF "successful" \in s THEN outcome["successful"] + 1 ELSE outcome["successful"]
      /\ outcome'["deadlocks"] = IF "deadlocks" \in s THEN outcome["deadlocks"] + 1 ELSE outcome["deadlocks"]
  BY <1>0, FieldNames DEF OneMore
<1>4. CASE Warm
  BY <1>1, <1>2, <1>4 DEF CountsInv, OtherCounts, Balanced
<1>5. CASE ~Warm /\ recorded' = Counted(c) /\ (c = "Deadlock" <=> "deadlocks" \in s)
  <2>1. /\ SumFunction(recorded') = SumFunction(recorded) + 1
        /\ SumFunction(recorded) \in Nat /\ Answered \in Nat
        /\ Answered' = IF c \in {"Success", "ExpectedRejection"} THEN Answered + 1 ELSE Answered
        /\ recorded'["Deadlock"] = IF c = "Deadlock" THEN recorded["Deadlock"] + 1 ELSE recorded["Deadlock"]
    BY <1>0, <1>5, CountedOnce
  <2>2. /\ outcome["successful"] <= Answered /\ outcome["total"] <= SumFunction(recorded)
        /\ outcome["deadlocks"] = recorded["Deadlock"]
    BY <1>5 DEF CountsInv, OtherCounts
  <2>3. /\ outcome'["successful"] <= Answered' /\ outcome'["total"] <= SumFunction(recorded')
        /\ outcome'["deadlocks"] = recorded'["Deadlock"]
    BY <1>3, <1>5, <2>1, <2>2
  <2>4. QED
    BY <1>1, <1>2, <2>3 DEF CountsInv, OtherCounts, Balanced
<1>6. CASE ~Warm /\ recorded' = recorded /\ "total" \notin s
  <2>1. "successful" \notin s /\ "deadlocks" \notin s
    BY <1>6 DEF Tallied
  <2>2. /\ outcome'["successful"] <= Answered' /\ outcome'["total"] <= SumFunction(recorded')
        /\ outcome'["deadlocks"] = recorded'["Deadlock"]
    BY <1>3, <1>6, <2>1 DEF CountsInv, OtherCounts, Answered
  <2>3. QED
    BY <1>1, <1>2, <2>2 DEF CountsInv, OtherCounts, Balanced
<1>7. QED
  BY <1>4, <1>5, <1>6

LEMMA PlusIsOneMore ==
    ASSUME NEW o \in [Fields -> Nat], NEW s
    PROVE  /\ OneMore(o, s, Plus(o, s))
           /\ OneMore(o, s, MergeWorker(o, Plus(NoOutcome, s)))
<1>1. OneMore(o, s, Plus(o, s))
  BY Added DEF OneMore
<1>2. /\ Plus(NoOutcome, s) \in [Fields -> Nat]
      /\ \A f \in Fields : Plus(NoOutcome, s)[f] = IF f \in s THEN 1 ELSE 0
  BY FieldsAre, Added
<1>3. \A f \in Fields \ {"incomplete"} : MergeWorker(o, Plus(NoOutcome, s))[f] = o[f] + Plus(NoOutcome, s)[f]
  BY <1>2, Merged
<1>4. \A f \in Fields : o[f] \in Nat
  OBVIOUS
<1>5. OneMore(o, s, MergeWorker(o, Plus(NoOutcome, s)))
  BY <1>2, <1>3, <1>4 DEF OneMore
<1>6. QED
  BY <1>1, <1>5

LEMMA CallsAreTallied ==
    ASSUME NEW r \in HangOutcomes, NEW end
    PROVE  Tallied(Tally(r)) /\ Tallied(TallyProbe(r)) /\ Tallied(TallyProbe(r) \cup Failed(end))
           /\ Tallied({"errors"} \cup Failed(end)) /\ Tallied(Failed(end)) /\ Tallied({"errors"})
           /\ "successful" \notin Failed(end) /\ "deadlocks" \notin Failed(end)
BY Tallies DEF Tallied, Failed

LEMMA CountsBegin == Init => CountsInv
<1> SUFFICES ASSUME Init PROVE CountsInv
  OBVIOUS
<1>1. Balanced(outcome)
  BY BalancedNone DEF Init, ScenarioInit
<1>2. NothingRecorded \in [CallOutcome -> Nat] /\ recorded = NothingRecorded /\ left = {}
  BY DEF NothingRecorded, Init, ScenarioInit
<1>3. recorded["Deadlock"] = 0 /\ recorded["Success"] = 0 /\ recorded["ExpectedRejection"] = 0
  BY <1>2 DEF NothingRecorded, CallOutcome
<1>4. SumFunction(recorded) \in Nat
  BY <1>2, RecordedAdds
<1>5. /\ outcome["total"] = 0 /\ outcome["successful"] = 0 /\ outcome["deadlocks"] = 0
      /\ NoOutcome["total"] = 0 /\ NoOutcome["deadlocks"] = 0 /\ NoOutcome["incomplete"] = 0
  BY FieldsAre, FieldNames DEF Init, ScenarioInit
<1>6. OwnSum("successful") = 0 /\ OwnSum("total") = 0
  BY <1>2, SumOfNone DEF OwnSum
<1>7. LoadCounts
  BY <1>3, <1>4, <1>5, <1>6, BalancedNone DEF LoadCounts, Init, LoadIdle, NothingSeen, Answered
<1>8. OtherCounts
  BY <1>3, <1>4, <1>5 DEF OtherCounts, Answered
<1>9. QED
  BY <1>1, <1>7, <1>8 DEF CountsInv

\* What counts nothing.
LEMMA CountsStay ==
    ASSUME CountsInv, UNCHANGED <<kind, plan, outcome, recorded>>, kind \in LoadKinds => UNCHANGED <<left, made, own, seen>>
    PROVE  CountsInv'
<1>1. Balanced(outcome)' /\ OtherCounts'
  BY DEF CountsInv, OtherCounts, Warm, Answered, Balanced
<1>2. LoadCounts'
  BY DEF CountsInv, LoadCounts, Answered, Balanced, OwnSum
<1>3. QED
  BY <1>1, <1>2 DEF CountsInv

\* A pool that opens counts errors only, and records what is no deadlock.
LEMMA CountsOfPool ==
    ASSUME SessionsInv, CountsInv, kind' = kind, plan' = plan, outcome' \in [Fields -> Nat],
           \A f \in Fields \ {"errors", "incomplete", "teardown"} : outcome'[f] = outcome[f],
           \A f \in Fields : outcome'[f] >= outcome[f],
           \E c \in CallOutcome \ {"Deadlock"}, k \in Nat : recorded' = [recorded EXCEPT ![c] = @ + k]
    PROVE  /\ Balanced(outcome)' /\ OtherCounts'
           /\ recorded'["Deadlock"] = recorded["Deadlock"] /\ outcome'["deadlocks"] = outcome["deadlocks"]
           /\ outcome'["total"] = outcome["total"] /\ outcome'["successful"] = outcome["successful"]
           /\ Answered' >= Answered /\ SumFunction(recorded') >= SumFunction(recorded)
           /\ Answered' \in Nat /\ Answered \in Nat /\ SumFunction(recorded) \in Nat /\ SumFunction(recorded') \in Nat
<1>0. outcome \in [Fields -> Nat] /\ recorded \in [CallOutcome -> Nat]
  BY DEF SessionsInv, Fielded
<1>1. PICK c \in CallOutcome \ {"Deadlock"}, k \in Nat : recorded' = [recorded EXCEPT ![c] = @ + k]
  OBVIOUS
<1>2. /\ outcome'["total"] = outcome["total"] /\ outcome'["successful"] = outcome["successful"]
      /\ outcome'["hangs"] = outcome["hangs"] /\ outcome'["deadlocks"] = outcome["deadlocks"]
      /\ outcome'["errors"] >= outcome["errors"] /\ outcome'["errors"] \in Nat
  BY FieldNames
<1>3. /\ outcome["total"] \in Nat /\ outcome["successful"] \in Nat /\ outcome["hangs"] \in Nat
      /\ outcome["deadlocks"] \in Nat /\ outcome["errors"] \in Nat
  BY <1>0, FieldNames
<1>4. Balanced(outcome)'
  BY <1>2, <1>3 DEF CountsInv, Balanced
<1>5. recorded' \in [CallOutcome -> Nat] /\ {"Success", "ExpectedRejection", "Deadlock"} \subseteq CallOutcome
  BY <1>0, <1>1 DEF CallOutcome
<1>6. /\ recorded'["Deadlock"] = recorded["Deadlock"]
      /\ recorded["Success"] \in Nat /\ recorded["ExpectedRejection"] \in Nat
      /\ recorded'["Success"] \in Nat /\ recorded'["ExpectedRejection"] \in Nat
      /\ recorded'["Success"] >= recorded["Success"] /\ recorded'["ExpectedRejection"] >= recorded["ExpectedRejection"]
  BY <1>0, <1>1, <1>5
<1>7. Answered' >= Answered /\ Answered' \in Nat /\ Answered \in Nat
  BY <1>6 DEF Answered
<1>8. /\ SumFunction(recorded) \in Nat /\ SumFunction(recorded') \in Nat
      /\ SumFunction(recorded') = SumFunction(recorded) + k
  BY <1>0, <1>1, <1>5, RecordedAdds
<1>9. OtherCounts'
  BY <1>2, <1>3, <1>6, <1>7, <1>8 DEF CountsInv, OtherCounts, Warm
<1>10. QED
  BY <1>2, <1>4, <1>6, <1>7, <1>8, <1>9

LEMMA CountsOfProbes ==
    ASSUME SessionsInv, CountsInv, kind \in ProbeKinds, ProbeStep
    PROVE  CountsInv'
<1>0. outcome \in [Fields -> Nat] /\ recorded \in [CallOutcome -> Nat] /\ kind \notin LoadKinds
  BY KindsAreApart DEF SessionsInv, Fielded
<1>k. kind' = kind /\ plan' = plan
  BY DEF ProbeStep, RefusePlan, SkipPlan, ProbeMain, ProbePool, ProbeJoined, BeginRounds, RoundsEnd, RoundSpawnFails,
         RoundSpawned, RoundCall, RowDone, RoundShutdown, ProbeCancelled, ProbeWorker, ProbeWorkerDies, Return
<1>c. {"Success", "Crash", "Cancelled"} \subseteq CallOutcome /\ "Deadlock" \notin {"Success", "Crash", "Cancelled"}
  BY DEF CallOutcome
<1>1. CASE RefusePlan
  <2>1. outcome' = Plus(outcome, {"errors"}) /\ recorded' = recorded
    BY <1>1 DEF RefusePlan, Return, SessionsInv, Fielded
  <2>2. OneMore(outcome, {"errors"}, outcome')
    BY <1>0, <2>1, PlusIsOneMore
  <2>3. Tallied({"errors"})
    BY DEF Tallied
  <2>4. QED
    BY <1>0, <1>k, <1>c, <2>1, <2>2, <2>3, BothBooks
<1>2. CASE SkipPlan \/ BeginRounds \/ RoundsEnd \/ RowDone
  <2>1. UNCHANGED <<kind, plan, outcome, recorded>>
    BY <1>2 DEF SkipPlan, BeginRounds, RoundsEnd, RowDone, Return
  <2>2. QED
    BY <1>0, <2>1, CountsStay
<1>3. CASE ProbeMain
  <2>1. CASE cancelled
    <3>1. outcome' = Plus(outcome, {"errors"}) /\ recorded' = Counted("Cancelled")
      BY <1>3, <2>1 DEF ProbeMain
    <3>2. OneMore(outcome, {"errors"}, outcome')
      BY <1>0, <3>1, PlusIsOneMore
    <3>3. Tallied({"errors"})
      BY DEF Tallied
    <3>4. QED
      BY <1>0, <1>k, <1>c, <3>1, <3>2, <3>3, BothBooks
  <2>2. CASE ~cancelled
    <3>1. PICK r \in HangOutcomes : outcome' = Plus(outcome, TallyProbe(r)) /\ recorded' = Counted(RecordedAs(r))
      BY <1>3, <2>2 DEF ProbeMain
    <3>2. OneMore(outcome, TallyProbe(r), outcome') /\ Tallied(TallyProbe(r))
      BY <1>0, <3>1, PlusIsOneMore, CallsAreTallied
    <3>3. QED
      BY <1>0, <1>k, <3>1, <3>2, BothBooks, Tallies, ClassesOfCalls
  <2>3. QED
    BY <2>1, <2>2
<1>4. CASE ProbePool
  <2>1. /\ PoolOpens(plan.count, "working", "joined") /\ plan.count \in Nat /\ \A s \in Sessions \ {0} : Resting(s)
    BY <1>4, PlanIsTyped DEF ProbePool, SessionsInv, Fielded, Resting
  <2>2. /\ outcome' \in [Fields -> Nat]
        /\ \A f \in Fields \ {"errors", "incomplete", "teardown"} : outcome'[f] = outcome[f]
        /\ \A f \in Fields : outcome'[f] >= outcome[f]
        /\ \E c \in CallOutcome \ {"Deadlock"}, k \in Nat : recorded' = [recorded EXCEPT ![c] = @ + k]
    BY <2>1, PoolOpened DEF SessionsInv
  <2>3. Balanced(outcome)' /\ OtherCounts'
    BY <1>k, <2>2, CountsOfPool
  <2>4. QED
    BY <1>0, <1>k, <2>3 DEF CountsInv, LoadCounts
<1>5. CASE ProbeJoined
  <2>1. outcome' = JudgeResponses \/ outcome' = outcome
    BY <1>5 DEF ProbeJoined, Return
  <2>2. recorded' = recorded /\ kind \in PoolProbes
    BY <1>5 DEF ProbeJoined, Return, PoolProbes
  <2>3. CASE outcome' = outcome
    BY <1>0, <1>k, <2>2, <2>3, CountsStay
  <2>4. CASE outcome' = JudgeResponses
    <3>1. /\ outcome' \in [Fields -> Nat]
          /\ \A f \in Fields \ {"errors", "divergences"} : outcome'[f] = outcome[f]
          /\ outcome'["errors"] >= outcome["errors"] /\ outcome'["divergences"] >= outcome["divergences"]
      BY <2>2, <2>4, Judged DEF SessionsInv, PoolProbeInv
    <3>2. /\ outcome'["total"] = outcome["total"] /\ outcome'["successful"] = outcome["successful"]
          /\ outcome'["hangs"] = outcome["hangs"] /\ outcome'["deadlocks"] = outcome["deadlocks"]
          /\ outcome["total"] \in Nat /\ outcome["successful"] \in Nat /\ outcome["hangs"] \in Nat
          /\ outcome["deadlocks"] \in Nat /\ outcome["errors"] \in Nat /\ outcome'["errors"] \in Nat
      BY <1>0, <3>1, FieldNames
    <3>3. Balanced(outcome)'
      BY <3>1, <3>2 DEF CountsInv, Balanced
    <3>4. LoadCounts' /\ OtherCounts'
      BY <1>0, <1>k, <2>2, <3>2 DEF CountsInv, LoadCounts, OtherCounts, Warm, Answered
    <3>5. QED
      BY <3>3, <3>4 DEF CountsInv
  <2>5. QED
    BY <2>1, <2>3, <2>4
<1>6. CASE RoundSpawnFails
  <2>1. PICK e \in SessionErrors : recorded' = Recording(ClassifyError(e))
    BY <1>6 DEF RoundSpawnFails
  <2>2. outcome' = Plus(outcome, {"errors"})
    BY <1>6 DEF RoundSpawnFails
  <2>3. OneMore(outcome, {"errors"}, outcome') /\ Tallied({"errors"})
    BY <1>0, <2>2, PlusIsOneMore DEF Tallied
  <2>4. ClassifyError(e) \in CallOutcome /\ ClassifyError(e) # "Deadlock"
    BY ClassesOfErrors DEF CallOutcome
  <2>5. recorded' = Counted(ClassifyError(e)) \/ Warm
    BY <2>1 DEF Recording, Discard, Warm
  <2>6. QED
    BY <1>0, <1>k, <2>3, <2>4, <2>5, BothBooks
<1>7. CASE RoundSpawned
  <2>1. OneMore(outcome, {}, outcome') /\ Tallied({})
    BY <1>0, <1>7 DEF RoundSpawned, OneMore, Tallied
  <2>2. recorded' = Counted("Success") \/ recorded' = recorded
    BY <1>7 DEF RoundSpawned, Recording
  <2>3. QED
    BY <1>0, <1>k, <1>c, <2>1, <2>2, BothBooks
<1>8. CASE RoundCall
  <2>1. PICK r \in HangOutcomes : outcome' = Plus(outcome, Tally(r)) /\ recorded' = Recording(RecordedAs(r))
    BY <1>8 DEF RoundCall
  <2>2. OneMore(outcome, Tally(r), outcome') /\ Tallied(Tally(r))
    BY <1>0, <2>1, PlusIsOneMore, CallsAreTallied
  <2>3. recorded' = Counted(RecordedAs(r)) \/ Warm
    BY <2>1 DEF Recording, Discard, Warm
  <2>4. QED
    BY <1>0, <1>k, <2>2, <2>3, BothBooks, Tallies, ClassesOfCalls
<1>9. CASE RoundShutdown
  <2>1. PICK end \in {"closed", "unsure"} : outcome' = Plus(outcome, Failed(end))
    BY <1>9 DEF RoundShutdown
  <2>2. OneMore(outcome, Failed(end), outcome') /\ Tallied(Failed(end)) /\ recorded' = recorded
    BY <1>0, <1>9, <2>1, PlusIsOneMore DEF Tallied, Failed, RoundShutdown
  <2>3. "total" \notin Failed(end) /\ "successful" \notin Failed(end)
    BY DEF Failed
  <2>4. QED
    BY <1>0, <1>k, <1>c, <2>2, <2>3, BothBooks
<1>10. ASSUME NEW w \in Sessions, ProbeCancelled(w) \/ ProbeWorker(w) \/ ProbeWorkerDies(w)
       PROVE  CountsInv'
  <2>1. CASE ProbeCancelled(w)
    <3>1. PICK end \in {"closed", "unsure"} :
            outcome' = MergeWorker(outcome, Plus(NoOutcome, {"errors"} \cup Failed(end)))
      BY <2>1 DEF ProbeCancelled
    <3>2. OneMore(outcome, {"errors"} \cup Failed(end), outcome')
      BY <1>0, <3>1, PlusIsOneMore
    <3>3. Tallied({"errors"} \cup Failed(end)) /\ {"total", "successful", "deadlocks"} \cap ({"errors"} \cup Failed(end)) = {}
      BY DEF Tallied, Failed
    <3>4. recorded' = Counted("Cancelled") \/ recorded' = recorded
      BY <2>1 DEF ProbeCancelled
    <3>5. QED
      BY <1>0, <1>k, <1>c, <3>2, <3>3, <3>4, BothBooks
  <2>2. CASE ProbeWorker(w)
    <3>1. PICK r \in HangOutcomes, end \in {"closed", "unsure"} :
            /\ recorded' = Counted(RecordedAs(r))
            /\ outcome' = MergeWorker(outcome, Plus(NoOutcome, TallyProbe(r) \cup Failed(end)))
      BY <2>2 DEF ProbeWorker
    <3>2. OneMore(outcome, TallyProbe(r) \cup Failed(end), outcome')
      BY <1>0, <3>1, PlusIsOneMore
    <3>3. Tallied(TallyProbe(r) \cup Failed(end)) /\ "successful" \notin Failed(end) /\ "deadlocks" \notin Failed(end)
      BY CallsAreTallied
    <3>4. /\ RecordedAs(r) \in CallOutcome
          /\ "successful" \in TallyProbe(r) \cup Failed(end) => RecordedAs(r) = "Success"
          /\ "deadlocks" \in TallyProbe(r) \cup Failed(end) <=> RecordedAs(r) = "Deadlock"
      BY <3>3, Tallies, ClassesOfCalls
    <3>5. QED
      BY <1>0, <1>k, <3>1, <3>2, <3>3, <3>4, BothBooks
  <2>3. CASE ProbeWorkerDies(w)
    <3>1. outcome' = Plus(outcome, {"errors", "incomplete"}) /\ recorded' = Counted("Crash")
      BY <2>3 DEF ProbeWorkerDies, WorkerDies
    <3>2. OneMore(outcome, {"errors", "incomplete"}, outcome') /\ Tallied({"errors", "incomplete"})
      BY <1>0, <3>1, PlusIsOneMore DEF Tallied
    <3>3. QED
      BY <1>0, <1>k, <1>c, <3>1, <3>2, BothBooks
  <2>4. QED
    BY <1>10, <2>1, <2>2, <2>3
<1>11. QED
  BY <1>1, <1>2, <1>3, <1>4, <1>5, <1>6, <1>7, <1>8, <1>9, <1>10 DEF ProbeStep

LEMMA CountsOfFuzz ==
    ASSUME SessionsInv, CountsInv, kind = "fuzzer", FuzzStep
    PROVE  CountsInv'
<1>0. outcome \in [Fields -> Nat] /\ recorded \in [CallOutcome -> Nat] /\ kind \notin LoadKinds
  BY KindsAreApart DEF SessionsInv, Fielded, LoadKinds
<1>k. kind' = kind /\ plan' = plan
  BY DEF FuzzStep, FuzzBegins, FuzzEnds, SkipRaw, ProbeCall, RawProbe, Respawn, scenarioVars
<1>1. CASE FuzzBegins \/ FuzzEnds \/ SkipRaw
  BY <1>0, <1>1, CountsStay DEF FuzzBegins, FuzzEnds, SkipRaw, scenarioVars
<1>2. CASE ProbeCall
  <2>1. PICK r \in HangOutcomes : recorded' = Counted(MetricOfCall(r)) /\ outcome' = Plus(outcome, FieldsOfCall(r))
    BY <1>2, CallOfFuzz
  <2>2. /\ MetricOfCall(r) \in CallOutcome
        /\ "successful" \in FieldsOfCall(r) => MetricOfCall(r) = "ExpectedRejection"
        /\ "deadlocks" \in FieldsOfCall(r) <=> MetricOfCall(r) = "Deadlock"
        /\ Tallied(FieldsOfCall(r))
    BY FieldsOfFuzz DEF Tallied
  <2>3. OneMore(outcome, FieldsOfCall(r), outcome')
    BY <1>0, <2>1, PlusIsOneMore
  <2>4. QED
    BY <1>0, <1>k, <2>1, <2>2, <2>3, BothBooks
<1>3. CASE RawProbe
  <2>1. PICK class \in FuzzClass, metric \in CallOutcome, f \in {"successful", "deadlocks", "errors"} :
          /\ recorded' = Counted(metric) /\ outcome' = Plus(outcome, {"total", f})
          /\ f = "deadlocks" <=> metric = "Deadlock"
          /\ f = "successful" <=> metric \in {"Success", "ExpectedRejection"}
    BY <1>3, FrameOfFuzz
  <2>2. /\ "successful" \in {"total", f} => metric \in {"Success", "ExpectedRejection"}
        /\ "deadlocks" \in {"total", f} <=> metric = "Deadlock"
        /\ Tallied({"total", f})
    BY <2>1 DEF Tallied
  <2>3. OneMore(outcome, {"total", f}, outcome')
    BY <1>0, <2>1, PlusIsOneMore
  <2>4. QED
    BY <1>0, <1>k, <2>1, <2>2, <2>3, BothBooks
<1>4. CASE Respawn
  <2>1. PICK s \in {{"errors"}, {}, {"teardown"}} : outcome' = Plus(outcome, s) /\ recorded' = recorded
    BY <1>4 DEF Respawn, Failed
  <2>2. OneMore(outcome, s, outcome') /\ Tallied(s)
    BY <1>0, <2>1, PlusIsOneMore DEF Tallied
  <2>3. "Success" \in CallOutcome /\ "total" \notin s /\ "successful" \notin s
    BY DEF CallOutcome
  <2>4. QED
    BY <1>0, <1>k, <2>1, <2>2, <2>3, BothBooks
<1>5. QED
  BY <1>1, <1>2, <1>3, <1>4 DEF FuzzStep

\* The callers' counts in sum: of one caller and the others, and of none.
LEMMA SumOfNothing ==
    ASSUME NEW S, IsFiniteSet(S), NEW w, \A x \in S : w[x] = 0
    PROVE  SumFunctionOnSet(w, S) = 0
<1> DEFINE F == {t \in SUBSET S : SumFunctionOnSet(w, t) # 0}
<1>1. SUFFICES ASSUME F # {} PROVE FALSE
  OBVIOUS
<1>2. \A t \in F : IsFiniteSet(t)
  BY FS_Subset
<1>3. PICK t \in F : \A x \in t : t \ {x} \notin F
  BY <1>1, <1>2, LeastSet
<1>4. t # {}
  BY SumOfNone
<1>5. PICK x \in t : TRUE
  BY <1>4
<1>6. SumFunctionOnSet(w, t) = w[x] + SumFunctionOnSet(w, t \ {x})
  BY <1>2, SumTakes
<1>7. SumFunctionOnSet(w, t \ {x}) = 0
  BY <1>3
<1>8. QED
  BY <1>6, <1>7

Counts(f) == [w \in Sessions |-> own[w][f]]

LEMMA OwnSums ==
    ASSUME own \in [Sessions -> [Fields -> Nat]], left \subseteq Sessions, NEW f \in Fields
    PROVE  /\ IsFiniteSet(left) /\ OwnSum(f) \in Nat /\ OwnSum(f) = SumFunctionOnSet(Counts(f), left)
           /\ \A w \in left : /\ OwnSum(f) = own[w][f] + SumFunctionOnSet(Counts(f), left \ {w})
                              /\ own[w][f] \in Nat /\ SumFunctionOnSet(Counts(f), left \ {w}) \in Nat
<1>1. IsFiniteSet(left) /\ \A w \in left : IsFiniteSet(left \ {w})
  BY SessionsAssumption, FS_Subset
<1>2. \A w \in Sessions : Counts(f)[w] = own[w][f] /\ own[w][f] \in Nat
  BY DEF Counts
<1>3. OwnSum(f) = SumFunctionOnSet(Counts(f), left)
  BY DEF OwnSum, Counts
<1>4. SumFunctionOnSet(Counts(f), left) \in Nat
  BY <1>1, <1>2, SumIsNat
<1>5. ASSUME NEW w \in left
      PROVE  /\ SumFunctionOnSet(Counts(f), left) = own[w][f] + SumFunctionOnSet(Counts(f), left \ {w})
             /\ SumFunctionOnSet(Counts(f), left \ {w}) \in Nat
  <2>1. \A x \in left : Counts(f)[x] \in Int
    BY <1>2
  <2>2. SumFunctionOnSet(Counts(f), left) = Counts(f)[w] + SumFunctionOnSet(Counts(f), left \ {w})
    BY <1>1, <2>1, SumTakes
  <2>3. SumFunctionOnSet(Counts(f), left \ {w}) \in Nat
    BY <1>1, <1>2, SumIsNat
  <2>4. QED
    BY <1>2, <2>2, <2>3
<1>6. QED
  BY <1>1, <1>2, <1>3, <1>4, <1>5

\* The drive of a load counts an error or a lost worker.
LEMMA CountsOfErrors ==
    ASSUME SessionsInv, CountsInv, kind \in LoadKinds, UNCHANGED <<kind, plan, recorded, left, made, own, seen>>,
           outcome' = outcome \/ outcome' = Plus(outcome, {"errors"})
    PROVE  CountsInv'
<1>0. outcome \in [Fields -> Nat]
  BY DEF SessionsInv, Fielded
<1>1. CASE outcome' = outcome
  BY <1>1, CountsStay
<1>2. CASE outcome' = Plus(outcome, {"errors"})
  <2>1. OneMore(outcome, {"errors"}, outcome') /\ Tallied({"errors"})
    BY <1>0, <1>2, PlusIsOneMore DEF Tallied
  <2>2. Balanced(outcome)'
    BY <1>0, <2>1, BalancedAdds DEF CountsInv, Balanced
  <2>3. /\ outcome'["total"] = outcome["total"] /\ outcome'["successful"] = outcome["successful"]
        /\ outcome'["deadlocks"] = outcome["deadlocks"]
    BY <2>1, FieldNames DEF OneMore
  <2>4. LoadCounts'
    BY <2>3 DEF CountsInv, LoadCounts, Answered, Balanced, OwnSum
  <2>5. OtherCounts'
    BY DEF OtherCounts
  <2>6. QED
    BY <2>2, <2>4, <2>5 DEF CountsInv
<1>3. QED
  BY <1>1, <1>2

LEMMA CountsOfWindows ==
    ASSUME SessionsInv, CountsInv, kind \in LoadKinds,
           LoadBegins \/ WindowsOver \/ SkipPhase \/ WindowJoined \/ LevelJudged \/ WindowCloses
    PROVE  CountsInv'
<1>1. UNCHANGED <<kind, plan, recorded, left, made, own, seen>>
  BY DEF LoadBegins, WindowsOver, SkipPhase, WindowJoined, LevelJudged, WindowCloses, scenarioVars
<1>2. outcome' = outcome \/ outcome' = Plus(outcome, {"errors"})
  BY DEF LoadBegins, WindowsOver, SkipPhase, WindowJoined, LevelJudged, WindowCloses, scenarioVars
<1>3. QED
  BY <1>1, <1>2, CountsOfErrors

LEMMA CountsOfWindowOpens ==
    ASSUME SessionsInv, CountsInv, kind \in LoadKinds, WindowOpens, SessionsInv'
    PROVE  CountsInv'
<1>0. /\ outcome \in [Fields -> Nat] /\ recorded \in [CallOutcome -> Nat]
      /\ own \in [Sessions -> [Fields -> Nat]] /\ left \subseteq Sessions
      /\ own' \in [Sessions -> [Fields -> Nat]] /\ left' \subseteq Sessions
  BY DEF SessionsInv, Fielded, LoadTyped
<1>1. /\ kind' = kind /\ plan' = plan /\ made' = [w \in Sessions |-> 0] /\ own' = [w \in Sessions |-> NoOutcome]
      /\ seen' = NothingSeen
  BY DEF WindowOpens
<1>2. \A f \in Fields : OwnSum(f) \in Nat
  BY <1>0, OwnSums
<1>3. ASSUME NEW f \in Fields PROVE OwnSum(f)' = 0
  <2>1. IsFiniteSet(left')
    BY <1>0, SessionsAssumption, FS_Subset
  <2>2. \A x \in left' : [w \in Sessions |-> own'[w][f]][x] = 0
    BY <1>0, <1>1, FieldsAre
  <2>3. SumFunctionOnSet([w \in Sessions |-> own'[w][f]], left') = 0
    BY <2>1, <2>2, SumOfNothing
  <2>4. QED
    BY <2>3 DEF OwnSum
<1>4. OwnSum("total")' = 0 /\ OwnSum("successful")' = 0 /\ OwnSum("total") \in Nat /\ OwnSum("successful") \in Nat
  BY <1>2, <1>3, FieldNames
<1>5. \A w \in Sessions : /\ Balanced(own[w])' /\ own'[w]["deadlocks"] = 0 /\ own'[w]["incomplete"] = 0
                          /\ own'[w]["total"] = made'[w] /\ made'[w] <= seen'.total
  <2>1. NoOutcome["deadlocks"] = 0 /\ NoOutcome["incomplete"] = 0 /\ NoOutcome["total"] = 0
    BY FieldsAre, FieldNames
  <2>2. ASSUME NEW w \in Sessions
        PROVE  own'[w] = NoOutcome /\ made'[w] = 0
    BY <1>1
  <2>3. seen'.total = 0
    BY <1>1 DEF NothingSeen
  <2>4. QED
    BY <2>1, <2>2, <2>3, BalancedNone DEF Balanced
<1>6. /\ Balanced(outcome)
      /\ outcome["deadlocks"] = 0 /\ recorded["Deadlock"] = 0
      /\ outcome["successful"] + OwnSum("successful") <= Answered
      /\ outcome["total"] + OwnSum("total") <= SumFunction(recorded)
  BY DEF CountsInv, LoadCounts
<1>7. outcome["total"] \in Nat /\ outcome["successful"] \in Nat
  BY <1>0, FieldNames
<1>8. /\ Balanced(outcome)' /\ outcome'["deadlocks"] = 0 /\ recorded'["Deadlock"] = 0
      /\ outcome'["successful"] <= Answered' /\ outcome'["total"] <= SumFunction(recorded')
      /\ outcome'["total"] \in Nat /\ outcome'["successful"] \in Nat
  <2>1. CASE Pooled /\ PoolOpens(Size, "working", "joined")
    <3>1. Size \in Nat /\ (\A s \in Sessions \ {0} : Resting(s)) /\ Fielded /\ Sound
      BY PlanIsTyped DEF SessionsInv, Size, LoadTyped, LoadInv, WindowOpens
    <3>2. /\ outcome' \in [Fields -> Nat]
          /\ \A f \in Fields \ {"errors", "incomplete", "teardown"} : outcome'[f] = outcome[f]
          /\ \A f \in Fields : outcome'[f] >= outcome[f]
          /\ \E c \in CallOutcome \ {"Deadlock"}, k \in Nat : recorded' = [recorded EXCEPT ![c] = @ + k]
      BY <2>1, <3>1, PoolOpened
    <3>3. /\ Balanced(outcome)'
          /\ recorded'["Deadlock"] = recorded["Deadlock"] /\ outcome'["deadlocks"] = outcome["deadlocks"]
          /\ outcome'["total"] = outcome["total"] /\ outcome'["successful"] = outcome["successful"]
          /\ Answered' >= Answered /\ SumFunction(recorded') >= SumFunction(recorded)
          /\ Answered' \in Nat /\ Answered \in Nat
          /\ SumFunction(recorded) \in Nat /\ SumFunction(recorded') \in Nat
      BY <1>1, <3>2, CountsOfPool
    <3>4. QED
      BY <1>4, <1>6, <1>7, <3>3
  <2>2. CASE recorded' = recorded /\ (outcome' = outcome \/ outcome' = Plus(outcome, {"incomplete"}))
    <3>1. /\ outcome'["total"] = outcome["total"] /\ outcome'["successful"] = outcome["successful"]
          /\ outcome'["deadlocks"] = outcome["deadlocks"] /\ outcome'["hangs"] = outcome["hangs"]
          /\ outcome'["errors"] = outcome["errors"]
      BY <1>0, <2>2, Added, FieldNames
    <3>2. Balanced(outcome)'
      BY <1>6, <3>1 DEF Balanced
    <3>3. Answered' = Answered /\ Answered \in Int /\ SumFunction(recorded) \in Int
      BY <1>0, <2>2, RecordedAdds DEF Answered, CallOutcome
    <3>4. QED
      BY <1>4, <1>6, <1>7, <2>2, <3>1, <3>2, <3>3
  <2>3. QED
    BY <2>1, <2>2 DEF WindowOpens
<1>9. LoadCounts'
  BY <1>1, <1>4, <1>5, <1>8 DEF LoadCounts, Balanced, Answered
<1>10. OtherCounts'
  BY <1>1 DEF OtherCounts
<1>11. QED
  BY <1>8, <1>9, <1>10 DEF CountsInv

LEMMA CountsOfCalls ==
    ASSUME SessionsInv, CountsInv, kind \in LoadKinds, NEW w \in Sessions, LoadCall(w) \/ CallDropped(w)
    PROVE  CountsInv'
<1>0. /\ outcome \in [Fields -> Nat] /\ recorded \in [CallOutcome -> Nat]
      /\ own \in [Sessions -> [Fields -> Nat]] /\ left \subseteq Sessions /\ w \in left
      /\ made \in [Sessions -> Nat] /\ seen.total \in Nat
  BY DEF SessionsInv, Fielded, LoadTyped, LoadCall, CallDropped, CallCounted, MayCall
<1>1. PICK fields \in SUBSET Fields, class \in CallOutcome \ {"Deadlock"} :
        /\ CallCounted(w, fields, class) /\ Tallied(fields)
        /\ "total" \in fields /\ "deadlocks" \notin fields /\ "incomplete" \notin fields
        /\ "successful" \in fields => class \in {"Success", "ExpectedRejection"}
  <2>1. CASE LoadCall(w)
    <3>1. PICK r \in PlainOutcomes : CallCounted(w, Tally(r), RecordedAs(r))
      BY <2>1 DEF LoadCall
    <3>2. r \in HangOutcomes /\ r.verdict \in {"Ok", "Err"}
      BY PlainCalls
    <3>3. RecordedAs(r) \in CallOutcome \ {"Deadlock"} /\ Tallied(Tally(r))
      BY <3>2, ClassesOfCalls, CallsAreTallied
    <3>4. /\ "total" \in Tally(r) /\ "deadlocks" \notin Tally(r) /\ "incomplete" \notin Tally(r)
          /\ "successful" \in Tally(r) => RecordedAs(r) \in {"Success", "ExpectedRejection"}
      BY <3>2, Tallies
    <3>5. Tally(r) \in SUBSET Fields
      BY DEF Tally, Fields
    <3> USE <3>3, <3>5
    <3>6. WITNESS Tally(r) \in SUBSET Fields, RecordedAs(r) \in CallOutcome \ {"Deadlock"}
    <3>7. QED
      BY <3>1, <3>3, <3>4
  <2>2. CASE CallDropped(w)
    <3>1. CallCounted(w, {"total", "errors"}, "Cancelled") /\ "Cancelled" \in CallOutcome \ {"Deadlock"}
      BY <2>2 DEF CallDropped, CallOutcome
    <3>2. Tallied({"total", "errors"})
      BY DEF Tallied
    <3>3. {"total", "errors"} \in SUBSET Fields
      BY DEF Fields
    <3> USE <3>1, <3>3
    <3>4. WITNESS {"total", "errors"} \in SUBSET Fields, "Cancelled" \in CallOutcome \ {"Deadlock"}
    <3>5. QED
      BY <3>1, <3>2
  <2>3. QED
    BY <2>1, <2>2
<1>2. /\ made' = [made EXCEPT ![w] = @ + 1] /\ own' = [own EXCEPT ![w] = Plus(@, fields)]
      /\ recorded' = Counted(class) /\ seen'.total = seen.total + 1
      /\ UNCHANGED <<kind, plan, left, outcome>>
  BY <1>1 DEF CallCounted
<1>3. /\ SumFunction(recorded') = SumFunction(recorded) + 1 /\ SumFunction(recorded) \in Nat /\ Answered \in Nat
      /\ Answered' = IF class \in {"Success", "ExpectedRejection"} THEN Answered + 1 ELSE Answered
      /\ recorded'["Deadlock"] = recorded["Deadlock"]
  BY <1>0, <1>1, <1>2, CountedOnce
<1>4. /\ own'[w] = Plus(own[w], fields) /\ \A v \in Sessions \ {w} : own'[v] = own[v]
      /\ own' \in [Sessions -> [Fields -> Nat]] /\ own[w] \in [Fields -> Nat]
  <2>1. own[w] \in [Fields -> Nat] /\ Plus(own[w], fields) \in [Fields -> Nat]
    BY <1>0, Added
  <2>2. QED
    BY <1>0, <1>2, <2>1
<1>5. OneMore(own[w], fields, own'[w]) /\ own'[w]["incomplete"] = own[w]["incomplete"]
  BY <1>1, <1>4, PlusIsOneMore, Added, FieldNames
<1>6. /\ Balanced(own[w]) /\ own[w]["deadlocks"] = 0 /\ own[w]["incomplete"] = 0
      /\ own[w]["total"] = made[w] /\ made[w] <= seen.total
  BY DEF CountsInv, LoadCounts
<1>7. Balanced(own'[w])
  BY <1>1, <1>4, <1>5, <1>6, BalancedAdds
<1>8. /\ own'[w]["deadlocks"] = 0 /\ own'[w]["incomplete"] = 0 /\ own'[w]["total"] = made'[w] /\ made'[w] <= seen'.total
  <2>1. own'[w]["deadlocks"] = own[w]["deadlocks"] /\ own'[w]["total"] = own[w]["total"] + 1
    BY <1>1, <1>5, FieldNames DEF OneMore
  <2>2. made'[w] = made[w] + 1 /\ made[w] \in Nat
    BY <1>0, <1>2
  <2>3. QED
    BY <1>0, <1>2, <1>5, <1>6, <2>1, <2>2
<1>9. ASSUME NEW v \in Sessions
      PROVE  /\ Balanced(own'[v]) /\ own'[v]["deadlocks"] = 0 /\ own'[v]["incomplete"] = 0
             /\ own'[v]["total"] = made'[v] /\ made'[v] <= seen'.total
  <2>1. CASE v = w
    BY <1>7, <1>8, <2>1
  <2>2. CASE v # w
    <3>1. own'[v] = own[v] /\ made'[v] = made[v] /\ made[v] \in Nat
      BY <1>0, <1>2, <1>4, <2>2
    <3>2. /\ Balanced(own[v]) /\ own[v]["deadlocks"] = 0 /\ own[v]["incomplete"] = 0
          /\ own[v]["total"] = made[v] /\ made[v] <= seen.total
      BY DEF CountsInv, LoadCounts
    <3>3. QED
      BY <1>0, <1>2, <3>1, <3>2
  <2>3. QED
    BY <2>1, <2>2
<1>10. ASSUME NEW f \in {"total", "successful"}
       PROVE  OwnSum(f)' = (IF f \in fields THEN OwnSum(f) + 1 ELSE OwnSum(f)) /\ OwnSum(f) \in Nat
  <2>0. f \in Fields
    BY FieldNames
  <2>1. /\ IsFiniteSet(left) /\ OwnSum(f) = own[w][f] + SumFunctionOnSet(Counts(f), left \ {w})
        /\ own[w][f] \in Nat /\ SumFunctionOnSet(Counts(f), left \ {w}) \in Nat /\ OwnSum(f) \in Nat
    BY <1>0, <2>0, OwnSums
  <2> DEFINE now == [v \in Sessions |-> own'[v][f]]
  <2>2. \A v \in Sessions : now[v] = own'[v][f] /\ own'[v][f] \in Nat
    BY <1>4, <2>0
  <2>3. OwnSum(f)' = SumFunctionOnSet(now, left)
    BY <1>2 DEF OwnSum
  <2>4. \A v \in left \ {w} : now[v] = Counts(f)[v] /\ now[v] \in Int
    BY <1>0, <1>4, <2>2 DEF Counts
  <2>5. \A v \in left : now[v] \in Int
    BY <1>0, <2>2
  <2> HIDE DEF now
  <2>6. SumFunctionOnSet(now, left) = now[w] + SumFunctionOnSet(now, left \ {w})
    BY <1>0, <2>1, <2>5, SumTakes
  <2>7. SumFunctionOnSet(now, left \ {w}) = SumFunctionOnSet(Counts(f), left \ {w})
    <3>1. IsFiniteSet(left \ {w})
      BY <2>1, FS_Subset
    <3>2. QED
      BY <2>4, <3>1, SumSame
  <2>8. now[w] = IF f \in fields THEN own[w][f] + 1 ELSE own[w][f]
    BY <1>4, <2>0, <2>2, Added
  <2>9. QED
    BY <2>1, <2>3, <2>6, <2>7, <2>8
<1>11. /\ OwnSum("total")' = OwnSum("total") + 1 /\ OwnSum("total") \in Nat /\ OwnSum("successful") \in Nat
       /\ OwnSum("successful")' = IF "successful" \in fields THEN OwnSum("successful") + 1 ELSE OwnSum("successful")
  BY <1>1, <1>10
<1>12. /\ Balanced(outcome) /\ outcome["deadlocks"] = 0 /\ recorded["Deadlock"] = 0
       /\ outcome["successful"] + OwnSum("successful") <= Answered
       /\ outcome["total"] + OwnSum("total") <= SumFunction(recorded)
       /\ outcome["total"] \in Nat /\ outcome["successful"] \in Nat
  BY <1>0, FieldNames DEF CountsInv, LoadCounts
<1>13. /\ outcome["successful"] + OwnSum("successful")' <= Answered'
       /\ outcome["total"] + OwnSum("total")' <= SumFunction(recorded')
  BY <1>1, <1>3, <1>11, <1>12
<1>14. Balanced(outcome)' /\ OtherCounts'
  BY <1>2, <1>12 DEF Balanced, OtherCounts
<1>15. LoadCounts'
  BY <1>2, <1>3, <1>9, <1>12, <1>13 DEF LoadCounts, Balanced
<1>16. QED
  BY <1>14, <1>15 DEF CountsInv

LEMMA CountsOfCallers ==
    ASSUME SessionsInv, CountsInv, kind \in LoadKinds, NEW w \in Sessions, CallerStops(w) \/ CallerDies(w)
    PROVE  CountsInv'
<1>0. /\ outcome \in [Fields -> Nat] /\ recorded \in [CallOutcome -> Nat]
      /\ own \in [Sessions -> [Fields -> Nat]] /\ left \subseteq Sessions /\ w \in left
      /\ own[w] \in [Fields -> Nat]
  BY DEF SessionsInv, Fielded, LoadTyped, CallerStops, CallerDies
<1>1. UNCHANGED <<kind, plan, made, own, seen>> /\ left' = left \ {w}
  BY DEF CallerStops, CallerDies, WorkerDies, loadVars
<1>2. /\ Balanced(outcome) /\ outcome["deadlocks"] = 0 /\ recorded["Deadlock"] = 0
      /\ outcome["successful"] + OwnSum("successful") <= Answered
      /\ outcome["total"] + OwnSum("total") <= SumFunction(recorded)
      /\ outcome["total"] \in Nat /\ outcome["successful"] \in Nat
      /\ Balanced(own[w]) /\ own[w]["deadlocks"] = 0
      /\ own[w]["total"] \in Nat /\ own[w]["successful"] \in Nat
  BY <1>0, FieldNames DEF CountsInv, LoadCounts
<1>3. ASSUME NEW f \in {"total", "successful"}
      PROVE  OwnSum(f) = own[w][f] + OwnSum(f)' /\ OwnSum(f)' \in Nat
  <2>1. f \in Fields
    BY FieldNames
  <2>2. OwnSum(f)' = SumFunctionOnSet(Counts(f), left \ {w})
    BY <1>1 DEF OwnSum, Counts
  <2>3. QED
    BY <1>0, <2>1, <2>2, OwnSums
<1>4. /\ OwnSum("total") = own[w]["total"] + OwnSum("total")' /\ OwnSum("total")' \in Nat
      /\ OwnSum("successful") = own[w]["successful"] + OwnSum("successful")' /\ OwnSum("successful")' \in Nat
  BY <1>3
<1>5. SumFunction(recorded) \in Nat /\ Answered \in Nat
  BY <1>0, RecordedAdds DEF Answered, CallOutcome
<1>6. /\ Balanced(outcome)' /\ outcome'["deadlocks"] = 0 /\ recorded'["Deadlock"] = 0
      /\ outcome'["successful"] + OwnSum("successful")' <= Answered'
      /\ outcome'["total"] + OwnSum("total")' <= SumFunction(recorded')
  <2>1. CASE CallerStops(w)
    <3>1. PICK mine \in [Fields -> Nat] :
            /\ OneMore(own[w], {}, mine)
            /\ outcome' = MergeWorker(outcome, mine) \/ outcome' = Sum2(outcome, mine)
      <4>1. CASE Pooled
        <5>1. PICK end \in {"closed", "unsure"} : outcome' = MergeWorker(outcome, Plus(own[w], Failed(end)))
          BY <2>1, <4>1 DEF CallerStops
        <5>2. Plus(own[w], Failed(end)) \in [Fields -> Nat]
          BY <1>0, Added
        <5>3. OneMore(own[w], {}, Plus(own[w], Failed(end)))
          BY <1>0, Added DEF OneMore, Failed
        <5>4. QED
          BY <5>1, <5>2, <5>3
      <4>2. CASE ~Pooled
        BY <1>0, <2>1, <4>2 DEF CallerStops, OneMore
      <4>3. QED
        BY <4>1, <4>2
    <3>2. Balanced(mine) /\ mine["total"] = own[w]["total"] /\ mine["successful"] = own[w]["successful"]
          /\ mine["deadlocks"] = 0
      <4>1. Tallied({})
        BY DEF Tallied
      <4>2. Balanced(mine)
        BY <1>0, <1>2, <3>1, <4>1, BalancedAdds
      <4>3. QED
        BY <1>2, <3>1, <4>2, FieldNames DEF OneMore
    <3>3. Balanced(outcome)'
      BY <1>0, <1>2, <3>1, <3>2, BalancedSum DEF Balanced
    <3>4. /\ outcome'["total"] = outcome["total"] + mine["total"]
          /\ outcome'["successful"] = outcome["successful"] + mine["successful"]
          /\ outcome'["deadlocks"] = outcome["deadlocks"] + mine["deadlocks"]
      <4>1. {"total", "successful", "deadlocks"} \subseteq Fields \ {"incomplete"}
        BY DEF Fields
      <4>2. CASE outcome' = MergeWorker(outcome, mine)
        <5>1. \A f \in Fields \ {"incomplete"} : outcome'[f] = outcome[f] + mine[f]
          BY <1>0, <4>2, Merged
        <5>2. QED
          BY <4>1, <5>1
      <4>3. CASE outcome' = Sum2(outcome, mine)
        <5>1. \A f \in Fields : outcome'[f] = outcome[f] + mine[f]
          BY <1>0, <4>3, AddedUp
        <5>2. QED
          BY <4>1, <5>1
      <4>4. QED
        BY <3>1, <4>2, <4>3
    <3>5. recorded' = recorded /\ Answered' = Answered
      BY <2>1 DEF CallerStops, Answered
    <3>6. QED
      BY <1>2, <1>4, <1>5, <3>2, <3>3, <3>4, <3>5
  <2>2. CASE CallerDies(w)
    <3>1. outcome' = Plus(outcome, {"errors", "incomplete"}) /\ recorded' = Counted("Crash") /\ "Crash" \in CallOutcome
      BY <2>2 DEF CallerDies, WorkerDies, CallOutcome
    <3>2. OneMore(outcome, {"errors", "incomplete"}, outcome') /\ Tallied({"errors", "incomplete"})
      BY <1>0, <3>1, PlusIsOneMore DEF Tallied
    <3>3. Balanced(outcome)'
      BY <1>0, <1>2, <3>2, BalancedAdds DEF Balanced
    <3>4. /\ outcome'["total"] = outcome["total"] /\ outcome'["successful"] = outcome["successful"]
          /\ outcome'["deadlocks"] = outcome["deadlocks"]
      BY <3>2, FieldNames DEF OneMore
    <3>5. /\ SumFunction(recorded') = SumFunction(recorded) + 1 /\ Answered' = Answered
          /\ recorded'["Deadlock"] = recorded["Deadlock"]
      BY <1>0, <3>1, CountedOnce
    <3>6. QED
      BY <1>2, <1>4, <1>5, <3>3, <3>4, <3>5
  <2>3. QED
    BY <2>1, <2>2
<1>7. \A v \in Sessions : /\ Balanced(own[v])' /\ own'[v]["deadlocks"] = 0 /\ own'[v]["incomplete"] = 0
                          /\ own'[v]["total"] = made'[v] /\ made'[v] <= seen'.total
  BY <1>1 DEF CountsInv, LoadCounts, Balanced
<1>8. LoadCounts' /\ OtherCounts'
  BY <1>1, <1>6, <1>7 DEF LoadCounts, OtherCounts, Balanced
<1>9. QED
  BY <1>6, <1>8 DEF CountsInv

LEMMA CountsKeep == SessionsInv /\ SessionsInv' /\ CountsInv /\ [Next]_scenariosVars => CountsInv'
<1> SUFFICES ASSUME SessionsInv, SessionsInv', CountsInv, [Next]_scenariosVars PROVE CountsInv'
  OBVIOUS
<1>1. CASE kind \in ProbeKinds /\ ProbeStep
  BY <1>1, CountsOfProbes
<1>2. CASE kind = "fuzzer" /\ FuzzStep
  BY <1>2, CountsOfFuzz
<1>3. CASE kind \in LoadKinds /\ (LoadStep \/ LoadEnvironment)
  <2>1. ASSUME NEW w \in Sessions, CallBegins(w) PROVE CountsInv'
    BY <2>1, CountsStay DEF CallBegins, scenarioVars
  <2>2. QED
    BY <1>3, <2>1, CountsOfWindows, CountsOfWindowOpens, CountsOfCalls, CountsOfCallers DEF LoadStep, LoadEnvironment
<1>4. CASE UNCHANGED scenariosVars \/ (CancelScenario /\ UNCHANGED <<probeVars, loadVars, fuzzVars>>)
  BY <1>4, CountsStay DEF CancelScenario, scenariosVars, scenarioVars, loadVars
<1>5. QED
  BY <1>1, <1>2, <1>3, <1>4 DEF Next, Drive, Environment

\* The two books of a run agree: every call that drive counted has an outcome in it,
\* and the recorder knows of each success and each deadlock, and of no fewer calls
\* (ScenarioOutcome, Recorder::record).
THEOREM CountsStayAgreed == Spec => []CountsAgree
<1>1. SessionsInv /\ CountsInv => CountsAgree
  <2> SUFFICES ASSUME SessionsInv, CountsInv, at = "over" PROVE CountsAgree
    BY DEF CountsAgree
  <2>1. /\ outcome.total = outcome["total"] /\ outcome.successful = outcome["successful"]
        /\ outcome.hangs = outcome["hangs"] /\ outcome.deadlocks = outcome["deadlocks"]
        /\ outcome.errors = outcome["errors"]
    OBVIOUS
  <2>2. /\ outcome["total"] \in Nat /\ outcome["successful"] \in Nat /\ outcome["deadlocks"] \in Nat
        /\ Balanced(outcome)
    BY FieldNames DEF SessionsInv, Fielded, CountsInv
  <2>3. Max({outcome["successful"], outcome["deadlocks"]}) \in {outcome["successful"], outcome["deadlocks"]}
    BY <2>2, MaxOfTwo
  <2>4. Max({outcome.successful, outcome.deadlocks}) <= outcome.total
    BY <2>1, <2>2, <2>3 DEF Balanced
  <2>5. ASSUME ~Warm
        PROVE  /\ outcome["successful"] <= Answered /\ outcome["total"] <= SumFunction(recorded)
               /\ outcome["deadlocks"] = recorded["Deadlock"]
    <3>1. CASE kind \notin LoadKinds
      BY <2>5, <3>1 DEF CountsInv, OtherCounts
    <3>2. CASE kind \in LoadKinds
      <4>1. left = {}
        BY <3>2 DEF SessionsInv, LoadInv
      <4>2. OwnSum("total") = 0 /\ OwnSum("successful") = 0
        BY <4>1, SumOfNone DEF OwnSum
      <4>3. QED
        BY <2>2, <3>2, <4>2 DEF CountsInv, LoadCounts
    <3>3. QED
      BY <3>1, <3>2
  <2>6. outcome.total <= outcome.successful + outcome.hangs + outcome.deadlocks + outcome.errors
    BY <2>1, <2>2 DEF Balanced
  <2>7. QED
    BY <2>1, <2>4, <2>5, <2>6 DEF CountsAgree, Answered
<1>2. SessionsInv /\ [Next]_scenariosVars => SessionsInv'
  BY SessionsKeep
<1>3. QED
  BY SessionsBegin, CountsBegin, CountsKeep, <1>1, <1>2, PTL DEF Spec

-----------------------------------------------------------------------------
(***************************************************************************)
(* What a run that passes has done.                                        *)
(***************************************************************************)
Clean == outcome["incomplete"] = 0

\* As Run::execute drives a scenario.
ByRun == plan.factory /\ ~plan.embedded

\* Of a pool, while nothing is left out, the calls made and the workers that are left are
\* as many as the plan asks for.
PoolDone == kind \in PoolProbes /\ ByRun =>
    /\ at \in {"working", "joined"} /\ Clean => outcome["total"] + Cardinality(left) = plan.count
    /\ at = "over" /\ Clean /\ outcome["errors"] = 0 => outcome["total"] = plan.count
    /\ kind = "race_check" /\ at = "over" /\ outcome["errors"] = 0 /\ outcome["divergences"] = 0 =>
          DOMAIN stored = 1..plan.count /\ ~Analyze(stored)

\* The rounds before the n-th that did not come to their end.
UnendedOf(n) == Cardinality((0..(n - 1)) \ ended)

\* The rounds that are behind.
Behind == IF at \in {"close", "last"} THEN round + 1 ELSE round

\* Why cold_start may stop before its last round.
GivenUp == recorded["Disconnected"] + recorded["Timeout"] > 0 \/ outcome["successful"] = 0

\* A round that did not come to its end is an error or a deadlock of the outcome.
RoundsDone == kind \in Rounds /\ ByRun =>
    /\ outcome["deadlocks"] > 0 \/ UnendedOf(Behind) <= outcome["errors"]
    /\ kind = "cold_start" /\ round = 0 /\ (at \in {"start", "round"} \/ (at = "calls" /\ row = 0)) =>
          outcome["successful"] = 0
    /\ at = "last" => GivenUp
    /\ at = "over" => round = plan.count \/ GivenUp

\* The fuzzer makes all its tries, or says why not.
FuzzDone == kind = "fuzzer" =>
    /\ \A c \in FuzzClass \ {"ProtocolError", "Other"} :
          findings[c] > 0 => outcome["errors"] > 0 \/ outcome["deadlocks"] > 0
    /\ at = "over" /\ ByRun => tries = plan.count \/ outcome["errors"] > 0 \/ outcome["deadlocks"] > 0

\* A window that is reached.
Reached == at \in {"window", "working", "joined", "rest"}

Level == [level : Nat, calls : Int, good : BOOLEAN]

\* The levels of a ramp and the phases of a spike that have to run.
Due(l) == l \in Windows /\ (kind = "spike" => l \in plan.timed)

LevelsTyped == levels \in Seq(Level) /\ before \in [Fields -> Nat] /\ (claim = "broke" => kind = "ramp")

\* A load that has begun is at one of its windows or between two.
WindowsInOrder == kind \in LoadKinds /\ Reached =>
    /\ ~InvalidLoad /\ window >= Min(Windows)
    /\ at # "window" => window \in Windows
    /\ kind = "ramp" => (window - plan.count) % plan.step = 0
    /\ kind = "sustained" /\ at = "window" => window = 1

\* Whoever is done with a window has called in it.
WindowDone == kind \in LoadKinds /\ Pooled /\ ByRun /\ Clean =>
    /\ at # "joined"
    /\ at = "working" =>
          /\ outcome["total"] >= before["total"]
          /\ \A w \in 1..Size : w \in left \/ (made[w] > 0 /\ outcome["total"] > before["total"])
    /\ at = "rest" => seen.total > 0

\* Every window that is behind has run, and a level that is called good had calls.
LevelsDone == kind \in LoadKinds /\ Pooled /\ ByRun /\ Clean =>
    /\ Reached => \A l \in Nat : Due(l) /\ l < window => Ran(l)
    /\ at = "over" /\ claim # "broke" /\ outcome["successful"] > 0 => \A l \in Nat : Due(l) => Ran(l)
    /\ kind = "ramp" => \A i \in DOMAIN levels : levels[i].good => levels[i].calls > 0
    /\ kind = "sustained" /\ at = "over" /\ outcome["successful"] > 0 => \A w \in 1..plan.count : made[w] > 0

DoneInv == PoolDone /\ RoundsDone /\ FuzzDone /\ LevelsTyped /\ WindowsInOrder /\ WindowDone /\ LevelsDone

LEMMA DoneBegins == Init => DoneInv
<1> SUFFICES ASSUME Init PROVE DoneInv
  OBVIOUS
<1>1. /\ at = "start" /\ round = 0 /\ ended = {} /\ outcome = NoOutcome /\ outcome["successful"] = 0 /\ outcome["errors"] = 0
      /\ levels = <<>> /\ before = NoOutcome /\ findings = [c \in FuzzClass |-> 0]
  BY FieldsAre, FieldNames DEF Init, ScenarioInit, ProbeIdle, LoadIdle, FuzzIdle
<1>2. UnendedOf(Behind) = 0
  BY <1>1, FS_EmptySet DEF UnendedOf, Behind
<1>3. PoolDone /\ RoundsDone
  BY <1>1, <1>2 DEF PoolDone, RoundsDone
<1>4. FuzzDone
  BY <1>1 DEF FuzzDone
<1>5. LevelsTyped /\ WindowsInOrder /\ WindowDone
  BY <1>1, FieldsAre DEF Init, LoadIdle, LevelsTyped, WindowsInOrder, WindowDone, Reached
<1>6. LevelsDone
  BY <1>1 DEF LevelsDone, Reached
<1>7. QED
  BY <1>3, <1>4, <1>5, <1>6 DEF DoneInv

LEMMA DoneStays ==
    ASSUME DoneInv, UNCHANGED <<kind, plan, at, left, session, outcome, recorded, probeVars, fuzzVars>>,
           UNCHANGED <<window, closed, made, own, mid, quit, before, seen, levels, claim>>
    PROVE  DoneInv'
<1> USE DEF probeVars, fuzzVars
<1>1. PoolDone' /\ RoundsDone' /\ FuzzDone' /\ LevelsTyped'
  BY DEF DoneInv, PoolDone, RoundsDone, FuzzDone, LevelsTyped, ByRun, Clean, UnendedOf, Behind, GivenUp, Analyze
<1>2. WindowsInOrder'
  BY DEF DoneInv, WindowsInOrder, Reached, InvalidLoad, Windows
<1>3. WindowDone'
  BY DEF DoneInv, WindowDone, Pooled, ByRun, Clean, Size
<1>4. LevelsDone'
  BY DEF DoneInv, LevelsDone, Pooled, ByRun, Clean, Reached, Due, Windows, Ran
<1>5. QED
  BY <1>1, <1>2, <1>3, <1>4 DEF DoneInv

\* A scenario does nothing of another one.
LEMMA DoneElsewhere ==
    ASSUME DoneInv, kind' = kind, plan' = plan
    PROVE  /\ kind \notin PoolProbes => PoolDone'
           /\ kind \notin Rounds => RoundsDone'
           /\ kind # "fuzzer" => FuzzDone'
           /\ kind \notin LoadKinds => WindowsInOrder' /\ WindowDone' /\ LevelsDone'
           /\ UNCHANGED loadVars => LevelsTyped'
BY DEF DoneInv, PoolDone, RoundsDone, FuzzDone, WindowsInOrder, WindowDone, LevelsDone, LevelsTyped, loadVars

\* Nobody can cancel the token of Run::execute.
LEMMA NeverCancelled == Fielded /\ ByRun => ~cancelled /\ plan.factory
BY DEF Fielded, ByRun

LEMMA PoolDoneKeeps ==
    ASSUME SessionsInv, PoolDone, kind \in PoolProbes, ProbeStep
    PROVE  PoolDone'
<1>0. /\ Fielded /\ Sound /\ outcome \in [Fields -> Nat] /\ plan.count \in Nat /\ kind' = kind /\ plan' = plan
      /\ kind \notin Rounds /\ left \subseteq Sessions /\ IsFiniteSet(left)
  <2>1. Fielded /\ Sound /\ kind \in ProbeKinds /\ kind \notin Rounds
    BY KindsAreApart DEF SessionsInv
  <2>2. kind' = kind /\ plan' = plan
    BY DEF ProbeStep, RefusePlan, SkipPlan, Return, ProbeMain, ProbePool, ProbeJoined, BeginRounds, RoundsEnd,
           RoundSpawnFails, RoundSpawned, RoundCall, RowDone, RoundShutdown, ProbeCancelled, ProbeWorker,
           ProbeWorkerDies
  <2>3. IsFiniteSet(left)
    BY <2>1, SessionsAssumption, FS_Subset DEF Fielded
  <2>4. QED
    BY <2>1, <2>2, <2>3, PlanIsTyped DEF Fielded
<1> SUFFICES ASSUME ByRun PROVE PoolDone'
  BY <1>0 DEF PoolDone, ByRun
<1>1. ~cancelled /\ plan.factory
  BY <1>0, NeverCancelled
<1>2. CASE RefusePlan
  <2>1. at' = "over" /\ outcome' = Plus(NoOutcome, {"errors"})
    BY <1>2 DEF RefusePlan, Return
  <2>2. outcome'["errors"] = 1
    BY <2>1, FieldsAre, FieldNames, Added
  <2>3. QED
    BY <2>1, <2>2 DEF PoolDone
<1>3. CASE ProbeMain
  <2>1. /\ at = "start" /\ at' = "over" /\ plan.count = 1 /\ kind = "deadlock_probe"
        /\ \E r \in HangOutcomes : outcome' = Plus(outcome, TallyProbe(r))
    BY <1>1, <1>3 DEF ProbeMain, Over
  <2>2. PICK r \in HangOutcomes : outcome' = Plus(outcome, TallyProbe(r))
    BY <2>1
  <2>3. outcome["total"] = 0
    BY <1>0, <2>1, FieldsAre, FieldNames DEF Fielded
  <2>4. outcome'["total"] = 1
    BY <1>0, <2>2, <2>3, Tallies, Added, FieldNames
  <2>5. QED
    BY <1>0, <2>1, <2>4 DEF PoolDone
<1>4. CASE ProbePool
  <2>1. PoolOpens(plan.count, "working", "joined") /\ plan.count > 0 /\ at = "start"
    BY <1>0, <1>4 DEF ProbePool, InvalidPlan, PoolProbes
  <2>2. \A s \in Sessions \ {0} : Resting(s)
    BY <1>0, <2>1 DEF Fielded, Resting
  <2>3. /\ \A f \in Fields \ {"errors", "incomplete", "teardown"} : outcome'[f] = outcome[f]
        /\ outcome'["incomplete"] = 0 => at' = "working" /\ left' = 1..plan.count
        /\ at' \in {"joined", "working"}
    BY <1>0, <1>1, <2>1, <2>2, PoolOpened
  <2>4. outcome'["total"] = 0
    <3>1. outcome["total"] = 0
      BY <1>0, <2>1, FieldsAre, FieldNames DEF Fielded
    <3>2. QED
      BY <2>3, <3>1, FieldNames
  <2>5. Cardinality(1..plan.count) = plan.count
    BY <1>0, FS_Interval
  <2>6. QED
    BY <1>0, <2>3, <2>4, <2>5 DEF PoolDone, Clean
<1>5. ASSUME NEW w \in Sessions, ProbeWorker(w) PROVE PoolDone'
  <2>1. PICK r \in HangOutcomes, end \in {"closed", "unsure"} :
          outcome' = MergeWorker(outcome, Plus(NoOutcome, TallyProbe(r) \cup Failed(end)))
    BY <1>5 DEF ProbeWorker
  <2> DEFINE mine == Plus(NoOutcome, TallyProbe(r) \cup Failed(end))
  <2>2. mine \in [Fields -> Nat] /\ mine["total"] = 1 /\ mine["incomplete"] = 0
    <3>1. "incomplete" \notin Failed(end)
      BY DEF Failed
    <3>2. QED
      BY <3>1, FieldsAre, FieldNames, Added, Tallies
  <2> HIDE DEF mine
  <2>3. outcome'["total"] = outcome["total"] + 1 /\ outcome'["incomplete"] = outcome["incomplete"]
    <3>1. outcome' = MergeWorker(outcome, mine)
      BY <2>1 DEF mine
    <3>2. \A f \in Fields : outcome'[f] = IF f = "incomplete" /\ mine["total"] = 0 THEN outcome[f] + mine[f] + 1
                                          ELSE outcome[f] + mine[f]
      BY <1>0, <2>2, <3>1, Merged
    <3>3. outcome["incomplete"] \in Nat
      BY <1>0, FieldNames
    <3>4. QED
      BY <2>2, <3>2, <3>3, FieldNames
  <2>4. at = "working" /\ at' = at /\ left' = left \ {w} /\ w \in left
    BY <1>5 DEF ProbeWorker
  <2>5. Cardinality(left) \in Nat /\ Cardinality(left') = Cardinality(left) - 1
    BY <1>0, <2>4, FS_CardinalityType, FS_RemoveElement
  <2>6. outcome["total"] \in Nat
    BY <1>0, FieldNames
  <2>7. QED
    BY <1>0, <2>3, <2>4, <2>5, <2>6 DEF PoolDone, Clean
<1>6. ASSUME NEW w \in Sessions, ProbeWorkerDies(w) PROVE PoolDone'
  <2>1. outcome' = Plus(outcome, {"errors", "incomplete"}) /\ at' = "working"
    BY <1>6 DEF ProbeWorkerDies, WorkerDies
  <2>2. outcome'["incomplete"] > 0
    BY <1>0, <2>1, Added, FieldNames
  <2>3. QED
    BY <2>1, <2>2 DEF PoolDone, Clean
<1>7. CASE ProbeJoined
  <2>1. at \in {"working", "joined"} /\ at' = "over" /\ left = {} /\ UNCHANGED stored
        /\ outcome' = IF kind = "race_check" THEN JudgeResponses ELSE outcome
    BY <1>7 DEF ProbeJoined, Return, SessionsInv, PoolProbeInv, probeVars
  <2>2. outcome["total"] \in Nat /\ Cardinality(left) = 0
    BY <1>0, <2>1, FieldNames, FS_EmptySet
  <2>3. DOMAIN stored \subseteq 1..plan.count
    BY DEF SessionsInv, PoolProbeInv
  <2>4. /\ outcome'["total"] = outcome["total"] /\ outcome'["incomplete"] = outcome["incomplete"]
    BY <2>1, <2>3, Judged, FieldNames
  <2>5. kind = "race_check" /\ outcome'["errors"] = 0 /\ outcome'["divergences"] = 0 =>
           DOMAIN stored = 1..plan.count /\ ~Analyze(stored)
    BY <2>1, <2>3, Judged
  <2>6. QED
    BY <1>0, <2>1, <2>2, <2>4, <2>5 DEF PoolDone, Clean, Analyze
<1>8. ~SkipPlan /\ ~BeginRounds /\ ~RoundsEnd /\ ~RoundSpawnFails /\ ~RoundSpawned /\ ~RoundCall /\ ~RowDone /\ ~RoundShutdown
      /\ \A w \in Sessions : ~ProbeCancelled(w)
  <2>1. at \in {"start", "working", "joined", "over"}
    BY DEF SessionsInv, PoolProbeInv
  <2>2. QED
    BY <1>0, <1>1, <2>1 DEF SkipPlan, BeginRounds, RoundsEnd, RoundSpawnFails, RoundSpawned, RoundCall, RowDone,
       RoundShutdown, ProbeCancelled, Rounds
<1>9. QED
  BY <1>2, <1>3, <1>4, <1>5, <1>6, <1>7, <1>8 DEF ProbeStep

-----------------------------------------------------------------------------
\* Another round is behind, whether it ended or not.
LEMMA OneRoundMore ==
    ASSUME ended \subseteq Nat, round \in Nat
    PROVE  /\ UnendedOf(round) \in Nat
           /\ UnendedOf(round + 1) \in Nat /\ UnendedOf(round + 1) <= UnendedOf(round) + 1
           /\ Cardinality((0..((round + 1) - 1)) \ (ended \cup {round})) = UnendedOf(round)
<1> DEFINE U == (0..(round - 1)) \ ended
<1>1. IsFiniteSet(0..(round - 1))
  BY FS_Interval
<1>2. IsFiniteSet(U) /\ Cardinality(U) \in Nat
  BY <1>1, FS_Subset, FS_CardinalityType
<1>3. IsFiniteSet(U \cup {round}) /\ Cardinality(U \cup {round}) <= Cardinality(U) + 1
      /\ Cardinality(U \cup {round}) \in Nat
  <2>1. IsFiniteSet(U \cup {round}) /\ round \notin U
    BY <1>2, FS_AddElement
  <2>2. Cardinality(U \cup {round}) = Cardinality(U) + 1
    BY <1>2, <2>1, FS_AddElement
  <2>3. QED
    BY <1>2, <2>1, <2>2
<1>4. (0..((round + 1) - 1)) \ ended \subseteq U \cup {round}
  OBVIOUS
<1>5. UnendedOf(round + 1) \in Nat /\ UnendedOf(round + 1) <= Cardinality(U \cup {round})
  BY <1>3, <1>4, FS_Subset, FS_CardinalityType DEF UnendedOf
<1>6. (0..((round + 1) - 1)) \ (ended \cup {round}) = U
  OBVIOUS
<1>7. UnendedOf(round) = Cardinality(U)
  BY DEF UnendedOf
<1>8. Cardinality((0..((round + 1) - 1)) \ (ended \cup {round})) = UnendedOf(round)
  BY <1>6, <1>7
<1> HIDE DEF U
<1>9. UnendedOf(round + 1) <= UnendedOf(round) + 1
  BY <1>2, <1>3, <1>5, <1>7
<1>10. QED
  BY <1>2, <1>5, <1>7, <1>8, <1>9

\* A session that is lost is recorded as lost, but for the warm-up.
LEMMA LossIsRecorded ==
    ASSUME recorded \in [CallOutcome -> Nat], NEW c \in {"Disconnected", "Timeout"}, recorded' = Counted(c)
    PROVE  recorded'["Disconnected"] + recorded'["Timeout"] > 0
<1>1. {"Disconnected", "Timeout"} \subseteq CallOutcome
  BY DEF CallOutcome
<1>2. recorded["Disconnected"] \in Nat /\ recorded["Timeout"] \in Nat
  BY <1>1
<1>3. \A d \in CallOutcome : recorded'[d] = IF d = c THEN recorded[d] + 1 ELSE recorded[d]
  BY <1>1, CountedMore
<1>4. QED
  BY <1>1, <1>2, <1>3

LEMMA RoundsDoneKeep ==
    ASSUME SessionsInv, RoundsDone, kind \in Rounds, ProbeStep
    PROVE  RoundsDone'
<1>0. /\ Fielded /\ outcome \in [Fields -> Nat] /\ recorded \in [CallOutcome -> Nat] /\ plan.count \in Nat
      /\ kind' = kind /\ plan' = plan
      /\ kind \notin PoolProbes /\ round \in Nat /\ ended \subseteq Nat
      /\ at \in {"start", "round", "calls", "close", "last", "over"}
      /\ outcome["errors"] \in Nat /\ outcome["deadlocks"] \in Nat /\ outcome["successful"] \in Nat
  <2>1. Fielded /\ kind \in ProbeKinds /\ kind \notin PoolProbes
    BY KindsAreApart DEF SessionsInv
  <2>2. kind' = kind /\ plan' = plan
    BY DEF ProbeStep, RefusePlan, SkipPlan, Return, ProbeMain, ProbePool, ProbeJoined, BeginRounds, RoundsEnd,
           RoundSpawnFails, RoundSpawned, RoundCall, RowDone, RoundShutdown, ProbeCancelled, ProbeWorker,
           ProbeWorkerDies
  <2>3. round \in Nat /\ ended \subseteq Nat /\ at \in {"start", "round", "calls", "close", "last", "over"}
    BY DEF SessionsInv, ProbeTyped, RoundInv
  <2>4. outcome \in [Fields -> Nat] /\ recorded \in [CallOutcome -> Nat]
    BY <2>1 DEF Fielded
  <2>5. QED
    BY <2>1, <2>2, <2>3, <2>4, PlanIsTyped, FieldNames
<1> SUFFICES ASSUME ByRun PROVE RoundsDone'
  BY <1>0 DEF RoundsDone, ByRun
<1>1. ~cancelled /\ plan.factory
  BY <1>0, NeverCancelled
<1>2. /\ outcome["deadlocks"] > 0 \/ UnendedOf(Behind) <= outcome["errors"]
      /\ kind = "cold_start" /\ round = 0 /\ (at \in {"start", "round"} \/ (at = "calls" /\ row = 0)) =>
            outcome["successful"] = 0
      /\ at = "last" => GivenUp
  BY DEF RoundsDone
<1>3. /\ UnendedOf(round) \in Nat
      /\ UnendedOf(round + 1) \in Nat /\ UnendedOf(round + 1) <= UnendedOf(round) + 1
      /\ Cardinality((0..((round + 1) - 1)) \ (ended \cup {round})) = UnendedOf(round)
  BY <1>0, OneRoundMore
<1>4. CASE RefusePlan
  <2>1. at = "start" /\ at' = "over" /\ outcome' = Plus(NoOutcome, {"errors"}) /\ UNCHANGED <<round, ended>>
    BY <1>4 DEF RefusePlan, Return, probeVars
  <2>2. outcome'["errors"] = 1 /\ outcome'["successful"] = 0
    BY <2>1, FieldsAre, FieldNames, Added
  <2>3. outcome["errors"] = 0 /\ outcome["deadlocks"] = 0
    BY <1>0, <2>1, FieldsAre, FieldNames DEF Fielded
  <2>4. UnendedOf(Behind)' = UnendedOf(round) /\ Behind = round
    BY <2>1 DEF UnendedOf, Behind
  <2>5. QED
    BY <1>2, <1>3, <2>1, <2>2, <2>3, <2>4 DEF RoundsDone, GivenUp
<1>5. CASE BeginRounds
  <2>1. at = "start" /\ at' = "round" /\ UNCHANGED <<outcome, round, ended>>
    BY <1>5 DEF BeginRounds, probeVars
  <2>2. UnendedOf(Behind)' = UnendedOf(Behind)
    BY <2>1 DEF UnendedOf, Behind
  <2>3. QED
    BY <1>0, <1>2, <2>1, <2>2 DEF RoundsDone
<1>6. CASE RoundsEnd
  <2>1. /\ at = "round" /\ at' = "over" /\ round = plan.count /\ UNCHANGED <<outcome, recorded, round, row, ended>>
    BY <1>1, <1>6 DEF RoundsEnd, Return, probeVars
  <2>2. UnendedOf(Behind)' = UnendedOf(Behind)
    BY <2>1 DEF UnendedOf, Behind
  <2>3. QED
    BY <1>0, <1>2, <2>1, <2>2 DEF RoundsDone
<1>7. CASE RoundSpawnFails
  <2>1. PICK e \in SessionErrors :
          /\ recorded' = Recording(ClassifyError(e))
          /\ at' = IF kind = "cold_start" /\ IsTerminalError(e) THEN "over" ELSE "round"
    BY <1>7 DEF RoundSpawnFails
  <2>2. at = "round" /\ outcome' = Plus(outcome, {"errors"}) /\ round' = round + 1 /\ ended' = ended
    BY <1>7 DEF RoundSpawnFails
  <2>3. /\ outcome'["errors"] = outcome["errors"] + 1 /\ outcome'["deadlocks"] = outcome["deadlocks"]
        /\ outcome'["successful"] = outcome["successful"]
    BY <1>0, <2>2, Added, FieldNames
  <2>4. UnendedOf(Behind)' = UnendedOf(round + 1) /\ Behind = round
    BY <2>1, <2>2 DEF UnendedOf, Behind
  <2>5. outcome'["deadlocks"] > 0 \/ UnendedOf(Behind)' <= outcome'["errors"]
    BY <1>0, <1>2, <1>3, <2>3, <2>4
  <2>6. at' = "over" => GivenUp'
    <3> SUFFICES ASSUME at' = "over" PROVE GivenUp'
      OBVIOUS
    <3>1. IsTerminalError(e) /\ kind = "cold_start"
      BY <2>1
    <3>2. ClassifyError(e) \in {"Disconnected", "Timeout"}
      BY <3>1 DEF IsTerminalError, ClassifyError
    <3>3. CASE Discard
      BY <1>2, <2>2, <2>3, <3>3 DEF Discard, GivenUp
    <3>4. CASE ~Discard
      <4>1. recorded' = Counted(ClassifyError(e))
        BY <2>1, <3>4 DEF Recording
      <4>2. QED
        BY <1>0, <3>2, <4>1, LossIsRecorded DEF GivenUp
    <3>5. QED
      BY <3>3, <3>4
  <2>7. at' # "last" /\ round' # 0
    BY <1>0, <2>1, <2>2
  <2>8. QED
    BY <2>5, <2>6, <2>7 DEF RoundsDone
<1>8. CASE RoundSpawned
  <2>1. at = "round" /\ at' = "calls" /\ UNCHANGED <<outcome, round, ended>>
    BY <1>8 DEF RoundSpawned
  <2>2. UnendedOf(Behind)' = UnendedOf(Behind)
    BY <2>1 DEF UnendedOf, Behind
  <2>3. QED
    BY <1>0, <1>2, <2>1, <2>2 DEF RoundsDone
<1>9. CASE RoundCall
  <2>1. PICK r \in HangOutcomes :
          /\ outcome' = Plus(outcome, Tally(r))
          /\ recorded' = Recording(RecordedAs(r))
          /\ at' = IF kind = "cold_start" /\ Ends(r) THEN "last"
                   ELSE IF RowEndsAt(r) THEN "close" ELSE "calls"
    BY <1>9 DEF RoundCall
  <2>2. at = "calls" /\ row < RowLength /\ row' = row + 1 /\ row \in Nat /\ UNCHANGED <<round, ended>>
    BY <1>9 DEF RoundCall, SessionsInv, ProbeTyped
  <2>3. /\ outcome'["errors"] = IF "errors" \in Tally(r) THEN outcome["errors"] + 1 ELSE outcome["errors"]
        /\ outcome'["deadlocks"] = IF "deadlocks" \in Tally(r) THEN outcome["deadlocks"] + 1 ELSE outcome["deadlocks"]
        /\ outcome'["successful"] = IF "successful" \in Tally(r) THEN outcome["successful"] + 1 ELSE outcome["successful"]
    BY <1>0, <2>1, Added, FieldNames
  <2>4. Ends(r) => /\ r.verdict = "Err" /\ RecordedAs(r) \in {"Disconnected", "Timeout"}
                   /\ "errors" \in Tally(r) /\ "successful" \notin Tally(r)
    BY ClassesOfCalls, Tallies
  <2>5. r.verdict = "Deadlock" => "deadlocks" \in Tally(r)
    BY Tallies
  <2>6. outcome'["deadlocks"] > 0 \/ UnendedOf(Behind)' <= outcome'["errors"]
    <3>1. Behind = round
      BY <2>2 DEF Behind
    <3>2. CASE at' = "calls"
      <4>1. UnendedOf(Behind)' = UnendedOf(round)
        BY <2>2, <3>2 DEF UnendedOf, Behind
      <4>2. QED
        BY <1>0, <1>2, <1>3, <2>3, <3>1, <4>1
    <3>3. CASE at' # "calls"
      <4>1. Ends(r) \/ r.verdict = "Deadlock"
        BY <2>1, <3>3 DEF RowEndsAt
      <4>2. UnendedOf(Behind)' = UnendedOf(round + 1)
        <5>1. at' \in {"close", "last"}
          BY <2>1, <3>3
        <5>2. QED
          BY <2>2, <5>1 DEF UnendedOf, Behind
      <4>3. QED
        BY <1>0, <1>2, <1>3, <2>3, <2>4, <2>5, <3>1, <4>1, <4>2
    <3>4. QED
      BY <3>2, <3>3
  <2>7. at' = "last" => GivenUp'
    <3> SUFFICES ASSUME at' = "last" PROVE GivenUp'
      OBVIOUS
    <3>1. Ends(r) /\ kind = "cold_start"
      BY <2>1
    <3>2. CASE Discard
      <4>1. row = 0 /\ round = 0
        BY <2>2, <3>1, <3>2 DEF RowLength, Discard
      <4>2. QED
        BY <1>2, <2>2, <2>3, <2>4, <3>1, <4>1 DEF GivenUp
    <3>3. CASE ~Discard
      <4>1. recorded' = Counted(RecordedAs(r))
        BY <2>1, <3>3 DEF Recording
      <4>2. QED
        BY <1>0, <2>4, <3>1, <4>1, LossIsRecorded DEF GivenUp
    <3>4. QED
      BY <3>2, <3>3
  <2>8. at' \in {"calls", "close", "last"} /\ row' # 0
    BY <2>1, <2>2
  <2>9. QED
    BY <2>6, <2>7, <2>8 DEF RoundsDone
<1>10. CASE RowDone
  <2>1. at = "calls" /\ at' = "close" /\ ended' = ended \cup {round} /\ UNCHANGED <<outcome, round>>
    BY <1>1, <1>10 DEF RowDone
  <2>2. UnendedOf(Behind)' = UnendedOf(round) /\ Behind = round
    <3>1. Behind' = round + 1 /\ Behind = round
      BY <2>1 DEF Behind
    <3>2. UnendedOf(Behind)' = Cardinality((0..((round + 1) - 1)) \ (ended \cup {round}))
      BY <2>1, <3>1 DEF UnendedOf
    <3>3. QED
      BY <1>3, <3>1, <3>2
  <2>3. QED
    BY <1>2, <2>1, <2>2 DEF RoundsDone
<1>11. CASE RoundShutdown
  <2>1. PICK end \in {"closed", "unsure"} : outcome' = Plus(outcome, Failed(end))
    BY <1>11 DEF RoundShutdown
  <2>2. /\ at \in {"close", "last"} /\ at' = (IF at = "last" THEN "over" ELSE "round") /\ round' = round + 1
        /\ UNCHANGED <<recorded, ended>>
    BY <1>11 DEF RoundShutdown
  <2>3. /\ outcome'["errors"] = outcome["errors"] /\ outcome'["deadlocks"] = outcome["deadlocks"]
        /\ outcome'["successful"] = outcome["successful"]
    <3>1. {"errors", "deadlocks", "successful"} \cap Failed(end) = {}
      BY DEF Failed
    <3>2. QED
      BY <1>0, <2>1, <3>1, Added, FieldNames
  <2>4. UnendedOf(Behind)' = UnendedOf(Behind)
    <3>1. Behind = round + 1 /\ Behind' = round + 1
      BY <2>2 DEF Behind
    <3>2. QED
      BY <2>2, <3>1 DEF UnendedOf
  <2>5. at = "last" => GivenUp'
    BY <1>2, <2>2, <2>3 DEF GivenUp
  <2>6. at' # "last" /\ round' # 0 /\ (at' = "over" => at = "last")
    BY <1>0, <2>2
  <2>7. QED
    BY <1>2, <2>3, <2>4, <2>5, <2>6 DEF RoundsDone
<1>12. /\ ~SkipPlan /\ ~ProbeMain /\ ~ProbePool /\ ~ProbeJoined
       /\ \A w \in Sessions : ~ProbeCancelled(w) /\ ~ProbeWorker(w) /\ ~ProbeWorkerDies(w)
  BY <1>0, <1>1 DEF SkipPlan, ProbeMain, ProbePool, ProbeJoined, ProbeCancelled, ProbeWorker, ProbeWorkerDies, PoolProbes
<1>13. QED
  BY <1>4, <1>5, <1>6, <1>7, <1>8, <1>9, <1>10, <1>11, <1>12 DEF ProbeStep

-----------------------------------------------------------------------------
LEMMA FuzzDoneKeeps ==
    ASSUME SessionsInv, FuzzDone, kind = "fuzzer", FuzzStep
    PROVE  FuzzDone'
<1>0. /\ Fielded /\ outcome \in [Fields -> Nat] /\ kind' = kind /\ plan' = plan
      /\ findings \in [FuzzClass -> Nat] /\ outcome["errors"] \in Nat /\ outcome["deadlocks"] \in Nat
  <2>1. Fielded /\ outcome \in [Fields -> Nat] /\ findings \in [FuzzClass -> Nat]
    BY DEF SessionsInv, Fielded, FuzzInv
  <2>2. kind' = kind /\ plan' = plan
    BY DEF FuzzStep, FuzzBegins, FuzzEnds, SkipRaw, ProbeCall, RawProbe, Respawn, scenarioVars
  <2>3. QED
    BY <2>1, <2>2, FieldNames
<1> DEFINE Bad == outcome["errors"] > 0 \/ outcome["deadlocks"] > 0
           Told == \A c \in FuzzClass \ {"ProtocolError", "Other"} : findings[c] > 0 => Bad
<1>1. Told
  BY DEF FuzzDone
<1>2. ASSUME NEW class \in FuzzClass, NEW s, findings' = Found(class), outcome' = Plus(outcome, s),
             class \notin {"ProtocolError", "Other"} => "errors" \in s \/ "deadlocks" \in s
      PROVE  Told' /\ (class \notin {"ProtocolError", "Other"} => Bad')
  <2>1. /\ outcome'["errors"] = IF "errors" \in s THEN outcome["errors"] + 1 ELSE outcome["errors"]
        /\ outcome'["deadlocks"] = IF "deadlocks" \in s THEN outcome["deadlocks"] + 1 ELSE outcome["deadlocks"]
    BY <1>0, <1>2, Added, FieldNames
  <2>2. (Bad => Bad') /\ (class \notin {"ProtocolError", "Other"} => Bad')
    BY <1>0, <1>2, <2>1
  <2>3. \A c \in FuzzClass \ {class} : findings'[c] = findings[c]
    BY <1>0, <1>2 DEF Found
  <2>4. QED
    BY <1>1, <2>2, <2>3
<1>3. CASE FuzzBegins
  BY <1>0, <1>1, <1>3 DEF FuzzDone, FuzzBegins, fuzzVars
<1>4. CASE FuzzEnds
  <2>1. ByRun => tries = plan.count
    BY <1>0, <1>4, NeverCancelled DEF FuzzEnds
  <2>2. QED
    BY <1>0, <1>1, <1>4, <2>1 DEF FuzzDone, FuzzEnds, fuzzVars, ByRun
<1>5. CASE SkipRaw
  <2>1. findings' = Found("Other") /\ outcome' = outcome /\ at' = "fuzz"
    BY <1>5 DEF SkipRaw, Try, scenarioVars
  <2>2. \A c \in FuzzClass \ {"Other"} : findings'[c] = findings[c]
    BY <1>0, <2>1 DEF Found
  <2>3. QED
    BY <1>1, <2>1, <2>2 DEF FuzzDone
<1>6. CASE ProbeCall
  <2>1. PICK r \in HangOutcomes :
           /\ findings' = Found(ClassOfCall(r)) /\ outcome' = Plus(outcome, FieldsOfCall(r))
           /\ at' = IF FuzzStops(ClassOfCall(r)) THEN "over" ELSE "fuzz"
    BY <1>6, CallOfFuzz
  <2>2. /\ ClassOfCall(r) \in FuzzClass
        /\ ClassOfCall(r) # "ProtocolError" => "errors" \in FieldsOfCall(r) \/ "deadlocks" \in FieldsOfCall(r)
    BY FieldsOfFuzz
  <2>3. Told' /\ (ClassOfCall(r) \notin {"ProtocolError", "Other"} => Bad')
    BY <1>2, <2>1, <2>2
  <2>4. at' = "over" => ClassOfCall(r) \notin {"ProtocolError", "Other"}
    BY <2>1 DEF FuzzStops
  <2>5. QED
    BY <2>3, <2>4 DEF FuzzDone
<1>7. CASE RawProbe
  <2>1. PICK class \in FuzzClass, metric \in CallOutcome, f \in {"successful", "deadlocks", "errors"} :
          /\ findings' = Found(class) /\ outcome' = Plus(outcome, {"total", f})
          /\ f = "successful" <=> class = "ProtocolError"
    BY <1>7, FrameOfFuzz
  <2>2. Told'
    BY <1>2, <2>1
  <2>3. at' = "respawn"
    BY <1>7 DEF RawProbe
  <2>4. QED
    BY <2>2, <2>3 DEF FuzzDone
<1>8. CASE Respawn
  <2>1. PICK s \in SUBSET {"teardown", "errors"} :
          outcome' = Plus(outcome, s) /\ (at' = "over" => "errors" \in s)
    <3>1. \/ at' = "fuzz" /\ \E end \in {"closed", "unsure"} : outcome' = Plus(outcome, Failed(end))
          \/ at' = "over" /\ outcome' = Plus(outcome, {"errors"})
      BY <1>8 DEF Respawn
    <3>2. \A end : Failed(end) \in SUBSET {"teardown", "errors"}
      BY DEF Failed
    <3>3. QED
      BY <3>1, <3>2
  <2>2. /\ outcome'["errors"] = IF "errors" \in s THEN outcome["errors"] + 1 ELSE outcome["errors"]
        /\ outcome'["deadlocks"] = outcome["deadlocks"]
    BY <1>0, <2>1, Added, FieldNames
  <2>3. findings' = findings
    BY <1>8 DEF Respawn
  <2>4. Told'
    BY <1>0, <1>1, <2>2, <2>3
  <2>5. QED
    BY <1>0, <2>1, <2>2, <2>4 DEF FuzzDone
<1>9. QED
  BY <1>3, <1>4, <1>5, <1>6, <1>7, <1>8 DEF FuzzStep

-----------------------------------------------------------------------------
LEMMA DivMod ==
    ASSUME NEW s \in Nat \ {0}, NEW x \in Int
    PROVE  /\ x = s * (x \div s) + (x % s) /\ x \div s \in Int /\ 0 <= x % s /\ x % s < s
           /\ 0 % s = 0
OBVIOUS

LEMMA NoRest ==
    ASSUME NEW s \in Nat \ {0}, NEW q \in Int, NEW n \in Int, NEW r \in Int, s * q = s * n + r, 0 <= r, r < s
    PROVE  r = 0
OBVIOUS

\* The levels of a ramp are a step apart.
LEMMA StepsApart ==
    ASSUME NEW s \in Nat \ {0}, NEW a \in Int, NEW b \in Int, a % s = 0, b % s = 0
    PROVE  (a + s) % s = 0 /\ (b < a + s => b <= a)
<1> DEFINE q == a \div s
           p == b \div s
           n == (a + s) \div s
           r == (a + s) % s
<1>1. /\ a = s * q /\ b = s * p /\ a + s = s * n + r
      /\ q \in Int /\ p \in Int /\ n \in Int /\ r \in Int /\ 0 <= r /\ r < s
  BY DivMod
<1> HIDE DEF q, p, n, r
<1>2. b < a + s => b <= a
  <2>1. s * p < s * q + s => p <= q
    BY <1>1
  <2>2. p <= q => s * p <= s * q
    BY <1>1
  <2>3. QED
    BY <1>1, <2>1, <2>2
<1>3. r = 0
  <2>1. s * (q + 1) = s * q + s
    BY <1>1
  <2>2. s * (q + 1) = s * n + r
    BY <1>1, <2>1
  <2>3. q + 1 \in Int /\ n \in Int /\ r \in Int
    BY <1>1
  <2>4. QED
    BY <1>1, <2>2, <2>3, NoRest
<1>4. QED
  BY <1>2, <1>3 DEF r

\* The windows follow one another, and after the last of them there is none that is due.
LEMMA WindowsFollow ==
    ASSUME Fielded, kind \in LoadKinds, ~InvalidLoad, NEW v \in Nat, v >= Min(Windows),
           kind = "ramp" => (v - plan.count) % plan.step = 0, kind = "sustained" => v = 1
    PROVE  /\ v \notin Windows => \A l \in Windows : l < v
           /\ v \notin Windows => kind # "sustained"
           /\ kind = "ramp" => /\ (v + plan.step - plan.count) % plan.step = 0
                               /\ \A l \in Windows : l < v + plan.step => l <= v
<1>1. /\ plan.count \in Nat /\ plan.step \in Nat /\ plan.to \in Nat
      /\ Windows \subseteq Nat \ {0} /\ \A l \in Windows : Min(Windows) <= l
      /\ kind = "ramp" => Min(Windows) = plan.count /\ plan.count > 0 /\ plan.step > 0
      /\ kind # "ramp" => Min(Windows) = 1
  BY PlanIsTyped, FirstWindow
<1>2. CASE kind = "ramp"
  <2>1. Windows = {l \in plan.count..plan.to : (l - plan.count) % plan.step = 0}
    BY <1>2 DEF Windows
  <2>2. v \notin Windows => v > plan.to
    BY <1>1, <1>2, <2>1
  <2>3. ASSUME NEW l \in Windows PROVE l < v + plan.step => l <= v
    <3>1. l \in Nat /\ (l - plan.count) % plan.step = 0
      BY <1>1, <2>1
    <3>2. l - plan.count \in Int /\ v - plan.count \in Int /\ plan.step \in Nat \ {0}
      BY <1>1, <1>2, <3>1
    <3>3. l - plan.count < (v - plan.count) + plan.step => l - plan.count <= v - plan.count
      BY <1>2, <3>1, <3>2, StepsApart
    <3>4. QED
      BY <1>1, <3>1, <3>3
  <2>4. ((v - plan.count) + plan.step) % plan.step = 0
    <3>1. v - plan.count \in Int /\ plan.step \in Nat \ {0}
      BY <1>1, <1>2
    <3>2. QED
      BY <1>2, <3>1, StepsApart
  <2>5. v + plan.step - plan.count = (v - plan.count) + plan.step
    BY <1>1
  <2>6. v \notin Windows => \A l \in Windows : l < v
    BY <1>1, <2>1, <2>2
  <2>7. QED
    BY <1>2, <2>3, <2>4, <2>5, <2>6
<1>3. CASE kind = "spike"
  <2>1. Windows = 1..3
    BY <1>3 DEF Windows
  <2>2. QED
    BY <1>1, <1>3, <2>1
<1>4. CASE kind \notin {"ramp", "spike"}
  <2>1. Windows = {1}
    BY <1>4 DEF Windows
  <2>2. QED
    BY <1>1, <1>4, <2>1
<1>5. QED
  BY <1>2, <1>3, <1>4

\* A window that has been gone through is among the levels, and stays there.
LEMMA LevelAdded ==
    ASSUME levels \in Seq(Level), NEW e \in Level, levels' = Append(levels, e)
    PROVE  /\ levels' \in Seq(Level)
           /\ \A l \in Nat : Ran(l) => Ran(l)'
           /\ e.calls > 0 => \A l \in Nat : l = e.level => Ran(l)'
           /\ (\A i \in DOMAIN levels : levels[i].good => levels[i].calls > 0) /\ (e.good => e.calls > 0) =>
                 \A i \in DOMAIN levels' : levels'[i].good => levels'[i].calls > 0
<1>1. /\ levels' \in Seq(Level) /\ Len(levels) \in Nat /\ DOMAIN levels = 1..Len(levels)
      /\ DOMAIN levels' = 1..(Len(levels) + 1)
      /\ \A i \in 1..Len(levels) : levels'[i] = levels[i]
      /\ levels'[Len(levels) + 1] = e
  OBVIOUS
<1>2. ASSUME NEW l \in Nat, Ran(l) PROVE Ran(l)'
  <2>1. PICK i \in DOMAIN levels : levels[i].level = l /\ levels[i].calls > 0
    BY <1>2 DEF Ran
  <2>2. i \in DOMAIN levels' /\ levels'[i] = levels[i]
    BY <1>1
  <2>3. QED
    BY <2>1, <2>2 DEF Ran
<1>3. ASSUME e.calls > 0, NEW l \in Nat, l = e.level PROVE Ran(l)'
  <2>1. Len(levels) + 1 \in DOMAIN levels'
    BY <1>1
  <2>2. QED
    BY <1>1, <1>3, <2>1 DEF Ran
<1>4. ASSUME \A i \in DOMAIN levels : levels[i].good => levels[i].calls > 0, e.good => e.calls > 0,
             NEW i \in DOMAIN levels'
      PROVE  levels'[i].good => levels'[i].calls > 0
  <2>1. CASE i \in 1..Len(levels)
    BY <1>1, <1>4, <2>1
  <2>2. CASE i = Len(levels) + 1
    BY <1>1, <1>4, <2>2
  <2>3. QED
    BY <1>1, <2>1, <2>2
<1>5. QED
  BY <1>1, <1>2, <1>3, <1>4

\* What no step of a load changes.
LEMMA PlanOfLoad ==
    ASSUME LoadStep \/ LoadEnvironment
    PROVE  /\ kind' = kind /\ plan' = plan /\ InvalidLoad' = InvalidLoad /\ Windows' = Windows /\ Pooled' = Pooled
           /\ ByRun' = ByRun /\ \A l : Due(l)' = Due(l)
<1>1. kind' = kind /\ plan' = plan
  BY DEF LoadStep, LoadEnvironment, LoadBegins, WindowsOver, SkipPhase, WindowOpens, WindowJoined, LevelJudged,
         CallBegins, LoadCall, CallerStops, WindowCloses, CallDropped, CallerDies, CallCounted, scenarioVars
<1>2. Windows' = Windows /\ Pooled' = Pooled /\ InvalidLoad' = InvalidLoad /\ ByRun' = ByRun
  BY <1>1 DEF Windows, Pooled, InvalidLoad, ByRun
<1>3. \A l : Due(l)' = Due(l)
  BY <1>1, <1>2 DEF Due
<1>4. QED
  BY <1>1, <1>2, <1>3

LEMMA LevelsTypedKeep ==
    ASSUME SessionsInv, LevelsTyped, kind \in LoadKinds, LoadStep \/ LoadEnvironment
    PROVE  LevelsTyped'
<1>0. /\ outcome \in [Fields -> Nat] /\ before \in [Fields -> Nat] /\ window \in Nat /\ seen.total \in Nat
      /\ kind' = kind /\ claim \in {"none", "completed", "broke"}
      /\ plan.detect \in BOOLEAN /\ levels \in Seq(Level) /\ (claim = "broke" => kind = "ramp")
  BY PlanIsTyped, PlanOfLoad DEF SessionsInv, Fielded, LoadTyped, LevelsTyped
<1>1. CASE UNCHANGED <<levels, before, claim>>
  BY <1>0, <1>1 DEF LevelsTyped
<1>2. CASE WindowsOver
  BY <1>0, <1>2 DEF LevelsTyped, WindowsOver, Finish
<1>3. CASE WindowOpens
  BY <1>0, <1>3 DEF LevelsTyped, WindowOpens
<1>4. CASE WindowJoined
  <2>1. before' = before /\ (claim' = claim \/ claim' = "completed")
    BY <1>4 DEF WindowJoined, Finish
  <2> DEFINE e == [level |-> window, calls |-> outcome.total - before.total, good |-> FALSE]
  <2>2. levels' = levels \/ levels' = Append(levels, e)
    BY <1>4 DEF WindowJoined, Finish
  <2>3. e \in Level
    <3>1. outcome["total"] \in Nat /\ before["total"] \in Nat
      BY <1>0, FieldNames
    <3>2. outcome.total - before.total \in Int
      BY <3>1
    <3>3. QED
      BY <1>0, <3>2 DEF Level
  <2> HIDE DEF e
  <2>4. levels' \in Seq(Level)
    <3>1. CASE levels' = levels
      BY <1>0, <3>1
    <3>2. CASE levels' = Append(levels, e)
      BY <1>0, <2>3, <3>2, LevelAdded
    <3>3. QED
      BY <2>2, <3>1, <3>2
  <2>5. QED
    BY <1>0, <2>1, <2>4 DEF LevelsTyped
<1>5. CASE LevelJudged
  <2>1. before' = before /\ kind = "ramp"
    BY <1>5 DEF LevelJudged
  <2>2. PICK good \in BOOLEAN : levels' = Append(levels, [level |-> window, calls |-> seen.total, good |-> good])
    BY <1>0, <1>5 DEF LevelJudged
  <2>3. [level |-> window, calls |-> seen.total, good |-> good] \in Level
    BY <1>0 DEF Level
  <2>4. levels' \in Seq(Level)
    BY <1>0, <2>2, <2>3
  <2>5. QED
    BY <1>0, <2>1, <2>4 DEF LevelsTyped
<1>6. QED
  BY <1>1, <1>2, <1>3, <1>4, <1>5
     DEF LoadStep, LoadEnvironment, LoadBegins, SkipPhase, CallBegins, LoadCall, CallerStops, WindowCloses, CallDropped,
         CallerDies, CallCounted, loadVars

LEMMA WindowsInOrderKeep ==
    ASSUME SessionsInv, WindowsInOrder, kind \in LoadKinds, LoadStep \/ LoadEnvironment
    PROVE  WindowsInOrder'
<1>0. /\ Fielded /\ window \in Nat /\ plan.count \in Nat /\ plan.step \in Nat
      /\ kind' = kind /\ plan' = plan /\ InvalidLoad' = InvalidLoad /\ Windows' = Windows
      /\ at \in {"start", "window", "working", "joined", "rest", "over"}
  BY PlanIsTyped, PlanOfLoad DEF SessionsInv, LoadTyped, LoadInv
<1>1. Reached => /\ ~InvalidLoad /\ window >= Min(Windows)
                 /\ at # "window" => window \in Windows
                 /\ kind = "ramp" => (window - plan.count) % plan.step = 0
                 /\ kind = "sustained" /\ at = "window" => window = 1
  BY DEF WindowsInOrder
<1>2. ~InvalidLoad => /\ Min(Windows) \in Windows /\ Windows \subseteq Nat
                      /\ kind = "ramp" => Min(Windows) = plan.count /\ plan.step > 0
                      /\ kind # "ramp" => Min(Windows) = 1
  BY <1>0, FirstWindow
<1>3. CASE LoadBegins
  <2>1. at' = (IF InvalidLoad THEN "over" ELSE "window") /\ (~InvalidLoad => window' = Min(Windows))
    BY <1>3 DEF LoadBegins
  <2>2. kind = "ramp" /\ ~InvalidLoad => (window' - plan.count) % plan.step = 0
    <3> SUFFICES ASSUME kind = "ramp", ~InvalidLoad PROVE (window' - plan.count) % plan.step = 0
      OBVIOUS
    <3>1. window' - plan.count = 0 /\ plan.step \in Nat \ {0}
      BY <1>0, <1>2, <2>1
    <3>2. QED
      BY <3>1, DivMod
  <2>3. QED
    BY <1>0, <1>2, <2>1, <2>2 DEF WindowsInOrder, Reached, LoadKinds
<1>4. CASE WindowsOver
  BY <1>4 DEF WindowsOver, Finish, WindowsInOrder, Reached
<1>5. CASE SkipPhase
  <2>1. at = "window" /\ at' = at /\ kind = "spike" /\ window' = window + 1 /\ Reached
    BY <1>5 DEF SkipPhase, Following, scenarioVars, Reached
  <2>2. QED
    BY <1>0, <1>1, <1>2, <2>1 DEF WindowsInOrder
<1>6. CASE WindowOpens
  <2>1. at = "window" /\ at' \in {"working", "joined", "over"} /\ window' = window /\ window \in Windows
    BY <1>6 DEF WindowOpens, PoolOpens
  <2>2. QED
    BY <1>0, <1>1, <2>1 DEF WindowsInOrder, Reached
<1>7. CASE UNCHANGED <<at, window>>
  BY <1>0, <1>1, <1>7 DEF WindowsInOrder, Reached
<1>8. CASE WindowJoined
  <2>1. /\ at \in {"joined", "working"}
        /\ \/ at' = "over"
           \/ at' = "rest" /\ window' = window
           \/ at' = "window" /\ kind = "spike" /\ window' = window + 1
    BY <1>8 DEF WindowJoined, Joined, Finish, Following
  <2>2. QED
    BY <1>0, <1>1, <1>2, <2>1 DEF WindowsInOrder, Reached
<1>9. CASE LevelJudged
  <2>1. /\ at = "rest" /\ kind = "ramp" /\ (at' = "over" \/ (at' = "window" /\ window' = window + plan.step))
    BY <1>9 DEF LevelJudged, Finish, Following
  <2>2. (window + plan.step - plan.count) % plan.step = 0
    BY <1>0, <1>1, <2>1, WindowsFollow DEF Reached
  <2>3. QED
    BY <1>0, <1>1, <1>2, <2>1, <2>2 DEF WindowsInOrder, Reached
<1>10. QED
  BY <1>3, <1>4, <1>5, <1>6, <1>7, <1>8, <1>9
     DEF LoadStep, LoadEnvironment, CallBegins, LoadCall, CallerStops, WindowCloses, CallDropped, CallerDies,
         CallCounted, loadVars, scenarioVars

\* The pool of a window has a worker, and if it is clean it has all of them.
LEMMA PoolOfWindow ==
    ASSUME SessionsInv, WindowsInOrder, kind \in LoadKinds, Pooled, Reached, at # "window" \/ window \in Windows
    PROVE  /\ Size \in Nat /\ Size > 0
           /\ kind = "sustained" => Size = plan.count
           /\ 1 \in 1..Size /\ 1 \in Sessions
<1>1. /\ Fielded /\ ~InvalidLoad /\ window \in Windows /\ window \in Nat
      /\ plan.count \in Nat /\ plan.to \in Nat /\ plan.step \in Nat /\ 1..plan.count \subseteq Sessions
      /\ kind \in {"sustained", "ramp", "spike"}
  BY PlanIsTyped DEF SessionsInv, LoadTyped, WindowsInOrder, Pooled
<1>2. window > 0 /\ plan.count > 0
  BY <1>1, FirstWindow DEF InvalidLoad
<1>3. kind = "spike" => plan.to > 0
  BY <1>1 DEF InvalidLoad
<1>4. Size \in Nat /\ Size > 0 /\ (kind = "sustained" => Size = plan.count)
  BY <1>1, <1>2, <1>3 DEF Size
<1>5. QED
  BY <1>1, <1>2, <1>4

\* Whoever is done with a window has called in it, and the windows that are done were gone through.
LoadsDone == WindowDone /\ LevelsDone

\* What is left out grows only.
LEMMA CleanBefore ==
    ASSUME outcome \in [Fields -> Nat], NEW q, outcome' = q, q \in [Fields -> Nat], q["incomplete"] >= outcome["incomplete"]
    PROVE  Clean' => Clean
<1>1. outcome["incomplete"] \in Nat
  BY FieldNames
<1>2. QED
  BY <1>1 DEF Clean

LEMMA LoadsDoneAtTheEdges ==
    ASSUME SessionsInv, DoneInv, kind \in LoadKinds, LoadBegins \/ WindowsOver \/ SkipPhase \/ WindowCloses
    PROVE  LoadsDone'
<1>0. /\ Fielded /\ outcome \in [Fields -> Nat] /\ window \in Nat
      /\ kind' = kind /\ plan' = plan /\ Windows' = Windows /\ Pooled' = Pooled
      /\ ByRun' = ByRun /\ \A l : Due(l)' = Due(l)
  BY PlanOfLoad DEF SessionsInv, LoadTyped, Fielded, LoadStep, LoadEnvironment
<1> SUFFICES ASSUME Pooled, ByRun PROVE LoadsDone'
  BY <1>0 DEF LoadsDone, WindowDone, LevelsDone
<1>1. /\ Clean => (Reached => \A l \in Nat : Due(l) /\ l < window => Ran(l))
      /\ Clean => (kind = "ramp" => \A i \in DOMAIN levels : levels[i].good => levels[i].calls > 0)
  BY DEF DoneInv, LevelsDone
<1>2. CASE LoadBegins
  <2>1. /\ at = "start" /\ levels' = levels /\ (InvalidLoad => at' = "over")
        /\ ~InvalidLoad => at' = "window" /\ outcome' = outcome /\ window' = Min(Windows)
        /\ outcome' = outcome \/ outcome' = Plus(outcome, {"errors"})
    BY <1>2 DEF LoadBegins
  <2>2. /\ outcome'["successful"] = 0 /\ outcome'["incomplete"] = 0 /\ outcome["incomplete"] = 0
    <3>1. outcome["successful"] = 0 /\ outcome["incomplete"] = 0
      BY <1>0, <2>1, FieldsAre, FieldNames DEF Fielded
    <3>2. QED
      BY <1>0, <2>1, <3>1, Added, FieldNames
  <2>3. WindowDone'
    BY <2>1 DEF WindowDone
  <2>4. ~InvalidLoad => \A l \in Nat : Due(l) /\ l < window' => FALSE
    <3> SUFFICES ASSUME ~InvalidLoad PROVE \A l \in Nat : Due(l) /\ l < window' => FALSE
      OBVIOUS
    <3>1. Windows \subseteq Nat /\ Min(Windows) \in Windows /\ \A l \in Windows : Min(Windows) <= l
      BY <1>0, FirstWindow
    <3>2. window' \in Nat /\ \A l \in Windows : window' <= l
      BY <2>1, <3>1
    <3>3. QED
      BY <3>1, <3>2 DEF Due
  <2>5. LevelsDone'
    BY <1>0, <1>1, <2>1, <2>2, <2>4 DEF LevelsDone, Reached, Clean
  <2>6. QED
    BY <2>3, <2>5 DEF LoadsDone
<1>3. CASE WindowsOver
  <2>1. /\ at = "window" /\ at' = "over" /\ UNCHANGED <<outcome, window, levels, made>> /\ window \notin Windows
    BY <1>0, <1>3, NeverCancelled DEF WindowsOver, Finish
  <2>2. (\A l \in Windows : l < window) /\ kind # "sustained"
    BY <1>0, <2>1, WindowsFollow DEF DoneInv, WindowsInOrder, Reached
  <2>3. Clean => \A l \in Nat : Due(l) => Ran(l)
    BY <1>1, <2>1, <2>2 DEF Due, Reached
  <2>4. WindowDone'
    BY <2>1 DEF WindowDone
  <2>5. LevelsDone'
    BY <1>0, <1>1, <2>1, <2>2, <2>3 DEF LevelsDone, Clean, Reached, Ran
  <2>6. QED
    BY <2>4, <2>5 DEF LoadsDone
<1>4. CASE SkipPhase
  <2>1. /\ at = "window" /\ at' = at /\ UNCHANGED <<outcome, levels>> /\ window' = window + 1
        /\ kind = "spike" /\ window \notin plan.timed
    BY <1>4 DEF SkipPhase, Following, scenarioVars
  <2>2. \A l \in Nat : Due(l) /\ l < window + 1 => l < window
    BY <1>0, <2>1 DEF Due
  <2>3. Clean => \A l \in Nat : Due(l) /\ l < window + 1 => Ran(l)
    BY <1>1, <2>1, <2>2 DEF Reached
  <2>4. WindowDone'
    BY <2>1 DEF WindowDone
  <2>5. LevelsDone'
    BY <1>0, <2>1, <2>3 DEF LevelsDone, Clean, Reached, Ran
  <2>6. QED
    BY <2>4, <2>5 DEF LoadsDone
<1>5. CASE WindowCloses
  <2>1. UNCHANGED <<at, left, outcome, window, made, before, seen, levels, claim>>
    BY <1>5 DEF WindowCloses, scenarioVars
  <2>2. Size' = Size
    BY <1>0, <2>1 DEF Size
  <2>3. WindowDone'
    BY <1>0, <2>1, <2>2 DEF DoneInv, WindowDone, Clean
  <2>4. LevelsDone'
    BY <1>0, <2>1 DEF DoneInv, LevelsDone, Clean, Reached, Ran
  <2>5. QED
    BY <2>3, <2>4 DEF LoadsDone
<1>6. QED
  BY <1>2, <1>3, <1>4, <1>5

LEMMA LoadsDoneInWindows ==
    ASSUME SessionsInv, CountsInv, DoneInv, kind \in LoadKinds,
           WindowOpens \/ \E w \in Sessions : LoadCall(w) \/ CallDropped(w) \/ CallerStops(w) \/ CallerDies(w)
    PROVE  LoadsDone'
<1>0. /\ Fielded /\ Sound /\ outcome \in [Fields -> Nat] /\ before \in [Fields -> Nat] /\ window \in Nat
      /\ kind' = kind /\ plan' = plan /\ Windows' = Windows /\ Pooled' = Pooled
      /\ ByRun' = ByRun /\ \A l : Due(l)' = Due(l)
      /\ outcome["total"] \in Nat /\ outcome["incomplete"] \in Nat /\ before["total"] \in Nat
  <2>1. Fielded /\ Sound /\ outcome \in [Fields -> Nat] /\ before \in [Fields -> Nat] /\ window \in Nat
    BY DEF SessionsInv, LoadTyped, Fielded, DoneInv, LevelsTyped
  <2>2. QED
    BY <2>1, PlanOfLoad, FieldNames DEF LoadStep, LoadEnvironment
<1> SUFFICES ASSUME Pooled, ByRun PROVE LoadsDone'
  BY <1>0 DEF LoadsDone, WindowDone, LevelsDone
<1>1. ~cancelled /\ plan.factory
  BY <1>0, NeverCancelled
<1>2. /\ Clean /\ Reached => \A l \in Nat : Due(l) /\ l < window => Ran(l)
      /\ Clean => (kind = "ramp" => \A i \in DOMAIN levels : levels[i].good => levels[i].calls > 0)
  BY DEF DoneInv, LevelsDone
\* As long as nothing is over, the levels stay as they are.
<1>3. ASSUME UNCHANGED <<window, levels>>, Reached, at' # "over", Clean' => Clean
      PROVE  LevelsDone'
  BY <1>0, <1>2, <1>3 DEF LevelsDone, Ran
<1>4. CASE WindowOpens
  <2>1. /\ at = "window" /\ window \in Windows /\ PoolOpens(Size, "working", "joined")
        /\ before' = outcome /\ UNCHANGED <<window, levels>>
    BY <1>4 DEF WindowOpens
  <2>2. Size \in Nat /\ Size > 0 /\ Size' = Size
    <3>1. Size \in Nat /\ Size > 0
      BY <2>1, PoolOfWindow DEF DoneInv, Reached
    <3>2. Size' = Size
      BY <1>0, <2>1 DEF Size
    <3>3. QED
      BY <3>1, <3>2
  <2>3. \A s \in Sessions \ {0} : Resting(s)
    BY <2>1 DEF SessionsInv, LoadInv
  <2>4. /\ \A f \in Fields \ {"errors", "incomplete", "teardown"} : outcome'[f] = outcome[f]
        /\ \A f \in Fields : outcome'[f] >= outcome[f]
        /\ outcome'["incomplete"] = 0 => at' = "working" /\ left' = 1..Size
        /\ at' \in {"joined", "working"}
    BY <1>0, <1>1, <2>1, <2>2, <2>3, PoolOpened
  <2>5. outcome'["total"] = before'["total"] /\ before'["total"] \in Nat /\ outcome'["incomplete"] >= outcome["incomplete"]
    BY <1>0, <2>1, <2>4, FieldNames
  <2>6. Clean' => Clean
    BY <1>0, <2>5 DEF Clean
  <2>7. WindowDone'
    <3> SUFFICES ASSUME Clean' PROVE WindowDone'
      BY DEF WindowDone
    <3>1. at' = "working" /\ left' = 1..Size /\ outcome'["total"] >= before'["total"]
      BY <2>4, <2>5 DEF Clean
    <3>2. QED
      BY <2>2, <3>1 DEF WindowDone
  <2>8. LevelsDone'
    BY <1>3, <2>1, <2>4, <2>6 DEF Reached
  <2>9. QED
    BY <2>7, <2>8 DEF LoadsDone
<1>5. ASSUME NEW w \in Sessions, LoadCall(w) PROVE LoadsDone'
  <2>1. /\ UNCHANGED <<at, left, outcome, window, before, levels>> /\ made' = [made EXCEPT ![w] = @ + 1]
        /\ at = "working" /\ made \in [Sessions -> Nat]
    BY <1>5 DEF LoadCall, CallCounted, MayCall, SessionsInv, LoadTyped
  <2>2. Size' = Size /\ Clean' = Clean
    BY <1>0, <2>1 DEF Size, Clean
  <2>3. \A v : made[v] > 0 => made'[v] > 0
    BY <2>1
  <2>4. WindowDone'
    BY <1>0, <2>1, <2>2, <2>3 DEF DoneInv, WindowDone
  <2>5. LevelsDone'
    BY <1>3, <2>1, <2>2 DEF Reached
  <2>6. QED
    BY <2>4, <2>5 DEF LoadsDone
<1>6. ASSUME NEW w \in Sessions, CallDropped(w) PROVE LoadsDone'
  BY <1>1, <1>6 DEF CallDropped
<1>7. ASSUME NEW w \in Sessions, CallerStops(w) PROVE LoadsDone'
  <2>1. /\ at = "working" /\ at' = at /\ w \in left /\ left' = left \ {w}
        /\ UNCHANGED <<window, made, before, seen, levels>>
        /\ own[w] \in [Fields -> Nat] /\ own[w]["total"] = made[w] /\ made[w] \in Nat
    BY <1>7 DEF CallerStops, loadVars, SessionsInv, LoadTyped, CountsInv, LoadCounts
  <2>2. PICK end \in {"closed", "unsure"} : outcome' = MergeWorker(outcome, Plus(own[w], Failed(end)))
    BY <1>7 DEF CallerStops
  <2> DEFINE mine == Plus(own[w], Failed(end))
  <2>3. mine \in [Fields -> Nat] /\ mine["total"] = made[w] /\ mine["incomplete"] \in Nat
    <3>1. "total" \notin Failed(end)
      BY DEF Failed
    <3>2. mine \in [Fields -> Nat] /\ mine["total"] = own[w]["total"]
      BY <2>1, <3>1, Added, FieldNames
    <3>3. QED
      BY <2>1, <3>2, FieldNames
  <2>4. outcome' = MergeWorker(outcome, mine)
    BY <2>2
  <2> HIDE DEF mine
  <2>5. /\ outcome'["total"] = outcome["total"] + made[w]
        /\ outcome'["incomplete"] >= outcome["incomplete"]
        /\ made[w] = 0 => outcome'["incomplete"] > 0
    <3>1. \A f \in Fields : outcome'[f] = IF f = "incomplete" /\ mine["total"] = 0 THEN outcome[f] + mine[f] + 1
                                          ELSE outcome[f] + mine[f]
      BY <1>0, <2>3, <2>4, Merged
    <3>2. QED
      BY <1>0, <2>3, <3>1, FieldNames
  <2>6. (Clean' => Clean) /\ (Clean' => made[w] > 0)
    BY <1>0, <2>1, <2>5 DEF Clean
  <2>7. Size' = Size
    BY <1>0, <2>1 DEF Size
  <2>8. WindowDone'
    <3> SUFFICES ASSUME Clean' PROVE WindowDone'
      BY DEF WindowDone
    <3>1. /\ outcome["total"] >= before["total"] /\ made[w] > 0
          /\ \A v \in 1..Size : v \in left \/ (made[v] > 0 /\ outcome["total"] > before["total"])
      BY <2>1, <2>6 DEF DoneInv, WindowDone
    <3>2. outcome'["total"] > before["total"] /\ outcome'["total"] >= outcome["total"]
      BY <1>0, <2>1, <2>5, <3>1
    <3>3. \A v \in 1..Size : v \in left' \/ (made[v] > 0 /\ outcome'["total"] > before["total"])
      BY <2>1, <3>1, <3>2
    <3>4. outcome'["total"] >= before["total"]
      BY <1>0, <2>1, <2>5, <3>1
    <3>5. QED
      BY <2>1, <2>7, <3>3, <3>4 DEF WindowDone
  <2>9. LevelsDone'
    BY <1>3, <2>1, <2>6 DEF Reached
  <2>10. QED
    BY <2>8, <2>9 DEF LoadsDone
<1>8. ASSUME NEW w \in Sessions, CallerDies(w) PROVE LoadsDone'
  <2>1. outcome' = Plus(outcome, {"errors", "incomplete"})
    BY <1>8 DEF CallerDies, WorkerDies
  <2>2. outcome'["incomplete"] > 0
    BY <1>0, <2>1, Added, FieldNames
  <2>3. QED
    BY <2>2 DEF LoadsDone, WindowDone, LevelsDone, Clean
<1>9. QED
  BY <1>4, <1>5, <1>6, <1>7, <1>8

LEMMA LoadsDoneAtJoins ==
    ASSUME SessionsInv, CountsInv, DoneInv, kind \in LoadKinds, WindowJoined \/ LevelJudged
    PROVE  LoadsDone'
<1>0. /\ Fielded /\ outcome \in [Fields -> Nat] /\ before \in [Fields -> Nat] /\ window \in Nat
      /\ kind' = kind /\ plan' = plan /\ Windows' = Windows /\ Pooled' = Pooled
      /\ ByRun' = ByRun /\ \A l : Due(l)' = Due(l)
      /\ outcome["total"] \in Nat /\ before["total"] \in Nat /\ outcome' = outcome /\ left' = left
      /\ seen.total \in Nat /\ plan.detect \in BOOLEAN /\ levels \in Seq(Level)
  <2>1. /\ Fielded /\ outcome \in [Fields -> Nat] /\ before \in [Fields -> Nat] /\ window \in Nat
        /\ seen.total \in Nat /\ levels \in Seq(Level)
    BY DEF SessionsInv, LoadTyped, Fielded, DoneInv, LevelsTyped
  <2>2. outcome' = outcome /\ left' = left
    BY DEF WindowJoined, LevelJudged
  <2>3. QED
    BY <2>1, <2>2, PlanIsTyped, PlanOfLoad, FieldNames DEF LoadStep, LoadEnvironment
<1> SUFFICES ASSUME Pooled, ByRun, Clean PROVE LoadsDone'
  BY <1>0 DEF LoadsDone, WindowDone, LevelsDone, Clean
<1>1. /\ Reached => \A l \in Nat : Due(l) /\ l < window => Ran(l)
      /\ kind = "ramp" => \A i \in DOMAIN levels : levels[i].good => levels[i].calls > 0
  BY DEF DoneInv, LevelsDone
<1>2. ~BrokenOff
  BY DEF BrokenOff
<1>3. CASE WindowJoined
  <2>1. at = "working" /\ left = {}
    BY <1>3 DEF WindowJoined, Joined, DoneInv, WindowDone
  <2>2. /\ 1 \in 1..Size /\ 1 \in Sessions /\ (kind = "sustained" => Size = plan.count)
    BY <2>1, PoolOfWindow DEF DoneInv, Reached
  <2>3. \A w \in 1..Size : made[w] > 0 /\ outcome["total"] > before["total"]
    BY <2>1 DEF DoneInv, WindowDone
  <2>4. outcome["total"] > before["total"] /\ made[1] > 0
    BY <2>2, <2>3
  <2>5. ~NoUsableSessions
    BY <1>0, <2>4 DEF NoUsableSessions
  <2>6. CASE kind = "ramp"
    <3>1. at' = "rest" /\ UNCHANGED <<window, levels, seen>>
      BY <1>3, <2>5, <2>6 DEF WindowJoined
    <3>2. seen.total > 0
      <4>1. made[1] \in Nat /\ made[1] <= seen.total
        BY <2>2 DEF SessionsInv, LoadTyped, CountsInv, LoadCounts
      <4>2. QED
        BY <1>0, <2>4, <4>1
    <3>3. WindowDone'
      BY <1>0, <3>1, <3>2 DEF WindowDone
    <3>4. LevelsDone'
      BY <1>0, <1>1, <2>1, <2>6, <3>1 DEF LevelsDone, Reached, Ran
    <3>5. QED
      BY <3>3, <3>4 DEF LoadsDone
  <2>7. CASE kind # "ramp"
    <3> DEFINE e == [level |-> window, calls |-> outcome.total - before.total, good |-> FALSE]
    <3>1. /\ at' = (IF kind # "spike" THEN "over" ELSE "window") /\ window' = window + 1 /\ made' = made
          /\ levels' = Append(levels, e)
      BY <1>2, <1>3, <2>5, <2>7 DEF WindowJoined, Following
    <3>2. e \in Level /\ e.calls > 0 /\ e.level = window
      <4>1. outcome.total - before.total \in Int /\ outcome.total - before.total > 0
        BY <1>0, <2>4
      <4>2. QED
        BY <1>0, <4>1 DEF Level
    <3> HIDE DEF e
    <3>3. \A l \in Nat : Ran(l) \/ l = window => Ran(l)'
      BY <1>0, <3>1, <3>2, LevelAdded
    <3>4. WindowDone'
      BY <3>1 DEF WindowDone
    <3>5. \A l \in Nat : Due(l) /\ l < window + 1 => Ran(l)'
      <4>1. \A l \in Nat : l < window + 1 => l < window \/ l = window
        BY <1>0
      <4>2. QED
        BY <1>1, <2>1, <3>3, <4>1 DEF Reached, Ran
    <3>6. kind # "spike" => /\ kind = "sustained" /\ \A w \in 1..plan.count : made'[w] > 0
                            /\ \A l \in Nat : Due(l) => l = window
      <4> SUFFICES ASSUME kind # "spike"
                   PROVE  /\ kind = "sustained" /\ \A w \in 1..plan.count : made'[w] > 0
                          /\ \A l \in Nat : Due(l) => l = window
        OBVIOUS
      <4>1. kind = "sustained" /\ Windows = {1}
        BY <2>7 DEF Pooled, Windows
      <4>2. window \in Windows
        BY <2>1 DEF DoneInv, WindowsInOrder, Reached
      <4>3. QED
        BY <2>2, <2>3, <3>1, <4>1, <4>2 DEF Due
    <3>7. LevelsDone'
      <4>1. Reached' => \A l \in Nat : Due(l)' /\ l < window' => Ran(l)'
        BY <1>0, <3>1, <3>5
      <4>2. at' = "over" => \A l \in Nat : Due(l)' => Ran(l)'
        BY <1>0, <3>1, <3>3, <3>6 DEF Ran
      <4>3. kind' = "sustained" /\ at' = "over" => \A w \in 1..plan'.count : made'[w] > 0
        BY <1>0, <3>1, <3>6
      <4>4. kind' # "ramp"
        BY <1>0, <2>7
      <4>5. QED
        BY <4>1, <4>2, <4>3, <4>4 DEF LevelsDone
    <3>8. QED
      BY <3>4, <3>7 DEF LoadsDone
  <2>8. QED
    BY <2>6, <2>7
<1>4. CASE LevelJudged
  <2>1. PICK good \in BOOLEAN :
          /\ levels' = Append(levels, [level |-> window, calls |-> seen.total, good |-> good])
          /\ \/ at' = "over" /\ claim' = "broke"
             \/ at' = "window" /\ window' = window + plan.step
    BY <1>0, <1>2, <1>4 DEF LevelJudged, Following
  <2> DEFINE e == [level |-> window, calls |-> seen.total, good |-> good]
  <2>2. kind = "ramp" /\ at = "rest"
    BY <1>4 DEF LevelJudged
  <2>3. seen.total > 0
    BY <2>2 DEF DoneInv, WindowDone
  <2>4. e \in Level /\ e.calls > 0 /\ e.level = window
    BY <1>0, <2>3 DEF Level
  <2>5. levels' = Append(levels, e)
    BY <2>1
  <2> HIDE DEF e
  <2>6. /\ \A l \in Nat : Ran(l) \/ l = window => Ran(l)'
        /\ \A i \in DOMAIN levels' : levels'[i].good => levels'[i].calls > 0
    BY <1>0, <1>1, <2>2, <2>4, <2>5, LevelAdded
  <2>7. \A l \in Windows : l < window + plan.step => l <= window
    BY <1>0, <2>2, WindowsFollow DEF DoneInv, WindowsInOrder, Reached
  <2>8. \A l \in Nat : Due(l) /\ l < window + plan.step => Ran(l)'
    <3>1. \A l \in Nat : l <= window => l < window \/ l = window
      BY <1>0
    <3>2. QED
      BY <1>1, <2>2, <2>6, <2>7, <3>1 DEF Reached, Due, Ran
  <2>9. WindowDone'
    BY <2>1 DEF WindowDone
  <2>10. Reached' => \A l \in Nat : Due(l)' /\ l < window' => Ran(l)'
    BY <1>0, <2>1, <2>8 DEF Reached
  <2>11. at' = "over" => claim' = "broke"
    BY <2>1
  <2>12. LevelsDone'
    BY <1>0, <2>2, <2>6, <2>10, <2>11 DEF LevelsDone
  <2>13. QED
    BY <2>9, <2>12 DEF LoadsDone
<1>5. QED
  BY <1>3, <1>4

LEMMA DoneKeeps == SessionsInv /\ CountsInv /\ DoneInv /\ [Next]_scenariosVars => DoneInv'
<1> SUFFICES ASSUME SessionsInv, CountsInv, DoneInv, [Next]_scenariosVars PROVE DoneInv'
  OBVIOUS
<1>1. CASE kind \in ProbeKinds /\ ProbeStep /\ UNCHANGED <<loadVars, fuzzVars>>
  <2>1. kind' = kind /\ plan' = plan /\ kind \notin LoadKinds /\ kind # "fuzzer"
        /\ (kind \in PoolProbes \/ kind \in Rounds) /\ ~(kind \in PoolProbes /\ kind \in Rounds)
    <3>1. kind' = kind /\ plan' = plan
      BY <1>1 DEF ProbeStep, RefusePlan, SkipPlan, Return, ProbeMain, ProbePool, ProbeJoined, BeginRounds, RoundsEnd,
             RoundSpawnFails, RoundSpawned, RoundCall, RowDone, RoundShutdown, ProbeCancelled, ProbeWorker,
             ProbeWorkerDies
    <3>2. QED
      BY <1>1, <3>1, KindsAreApart
  <2>2. PoolDone' /\ RoundsDone'
    BY <1>1, <2>1, PoolDoneKeeps, RoundsDoneKeep, DoneElsewhere DEF DoneInv
  <2>3. FuzzDone' /\ WindowsInOrder' /\ WindowDone' /\ LevelsDone' /\ LevelsTyped'
    BY <1>1, <2>1, DoneElsewhere
  <2>4. QED
    BY <2>2, <2>3 DEF DoneInv
<1>2. CASE kind = "fuzzer" /\ FuzzStep /\ UNCHANGED <<probeVars, loadVars>>
  <2>1. kind' = kind /\ plan' = plan /\ kind \notin LoadKinds /\ kind \notin PoolProbes /\ kind \notin Rounds
    <3>1. kind' = kind /\ plan' = plan
      BY <1>2 DEF FuzzStep, FuzzBegins, FuzzEnds, SkipRaw, ProbeCall, RawProbe, Respawn, scenarioVars
    <3>2. QED
      BY <1>2, <3>1 DEF LoadKinds, PoolProbes, Rounds
  <2>2. FuzzDone'
    BY <1>2, FuzzDoneKeeps DEF DoneInv
  <2>3. QED
    BY <1>2, <2>1, <2>2, DoneElsewhere DEF DoneInv
<1>3. CASE kind \in LoadKinds /\ (LoadStep \/ LoadEnvironment) /\ UNCHANGED <<probeVars, fuzzVars>>
  <2>1. kind' = kind /\ plan' = plan /\ kind # "fuzzer" /\ kind \notin PoolProbes /\ kind \notin Rounds
    BY <1>3, KindsAreApart, PlanOfLoad
  <2>2. LevelsTyped' /\ WindowsInOrder'
    BY <1>3, LevelsTypedKeep, WindowsInOrderKeep DEF DoneInv
  <2>c. ASSUME NEW w \in Sessions, CallBegins(w) PROVE LoadsDone'
    BY <1>3, <2>c, DoneStays DEF CallBegins, scenarioVars, DoneInv, LoadsDone
  <2>3. LoadsDone'
    BY <1>3, <2>c, LoadsDoneAtTheEdges, LoadsDoneInWindows, LoadsDoneAtJoins DEF LoadStep, LoadEnvironment
  <2>4. QED
    BY <2>1, <2>2, <2>3, DoneElsewhere DEF DoneInv, LoadsDone
<1>4. CASE UNCHANGED scenariosVars \/ (CancelScenario /\ UNCHANGED <<probeVars, loadVars, fuzzVars>>)
  <2>1. UNCHANGED <<kind, plan, at, left, session, outcome, recorded, probeVars, loadVars, fuzzVars>>
    BY <1>4 DEF CancelScenario, scenariosVars, scenarioVars
  <2>2. QED
    BY <2>1, DoneStays DEF loadVars
<1>5. QED
  BY <1>1, <1>2, <1>3, <1>4 DEF Next, Drive, Environment

-----------------------------------------------------------------------------
\* What a run that passes has counted.
LEMMA PassedCounts ==
    ASSUME SessionsInv, CountsInv, ReportPassed
    PROVE  /\ outcome["successful"] > 0 /\ outcome["total"] \in Nat /\ outcome["successful"] \in Nat
           /\ outcome["deadlocks"] = 0 /\ outcome["divergences"] = 0 /\ Clean
           /\ recorded["Disconnected"] = 0 /\ recorded["Timeout"] = 0
           /\ kind \in Diagnostics => outcome["errors"] = 0 /\ outcome["total"] = outcome["successful"]
<1>1. /\ outcome.successful = outcome["successful"] /\ outcome.total = outcome["total"]
      /\ outcome.errors = outcome["errors"] /\ outcome.hangs = outcome["hangs"]
  OBVIOUS
<1>2. /\ outcome["total"] \in Nat /\ outcome["successful"] \in Nat /\ outcome["errors"] \in Nat
      /\ outcome["hangs"] \in Nat /\ Balanced(outcome)
  BY FieldNames DEF SessionsInv, Fielded, CountsInv
<1>3. /\ outcome["deadlocks"] = 0 /\ outcome["divergences"] = 0 /\ outcome["incomplete"] = 0
      /\ recorded["Disconnected"] = 0 /\ recorded["Timeout"] = 0
      /\ outcome["successful"] \in 1..outcome["total"]
      /\ kind \in Diagnostics => outcome["errors"] = 0 /\ outcome["hangs"] = 0
  BY <1>1 DEF ReportPassed, HardOutcomes
<1>4. QED
  BY <1>2, <1>3 DEF Balanced, Clean

\* A run that passes did what it was asked to.
LEMMA PassIsEarned == SessionsInv /\ CountsInv /\ DoneInv => PassMeansDone
<1> SUFFICES ASSUME SessionsInv, CountsInv, DoneInv, at = "over", ReportPassed, plan.factory, ~plan.embedded
             PROVE  PlanDone
  BY DEF PassMeansDone
<1>1. /\ outcome["successful"] > 0 /\ outcome["total"] \in Nat /\ outcome["successful"] \in Nat
      /\ outcome["deadlocks"] = 0 /\ outcome["divergences"] = 0 /\ Clean
      /\ recorded["Disconnected"] = 0 /\ recorded["Timeout"] = 0
      /\ kind \in Diagnostics => outcome["errors"] = 0 /\ outcome["total"] = outcome["successful"]
  BY PassedCounts
<1>2. /\ outcome.successful = outcome["successful"] /\ outcome.total = outcome["total"]
      /\ outcome.errors = outcome["errors"] /\ ByRun
  BY DEF ByRun
<1>3. plan.timed \subseteq 1..3 /\ plan.count \in Nat /\ kind \in ProbeKinds \cup LoadKinds \cup {"fuzzer"}
      /\ plan.to \in Nat
  BY PlanIsTyped DEF SessionsInv
<1>4. CASE kind = "deadlock_probe"
  <2>1. outcome["total"] = plan.count /\ outcome["errors"] = 0 /\ outcome["successful"] = plan.count
    BY <1>1, <1>2, <1>4 DEF DoneInv, PoolDone, PoolProbes, Diagnostics
  <2>2. QED
    BY <1>2, <1>4, <2>1 DEF PlanDone
<1>5. CASE kind = "race_check"
  <2>1. /\ outcome["total"] = plan.count /\ outcome["errors"] = 0 /\ outcome["successful"] = plan.count
        /\ DOMAIN stored = 1..plan.count /\ ~Analyze(stored)
    BY <1>1, <1>2, <1>5 DEF DoneInv, PoolDone, PoolProbes, Diagnostics
  <2>2. QED
    BY <1>2, <1>5, <2>1 DEF PlanDone
<1>6. CASE kind \in {"cold_start", "version_matrix"}
  <2>1. ~GivenUp
    BY <1>1 DEF GivenUp
  <2>2. round = plan.count
    BY <1>2, <1>6, <2>1 DEF DoneInv, RoundsDone, Rounds
  <2>3. UnendedOf(Behind) <= outcome["errors"]
    BY <1>1, <1>2, <1>6 DEF DoneInv, RoundsDone, Rounds
  <2>4. Behind = plan.count
    BY <2>2 DEF Behind
  <2>5. Unended = UnendedOf(Behind)
    BY <2>4 DEF Unended, UnendedOf
  <2>6. QED
    BY <1>2, <1>6, <2>3, <2>5 DEF PlanDone
<1>7. CASE kind = "fuzzer"
  <2>1. outcome["errors"] = 0 /\ outcome["successful"] = outcome["total"]
    BY <1>1, <1>7 DEF Diagnostics
  <2>2. tries = plan.count /\ \A c \in FuzzClass \ {"ProtocolError", "Other"} : ~(findings[c] > 0)
    BY <1>1, <1>2, <1>7, <2>1 DEF DoneInv, FuzzDone
  <2>3. QED
    BY <1>2, <1>7, <2>1, <2>2 DEF PlanDone
<1>8. CASE kind \in LoadKinds
  <2>1. Pooled => /\ claim # "broke" => \A l \in Nat : Due(l) => Ran(l)
                  /\ kind = "ramp" => \A i \in DOMAIN levels : levels[i].good => levels[i].calls > 0
                  /\ kind = "sustained" => \A w \in 1..plan.count : made[w] > 0
    BY <1>1, <1>2, <1>8 DEF DoneInv, LevelsDone
  <2>2. CASE kind = "ramp"
    <3>1. Pooled /\ \A l \in Windows : l \in Nat /\ Due(l)
      BY <1>3, <2>2 DEF Pooled, Windows, Due
    <3>2. claim # "broke" => \A l \in Windows : Ran(l)
      BY <2>1, <3>1
    <3>3. QED
      BY <2>1, <2>2, <3>1, <3>2 DEF PlanDone
  <2>3. CASE kind = "spike"
    <3>1. Pooled /\ claim # "broke" /\ \A l \in plan.timed : l \in Nat /\ Due(l)
      BY <1>3, <2>3 DEF Pooled, Windows, Due, DoneInv, LevelsTyped
    <3>2. \A l \in plan.timed : Ran(l)
      BY <2>1, <3>1
    <3>3. QED
      BY <2>3, <3>2 DEF PlanDone
  <2>4. CASE kind = "sustained"
    BY <2>1, <2>4 DEF PlanDone
  <2>5. CASE kind = "soak"
    <3>1. ~Pooled
      BY <2>5 DEF Pooled
    <3>2. QED
      BY <2>5, <3>1 DEF PlanDone
  <2>6. QED
    BY <1>8, <2>2, <2>3, <2>4, <2>5 DEF LoadKinds
<1>9. QED
  BY <1>3, <1>4, <1>5, <1>6, <1>7, <1>8 DEF ProbeKinds

\* There is a reason exactly if the report does not pass.
LEMMA ReasonsAreNamed == SessionsInv => FailureIsNamed
<1> SUFFICES ASSUME SessionsInv PROVE FailureSummary = {} <=> ReportPassed
  BY DEF FailureIsNamed, ReportPassed
<1>1. /\ outcome.successful = outcome["successful"] /\ outcome.total = outcome["total"]
      /\ outcome.errors = outcome["errors"] /\ outcome.hangs = outcome["hangs"]
  OBVIOUS
<1>2. \A f \in {"total", "successful", "hangs", "deadlocks", "errors", "divergences", "incomplete", "teardown"} :
         outcome[f] \in Nat
  BY FieldNames DEF SessionsInv, Fielded
<1>3. recorded["Hang"] \in Nat /\ \A c \in HardOutcomes : recorded[c] \in Nat
  BY DEF SessionsInv, Fielded, CallOutcome, HardOutcomes
<1> DEFINE A == IF outcome.total = 0 THEN {"no calls"} ELSE {f \in {"no success"} : outcome.successful = 0}
           B == {f \in {"too many successes"} : outcome.successful > outcome.total}
           C == {f \in {"deadlocks", "divergences", "incomplete", "teardown"} : outcome[f] > 0}
           D == {f \in {"errors", "hangs"} : kind \in Diagnostics /\ outcome[f] > 0}
           E == {f \in {"recorded hangs"} : kind \in Diagnostics /\ recorded["Hang"] > 0}
           F == {c \in HardOutcomes : recorded[c] > 0}
<1>4. FailureSummary = A \cup B \cup C \cup D \cup E \cup F
  BY DEF FailureSummary
<1>5. A = {} <=> outcome["total"] # 0 /\ outcome["successful"] # 0
  BY <1>1
<1>6. B = {} <=> ~(outcome["successful"] > outcome["total"])
  BY <1>1
<1>7. C = {} <=> \A f \in {"deadlocks", "divergences", "incomplete", "teardown"} : outcome[f] = 0
  BY <1>2
<1>8. D = {} <=> (kind \in Diagnostics => outcome["errors"] = 0 /\ outcome["hangs"] = 0)
  BY <1>2
<1>9. E = {} <=> (kind \in Diagnostics => recorded["Hang"] = 0)
  <2>1. "recorded hangs" \in E <=> kind \in Diagnostics /\ recorded["Hang"] > 0
    OBVIOUS
  <2>2. E = {} <=> "recorded hangs" \notin E
    OBVIOUS
  <2> HIDE DEF E
  <2>3. recorded["Hang"] > 0 <=> recorded["Hang"] # 0
    BY <1>3
  <2>4. QED
    BY <2>1, <2>2, <2>3
<1>10. F = {} <=> \A c \in HardOutcomes : recorded[c] = 0
  BY <1>3
<1>11. FailureSummary = {} <=> A = {} /\ B = {} /\ C = {} /\ D = {} /\ E = {} /\ F = {}
  <2> HIDE DEF A, B, C, D, E, F
  <2>1. QED
    BY <1>4
<1> HIDE DEF A, B, C, D, E, F
<1>12. outcome.successful \in 1..outcome.total <=>
         outcome["total"] # 0 /\ outcome["successful"] # 0 /\ ~(outcome["successful"] > outcome["total"])
  BY <1>1, <1>2
<1>13. QED
  BY <1>1, <1>5, <1>6, <1>7, <1>8, <1>9, <1>10, <1>11, <1>12 DEF ReportPassed

\* A run that passes did what it was asked to, and one that fails says why: every
\* probe, iteration, row, level and phase was gone through or is counted as an error,
\* and no level of a ramp is called good that nothing was asked of (Report::passed,
\* failure_summary).
THEOREM VerdictsAreEarned == Spec => []VerdictIsEarned
<1>1. SessionsInv /\ CountsInv /\ DoneInv => VerdictIsEarned
  BY PassIsEarned, ReasonsAreNamed DEF VerdictIsEarned
<1>2. SessionsInv /\ [Next]_scenariosVars => SessionsInv'
  BY SessionsKeep
<1>3. QED
  BY SessionsBegin, CountsBegin, CountsKeep, DoneBegins, DoneKeeps, <1>1, <1>2, PTL DEF Spec
=============================================================================
