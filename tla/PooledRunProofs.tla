--------------------------- MODULE PooledRunProofs ---------------------------
(***************************************************************************)
(* What holds of PooledRun for every number of workers and of calls.       *)
(***************************************************************************)
EXTENDS PooledRun, FiniteSums, FiniteSetTheorems, TLAPS

\* The assumptions on the constants, and that what is counted is finite.
LEMMA Facts ==
    /\ IsFiniteSet(Workers) /\ Workers # {} /\ Main \notin Workers /\ MaxCalls \in Nat
    /\ IsFiniteSet(Lost) /\ IsFiniteSet(Lost') /\ IsFiniteSet(Live)
    /\ IsFiniteSet(Unsure) /\ IsFiniteSet(Unsure')
<1>1. IsFiniteSet(Workers \cup {Main})
  BY WorkersAssumption, FS_AddElement
<1>2. /\ Lost \subseteq Workers /\ Lost' \subseteq Workers /\ Live \subseteq Workers
      /\ Unsure \subseteq Workers \cup {Main} /\ Unsure' \subseteq Workers \cup {Main}
  BY DEF Lost, Live, Unsure
<1>3. QED
  BY <1>1, <1>2, WorkersAssumption, CallsAssumption, FS_Subset

\* The run starts with nothing built and nothing counted.
LEMMA InitIInv == Init => IInv
<1> SUFFICES ASSUME Init PROVE IInv
  OBVIOUS
<1> USE DEF Init
<1>1. TypeOK
  <2>1. Cardinality(Workers) \in Nat
    BY Facts, FS_CardinalityType
  <2>2. /\ run \in {"build", "drive"} /\ trace \in {"off", "open"}
        /\ {byRun, hard, cancelled, expired, sealed, missing} \subseteq BOOLEAN
    OBVIOUS
  <2>3. outcome \in [total : Nat, successful : Nat, errors : Nat,
                    incomplete : 0..Cardinality(Workers), teardown : Nat]
    BY <2>1
  <2>4. /\ session \in [Workers \cup {Main} -> {"none", "open", "closed", "unsure", "dropped"}]
        /\ calls \in [Workers -> 0..MaxCalls] /\ good \in [Workers -> 0..MaxCalls]
    BY Facts
  <2>5. QED
    BY <2>2, <2>3, <2>4 DEF TypeOK
<1>2. WorkerInv
  BY Facts DEF WorkerInv, Working, SessionOf
<1>3. MainInv
  BY DEF MainInv
<1>4. CountInv
  <2>1. Unsure = {}
    BY Facts DEF Unsure
  <2>2. QED
    BY <2>1, FS_EmptySet DEF CountInv, Building
<1>5. TraceInv
  BY DEF TraceInv
<1>6. QED
  BY <1>1, <1>2, <1>3, <1>4, <1>5 DEF IInv

\* What a worker does, what became of its session and what it counted agree.
LEMMA WorkerStep ==
    ASSUME IInv, Next
    PROVE  WorkerInv'
<1>0. WorkerInv /\ TypeOK
  BY DEF IInv
<1> USE <1>0, Facts DEF WorkerInv, Working, SessionOf, TypeOK, Ended, Live, poolVars, workVars, countVars
<1>1. CASE BuildSession \/ ListTools
  BY <1>1 DEF BuildSession, ListTools
<1>2. CASE StartPool
  BY <1>2 DEF StartPool
<1>3. CASE PoolBuilt
  BY <1>3 DEF PoolBuilt
<1>4. CASE GateOpens \/ GateFails \/ CountdownCancelled
  BY <1>4 DEF GateOpens, GateFails, CountdownCancelled
<1>5. CASE ReleaseWorkers
  BY <1>5 DEF ReleaseWorkers
<1>6. CASE Discard
  BY <1>6 DEF Discard, Shutdown
<1>7. CASE PoolJoined \/ ScenarioReturns
  BY <1>7 DEF PoolJoined, ScenarioReturns
<1>8. CASE TeardownMain
  BY <1>8 DEF TeardownMain, Shutdown
<1>9. CASE FinalizeTrace
  BY <1>9 DEF FinalizeTrace
<1>10. CASE DeadlineExpires \/ Cancel
  BY <1>10 DEF DeadlineExpires, Cancel
<1>11. ASSUME NEW w \in Workers, SpawnSucceeds(w) PROVE WorkerInv'
  BY <1>11 DEF SpawnSucceeds
<1>12. ASSUME NEW w \in Workers, SpawnFails(w) PROVE WorkerInv'
  BY <1>12 DEF SpawnFails
<1>13. ASSUME NEW w \in Workers, BeginPattern(w) PROVE WorkerInv'
  BY <1>13 DEF BeginPattern, Moves, Attempt
<1>14. ASSUME NEW w \in Workers, NextStep(w) PROVE WorkerInv'
  BY <1>14 DEF NextStep, Moves, Attempt
<1>15. ASSUME NEW w \in Workers, CallEnds(w) PROVE WorkerInv'
  BY <1>15 DEF CallEnds
<1>16. ASSUME NEW w \in Workers, CallCancelled(w) PROVE WorkerInv'
  BY <1>16 DEF CallCancelled
<1>17. ASSUME NEW w \in Workers, WorkerStops(w) PROVE WorkerInv'
  BY <1>17 DEF WorkerStops, Shutdown
<1>18. ASSUME NEW w \in Workers, WorkerPanics(w) PROVE WorkerInv'
  BY <1>18 DEF WorkerPanics
<1>19. QED
  BY <1>1, <1>2, <1>3, <1>4, <1>5, <1>6, <1>7, <1>8, <1>9, <1>10, <1>11, <1>12, <1>13, <1>14,
     <1>15, <1>16, <1>17, <1>18 DEF Next, Executor, Pool, Work

\* The run's own session lives from the first step of Run::execute to its teardown.
LEMMA MainStep ==
    ASSUME IInv, Next
    PROVE  MainInv'
<1>0. MainInv /\ TypeOK
  BY DEF IInv
<1> USE <1>0, Facts DEF MainInv, TypeOK, poolVars, workVars, countVars
<1>1. CASE BuildSession
  BY <1>1 DEF BuildSession
<1>2. CASE ListTools
  BY <1>2 DEF ListTools
<1>3. CASE StartPool \/ PoolBuilt \/ GateOpens \/ GateFails \/ CountdownCancelled \/ ReleaseWorkers
  BY <1>3 DEF StartPool, PoolBuilt, GateOpens, GateFails, CountdownCancelled, ReleaseWorkers
<1>4. CASE Discard
  BY <1>4 DEF Discard, Shutdown, Live
<1>5. CASE PoolJoined \/ ScenarioReturns \/ FinalizeTrace
  BY <1>5 DEF PoolJoined, ScenarioReturns, FinalizeTrace
<1>6. CASE TeardownMain
  BY <1>6 DEF TeardownMain, Shutdown
<1>7. CASE DeadlineExpires \/ Cancel
  BY <1>7 DEF DeadlineExpires, Cancel
<1>8. ASSUME NEW w \in Workers, Work(w) \/ CallEnds(w) \/ WorkerPanics(w) PROVE MainInv'
  <2>1. /\ UNCHANGED <<run, byRun>>
        /\ session'[Main] = session[Main]
    BY <1>8 DEF Work, SpawnSucceeds, SpawnFails, BeginPattern, NextStep, Moves, Attempt, CallEnds,
       CallCancelled, WorkerStops, Shutdown, WorkerPanics
  <2>2. QED
    BY <2>1
<1>9. QED
  BY <1>1, <1>2, <1>3, <1>4, <1>5, <1>6, <1>7, <1>8 DEF Next, Executor, Pool

\* A frame that was lost is latched, and a latched trace makes no report.
LEMMA TraceStep ==
    ASSUME IInv, Next
    PROVE  TraceInv'
<1>0. TraceInv /\ WorkerInv /\ TypeOK
  BY DEF IInv
<1> USE <1>0 DEF TraceInv, TypeOK, poolVars, workVars, countVars, traceVars
<1>1. CASE BuildSession \/ ListTools
  BY <1>1 DEF BuildSession, ListTools, Record
<1>2. CASE StartPool \/ PoolBuilt \/ GateOpens \/ GateFails \/ CountdownCancelled \/ ReleaseWorkers
           \/ Discard \/ PoolJoined \/ ScenarioReturns \/ TeardownMain
  BY <1>2 DEF StartPool, PoolBuilt, GateOpens, GateFails, CountdownCancelled, ReleaseWorkers,
     Discard, PoolJoined, ScenarioReturns, TeardownMain
<1>3. CASE FinalizeTrace
  BY <1>3 DEF FinalizeTrace
<1>4. CASE DeadlineExpires \/ Cancel
  BY <1>4 DEF DeadlineExpires, Cancel
<1>5. ASSUME NEW w \in Workers, Work(w) \/ CallEnds(w) \/ WorkerPanics(w) PROVE TraceInv'
  <2>1. run' = run /\ (Record \/ UNCHANGED <<trace, missing>>)
    BY <1>5 DEF Work, SpawnSucceeds, SpawnFails, BeginPattern, NextStep, Moves, Attempt, CallEnds,
       CallCancelled, WorkerStops, WorkerPanics
  <2>2. run # "report"
    <3>1. worker[w] \in {"spawning", "loop", "step", "calling", "stopping"}
      BY <1>5 DEF Work, SpawnSucceeds, SpawnFails, BeginPattern, NextStep, Moves, Attempt, CallEnds,
         CallCancelled, WorkerStops, WorkerPanics
    <3>2. QED
      BY <3>1 DEF WorkerInv, Working, Ended
  <2>3. QED
    BY <2>1, <2>2 DEF Record
<1>6. QED
  BY <1>1, <1>2, <1>3, <1>4, <1>5 DEF Next, Executor, Pool

\* The session that is shut down was open, so its teardown is counted once.
LEMMA ShutdownCounted ==
    ASSUME TypeOK, NEW s \in Workers \cup {Main}, session[s] = "open",
           NEW o, o \in [total : Nat, successful : Nat, errors : Nat, incomplete : Nat, teardown : Nat],
           o.teardown = Cardinality(Unsure), Shutdown(s, o)
    PROVE  /\ outcome'.teardown = Cardinality(Unsure')
           /\ outcome' \in [total : Nat, successful : Nat, errors : Nat, incomplete : Nat, teardown : Nat]
           /\ outcome'.incomplete = o.incomplete
<1>1. PICK end \in {"closed", "unsure"} :
         /\ session' = [session EXCEPT ![s] = end]
         /\ outcome' = IF end = "unsure" THEN [o EXCEPT !.teardown = @ + 1] ELSE o
  BY DEF Shutdown
<1>2. CASE end = "closed"
  <2>1. Unsure' = Unsure
    BY <1>1, <1>2 DEF Unsure, TypeOK
  <2>2. QED
    BY <1>1, <1>2, <2>1
<1>3. CASE end = "unsure"
  <2>1. Unsure' = Unsure \cup {s} /\ s \notin Unsure
    BY <1>1, <1>3 DEF Unsure, TypeOK
  <2>2. Cardinality(Unsure') = Cardinality(Unsure) + 1
    BY <2>1, Facts, FS_AddElement
  <2>3. QED
    BY <1>1, <1>3, <2>2
<1>4. QED
  BY <1>2, <1>3

\* What is counted as incomplete when one more worker is lost.
LEMMA OneMoreLost ==
    ASSUME NEW w \in Workers, w \notin Lost, Lost' = Lost \cup {w}
    PROVE  Cardinality(Lost') = Cardinality(Lost) + 1
BY Facts, FS_AddElement

\* Losing the live workers of a pool that waits loses all of it.
LEMMA AllLost ==
    ASSUME WorkerInv, run \in {"gate", "countdown"}
    PROVE  Cardinality(Workers) = Cardinality(Lost) + Cardinality(Live)
<1>1. Lost \cup Live = Workers /\ Lost \cap Live = {}
  BY DEF WorkerInv, Working, Lost, Live
<1>2. /\ Cardinality(Lost) \in Nat /\ Cardinality(Live) \in Nat
      /\ Cardinality(Lost \cup Live) = Cardinality(Lost) + Cardinality(Live) - Cardinality(Lost \cap Live)
  BY Facts, FS_CardinalityType, FS_Union
<1>3. QED
  BY <1>1, <1>2, FS_EmptySet

\* The counters of an outcome: their types, but for the bound of the incomplete.
Counters == [total : Nat, successful : Nat, errors : Nat, incomplete : Nat, teardown : Nat]

\* Each lost worker and each unsure session is counted in the step that loses it.
LEMMA CountStep ==
    ASSUME IInv, Next
    PROVE  CountInv' /\ outcome' \in Counters
<1>0. CountInv /\ WorkerInv /\ MainInv /\ TypeOK
  BY DEF IInv
<1>a. /\ Cardinality(Workers) \in Nat /\ Cardinality(Lost) \in Nat /\ Cardinality(Live) \in Nat
      /\ Cardinality(Unsure) \in Nat
  BY Facts, FS_CardinalityType
<1>b. outcome \in Counters
  BY <1>0, <1>a DEF TypeOK, Counters
<1> USE <1>0, <1>a, <1>b DEF CountInv, Building, poolVars, workVars, countVars
<1>1. CASE BuildSession \/ ListTools
  <2>1. /\ UNCHANGED outcome /\ run' \in {"list", "drive", "error"}
        /\ run' # "error" => \E s \in {"open"} : session' = [session EXCEPT ![Main] = s] \/ session' = session
    BY <1>1 DEF BuildSession, ListTools
  <2>2. run # "error" /\ run \in {"build", "list"}
    BY <1>1 DEF BuildSession, ListTools
  <2>3. run' # "error" => Unsure' = Unsure
    BY <2>1, <2>2, Facts DEF Unsure, TypeOK, MainInv
  <2>4. QED
    BY <2>1, <2>2, <2>3
<1>2. CASE StartPool
  <2>1. Unsure' = Unsure
    BY <1>2 DEF StartPool, Unsure
  <2>2. CASE run' = "driven"
    <3>1. outcome' = [outcome EXCEPT !.incomplete = Cardinality(Workers)] /\ run = "drive" /\ worker' = worker
      BY <1>2, <2>2 DEF StartPool
    <3>2. Lost' = Workers
      BY <2>2, <3>1 DEF Lost, WorkerInv, Working
    <3>3. QED
      BY <2>1, <2>2, <3>1, <3>2 DEF Counters
  <2>3. CASE run' = "spawning"
    BY <1>2, <2>1, <2>3 DEF StartPool
  <2>4. QED
    BY <1>2, <2>2, <2>3 DEF StartPool
<1>3. CASE PoolBuilt
  <2>1. /\ run = "spawning" /\ \A w \in Workers : worker[w] # "spawning"
        /\ run' = IF Live = {} THEN "driven" ELSE "gate"
        /\ outcome' = [outcome EXCEPT !.incomplete = Cardinality(Workers \ Live)]
        /\ UNCHANGED <<worker, session, calls>>
    BY <1>3 DEF PoolBuilt
  <2>2. Lost' = Workers \ Live
    BY <2>1 DEF Lost, Live, WorkerInv, Working
  <2>3. Unsure' = Unsure /\ Cardinality(Workers \ Live) \in Nat
    BY <2>1, <2>2, Facts, FS_CardinalityType DEF Unsure
  <2>4. QED
    BY <2>1, <2>2, <2>3 DEF Counters
<1>4. CASE GateFails \/ CountdownCancelled
  <2>1. /\ run \in {"gate", "countdown"} /\ run' = "discard"
        /\ outcome' = [outcome EXCEPT !.incomplete = @ + Cardinality(Live)]
        /\ UNCHANGED <<worker, session, calls>>
    BY <1>4 DEF GateFails, CountdownCancelled
  <2>2. Lost' = Workers
    BY <2>1 DEF Lost, WorkerInv, Working
  <2>3. Unsure' = Unsure
    BY <2>1 DEF Unsure
  <2>4. QED
    BY <2>1, <2>2, <2>3, AllLost DEF Counters
<1>5. CASE GateOpens \/ PoolJoined \/ ScenarioReturns \/ FinalizeTrace \/ DeadlineExpires \/ Cancel
  <2>1. UNCHANGED <<worker, session, calls, outcome>> /\ run # "error"
    BY <1>5 DEF GateOpens, PoolJoined, ScenarioReturns, FinalizeTrace, DeadlineExpires, Cancel, MainInv
  <2>2. Building' <=> Building
    BY <1>5 DEF GateOpens, PoolJoined, ScenarioReturns, FinalizeTrace, DeadlineExpires, Cancel
  <2>3. (run = "discard") <=> (run' = "discard")
    BY <1>5 DEF GateOpens, PoolJoined, ScenarioReturns, FinalizeTrace, DeadlineExpires, Cancel
  <2>4. Lost' = Lost /\ Unsure' = Unsure
    BY <2>1, <2>3 DEF Lost, Unsure
  <2>5. QED
    BY <2>1, <2>2, <2>4
<1>6. CASE ReleaseWorkers
  <2>1. /\ run = "countdown" /\ run' = "running" /\ UNCHANGED <<outcome, session, calls>>
        /\ worker' = [w \in Workers |-> IF w \in Live THEN "loop" ELSE worker[w]]
    BY <1>6 DEF ReleaseWorkers
  <2>2. Lost' = Lost /\ Unsure' = Unsure
    BY <2>1 DEF Lost, Unsure, Live, WorkerInv, Working
  <2>3. QED
    BY <2>1, <2>2
<1>7. CASE Discard
  <2>1. CASE Live = {} /\ run' = "driven" /\ UNCHANGED <<worker, session, outcome>>
    <3>1. run = "discard" /\ calls' = calls
      BY <1>7 DEF Discard
    <3>2. Lost' = Lost /\ Unsure' = Unsure
      BY <2>1, <3>1 DEF Lost, Unsure, Live
    <3>3. QED
      BY <2>1, <3>1, <3>2
  <2>2. ASSUME NEW w \in Live, Shutdown(w, outcome), worker' = [worker EXCEPT ![w] = "discarded"],
               UNCHANGED run
        PROVE  CountInv' /\ outcome' \in Counters
    <3>1. run = "discard" /\ calls' = calls
      BY <1>7 DEF Discard
    <3>2. Lost' = Lost
      BY <2>2, <3>1 DEF Lost, Live, TypeOK
    <3>3. session[w] = "open" /\ w \in Workers \cup {Main}
      BY DEF Live, WorkerInv, SessionOf
    <3>4. /\ outcome'.teardown = Cardinality(Unsure') /\ outcome' \in Counters
          /\ outcome'.incomplete = outcome.incomplete
      BY <2>2, <3>1, <3>3, ShutdownCounted DEF Counters
    <3>5. QED
      BY <2>2, <3>1, <3>2, <3>4
  <2>3. QED
    BY <1>7, <2>1, <2>2 DEF Discard
<1>8. CASE TeardownMain
  <2>1. run = "teardown" /\ run' = "finalize" /\ UNCHANGED <<worker, calls>> /\ Shutdown(Main, outcome)
    BY <1>8 DEF TeardownMain
  <2>2. session[Main] = "open"
    BY <2>1 DEF MainInv
  <2>3. Lost' = Lost
    BY <2>1 DEF Lost
  <2>4. /\ outcome'.teardown = Cardinality(Unsure') /\ outcome' \in Counters
        /\ outcome'.incomplete = outcome.incomplete
    BY <2>1, <2>2, ShutdownCounted DEF Counters
  <2>5. QED
    BY <2>1, <2>3, <2>4
<1>9. ASSUME NEW w \in Workers, SpawnSucceeds(w) \/ SpawnFails(w) PROVE CountInv' /\ outcome' \in Counters
  <2>1. /\ run = "spawning" /\ run' = run /\ session[w] = "none"
        /\ outcome' = outcome \/ outcome' = [outcome EXCEPT !.errors = @ + 1]
        /\ session' = session \/ session' = [session EXCEPT ![w] = "open"]
    <3>1. worker[w] = "spawning"
      BY <1>9 DEF SpawnSucceeds, SpawnFails
    <3>2. run = "spawning" /\ session[w] = "none"
      BY <3>1 DEF WorkerInv, Working, SessionOf, Ended
    <3>3. QED
      BY <1>9, <3>2 DEF SpawnSucceeds, SpawnFails
  <2>2. Unsure' = Unsure
    BY <2>1 DEF Unsure, TypeOK
  <2>3. QED
    BY <2>1, <2>2 DEF Counters
<1>10. ASSUME NEW w \in Workers, BeginPattern(w) \/ NextStep(w) \/ CallEnds(w) \/ CallCancelled(w)
       PROVE  CountInv' /\ outcome' \in Counters
  <2>1. /\ UNCHANGED <<run, session, outcome>>
        /\ worker[w] \in {"loop", "step", "calling"} /\ \A v \in Workers \ {w} : calls'[v] = calls[v]
        /\ \E s \in {"loop", "step", "calling", "stopping"} : worker' = [worker EXCEPT ![w] = s]
    BY <1>10 DEF BeginPattern, NextStep, Moves, Attempt, CallEnds, CallCancelled, TypeOK
  <2>2. Lost' = Lost /\ Unsure' = Unsure
    BY <2>1 DEF Lost, Unsure, TypeOK
  <2>3. QED
    BY <2>1, <2>2
<1>11. ASSUME NEW w \in Workers, WorkerStops(w) PROVE CountInv' /\ outcome' \in Counters
  <2>1. /\ worker[w] = "stopping" /\ worker' = [worker EXCEPT ![w] = "merged"]
        /\ Shutdown(w, Merged(w)) /\ UNCHANGED <<run, calls>>
    BY <1>11 DEF WorkerStops, poolVars
  <2>2. run \notin {"error", "discard"} /\ ~Building /\ session[w] = "open"
    BY <2>1 DEF WorkerInv, Working, SessionOf, Ended
  <2>3. /\ Merged(w) \in Counters /\ Merged(w).teardown = outcome.teardown
        /\ Merged(w).incomplete = outcome.incomplete + (IF calls[w] = 0 THEN 1 ELSE 0)
    <3>1. calls[w] \in Nat /\ good[w] \in Nat /\ calls[w] - good[w] \in Nat
      BY Facts DEF TypeOK, WorkerInv
    <3>2. Merged(w) = [outcome EXCEPT !.total = @ + calls[w], !.successful = @ + good[w],
                                      !.errors = @ + (calls[w] - good[w]),
                                      !.incomplete = @ + (IF calls[w] = 0 THEN 1 ELSE 0)]
      BY DEF Merged
    <3>3. /\ outcome.total + calls[w] \in Nat /\ outcome.successful + good[w] \in Nat
          /\ outcome.errors + (calls[w] - good[w]) \in Nat
          /\ outcome.incomplete + (IF calls[w] = 0 THEN 1 ELSE 0) \in Nat
      BY <3>1 DEF Counters
    <3>4. QED
      BY <3>2, <3>3 DEF Counters
  <2>4. /\ outcome'.teardown = Cardinality(Unsure') /\ outcome' \in Counters
        /\ outcome'.incomplete = Merged(w).incomplete
    BY <2>1, <2>2, <2>3, ShutdownCounted DEF Counters
  <2>5. w \notin Lost /\ Lost' = IF calls[w] = 0 THEN Lost \cup {w} ELSE Lost
    BY <2>1, <2>2 DEF Lost, TypeOK
  <2>6. Cardinality(Lost') = Cardinality(Lost) + (IF calls[w] = 0 THEN 1 ELSE 0)
    <3>1. CASE calls[w] = 0
      BY <2>5, <3>1, OneMoreLost
    <3>2. CASE calls[w] # 0
      BY <2>5, <3>2
    <3>3. QED
      BY <3>1, <3>2
  <2>7. QED
    BY <2>1, <2>2, <2>3, <2>4, <2>6
<1>12. ASSUME NEW w \in Workers, WorkerPanics(w) PROVE CountInv' /\ outcome' \in Counters
  <2>1. /\ worker[w] \in {"loop", "step", "calling", "stopping"} /\ UNCHANGED <<run, calls>>
        /\ worker' = [worker EXCEPT ![w] = "panicked"] /\ session' = [session EXCEPT ![w] = "dropped"]
        /\ outcome' = [outcome EXCEPT !.errors = @ + 1, !.incomplete = @ + 1]
    BY <1>12 DEF WorkerPanics
  <2>2. run \notin {"error", "discard"} /\ ~Building /\ session[w] = "open"
    BY <2>1 DEF WorkerInv, Working, SessionOf, Ended
  <2>3. Lost' = Lost \cup {w} /\ w \notin Lost /\ Unsure' = Unsure
    BY <2>1, <2>2 DEF Lost, Unsure, TypeOK
  <2>4. Cardinality(Lost') = Cardinality(Lost) + 1
    BY <2>3, OneMoreLost
  <2>5. /\ outcome' \in Counters /\ outcome'.teardown = outcome.teardown
        /\ outcome'.incomplete = outcome.incomplete + 1
    <3>1. PICK o : o = [outcome EXCEPT !.errors = @ + 1]
      OBVIOUS
    <3>2. o \in Counters /\ o.teardown = outcome.teardown /\ o.incomplete = outcome.incomplete
      BY <3>1 DEF Counters
    <3>3. outcome' = [o EXCEPT !.incomplete = @ + 1]
      BY <2>1, <3>1
    <3>4. QED
      BY <3>2, <3>3 DEF Counters
  <2>6. Cardinality(Unsure') = Cardinality(Unsure)
    BY <2>3
  <2>7. QED
    BY <2>1, <2>2, <2>4, <2>5, <2>6
<1>13. QED
  BY <1>1, <1>2, <1>3, <1>4, <1>5, <1>6, <1>7, <1>8, <1>9, <1>10, <1>11, <1>12
     DEF Next, Executor, Pool, Work

\* A run that fails has counted nothing in the step that ends it.
LEMMA ErrorCounts ==
    ASSUME IInv, Next, run' = "error"
    PROVE  outcome' = outcome
<1>0. WorkerInv
  BY DEF IInv
<1> USE DEF poolVars, workVars, countVars
<1>1. CASE BuildSession \/ ListTools \/ FinalizeTrace
  BY <1>1 DEF BuildSession, ListTools, FinalizeTrace
<1>2. CASE GateOpens \/ GateFails \/ DeadlineExpires \/ ScenarioReturns \/ TeardownMain
  BY <1>2 DEF GateOpens, GateFails, DeadlineExpires, ScenarioReturns, TeardownMain
<1>3. CASE Cancel
  BY <1>3 DEF Cancel
<1>4. CASE Pool
  BY <1>4 DEF Pool, StartPool, PoolBuilt, CountdownCancelled, ReleaseWorkers, Discard, PoolJoined
<1>5. ASSUME NEW w \in Workers, Work(w) \/ CallEnds(w) \/ WorkerPanics(w) PROVE FALSE
  <2>1. run' = run /\ worker[w] \in {"spawning", "loop", "step", "calling", "stopping"}
    BY <1>5 DEF Work, SpawnSucceeds, SpawnFails, BeginPattern, NextStep, Moves, Attempt, CallEnds,
       CallCancelled, WorkerStops, WorkerPanics
  <2>2. QED
    BY <1>0, <2>1 DEF WorkerInv, Working, Ended
<1>6. QED
  BY <1>1, <1>2, <1>3, <1>4, <1>5 DEF Next, Executor

\* Every variable keeps its type; the bound of the incomplete comes from the count.
LEMMA TypeStep ==
    ASSUME IInv, Next, CountInv', outcome' \in Counters
    PROVE  TypeOK'
<1>0. WorkerInv /\ TypeOK /\ CountInv
  BY DEF IInv
<1> USE <1>0 DEF TypeOK, poolVars, workVars, countVars, traceVars, RunOver, Ended, Live
<1>1. outcome'.incomplete \in 0..Cardinality(Workers)
  <2>1. Cardinality(Lost') \in Nat /\ Cardinality(Lost') <= Cardinality(Workers)
        /\ Cardinality(Workers) \in Nat
    <3>1. Lost' \in SUBSET Workers
      BY DEF Lost
    <3>2. QED
      BY <3>1, Facts, FS_Subset, FS_CardinalityType
  <2>2. CASE run' # "error"
    BY <2>1, <2>2 DEF CountInv
  <2>3. CASE run' = "error"
    BY <2>3, ErrorCounts
  <2>4. QED
    BY <2>2, <2>3
<1>2. outcome' \in [total : Nat, successful : Nat, errors : Nat,
                    incomplete : 0..Cardinality(Workers), teardown : Nat]
  BY <1>1 DEF Counters
<1> USE <1>2, Facts
<1>3. CASE BuildSession \/ ListTools
  BY <1>3 DEF BuildSession, ListTools, Record
<1>4. CASE StartPool \/ PoolBuilt \/ GateOpens \/ GateFails \/ CountdownCancelled \/ ReleaseWorkers
  BY <1>4 DEF StartPool, PoolBuilt, GateOpens, GateFails, CountdownCancelled, ReleaseWorkers
<1>5. CASE Discard
  BY <1>5 DEF Discard, Shutdown
<1>6. CASE PoolJoined \/ ScenarioReturns \/ DeadlineExpires \/ Cancel
  BY <1>6 DEF PoolJoined, ScenarioReturns, DeadlineExpires, Cancel
<1>7. CASE TeardownMain
  BY <1>7 DEF TeardownMain, Shutdown
<1>8. CASE FinalizeTrace
  BY <1>8 DEF FinalizeTrace
<1>9. ASSUME NEW w \in Workers, SpawnSucceeds(w) \/ SpawnFails(w) PROVE TypeOK'
  BY <1>9 DEF SpawnSucceeds, SpawnFails, Record
<1>10. ASSUME NEW w \in Workers, BeginPattern(w) \/ NextStep(w) PROVE TypeOK'
  <2>1. /\ \E s \in {"loop", "step", "calling", "stopping"} : worker' = [worker EXCEPT ![w] = s]
        /\ \/ calls' = calls
           \/ calls[w] < MaxCalls /\ calls' = [calls EXCEPT ![w] = @ + 1]
        /\ UNCHANGED <<run, byRun, expired, session, good, hard, cancelled, sealed>>
    BY <1>10 DEF BeginPattern, NextStep, Moves, Attempt
  <2>2. trace' \in {"off", "open", "failed"} /\ missing' \in BOOLEAN
    BY <1>10 DEF BeginPattern, NextStep, Moves, Attempt, Record
  <2>3. calls' \in [Workers -> 0..MaxCalls]
    <3>1. CASE calls[w] < MaxCalls /\ calls' = [calls EXCEPT ![w] = @ + 1]
      <4>1. calls \in [Workers -> 0..MaxCalls] /\ calls[w] + 1 \in 0..MaxCalls
        BY <3>1
      <4>2. QED
        BY <3>1, <4>1
    <3>2. QED
      BY <2>1, <3>1
  <2>4. worker' \in [Workers -> {"none", "spawning", "ready", "loop", "step", "calling",
                                 "stopping"} \cup Ended]
    BY <2>1
  <2>5. /\ run' = run /\ byRun' = byRun /\ expired' = expired /\ session' = session /\ good' = good
        /\ hard' = hard /\ cancelled' = cancelled /\ sealed' = sealed
    BY <2>1
  <2>6. QED
    BY <2>2, <2>3, <2>4, <2>5
<1>11. ASSUME NEW w \in Workers, CallEnds(w) PROVE TypeOK'
  <2>1. /\ worker[w] = "calling" /\ \E n \in {"stopping", "loop", "step"} : worker' = [worker EXCEPT ![w] = n]
        /\ good' = good \/ good' = [good EXCEPT ![w] = @ + 1]
        /\ UNCHANGED <<run, byRun, expired, session, calls, cancelled, sealed>> /\ hard' \in BOOLEAN
    BY <1>11 DEF CallEnds
  <2>2. good[w] + 1 \in 0..MaxCalls
    BY <2>1 DEF WorkerInv
  <2>3. trace' \in {"off", "open", "failed"} /\ missing' \in BOOLEAN
    BY <1>11 DEF CallEnds, Record
  <2>4. QED
    BY <2>1, <2>2, <2>3
<1>12. ASSUME NEW w \in Workers, CallCancelled(w) PROVE TypeOK'
  BY <1>12 DEF CallCancelled
<1>13. ASSUME NEW w \in Workers, WorkerStops(w) PROVE TypeOK'
  BY <1>13 DEF WorkerStops, Shutdown
<1>14. ASSUME NEW w \in Workers, WorkerPanics(w) PROVE TypeOK'
  BY <1>14 DEF WorkerPanics
<1>15. QED
  BY <1>3, <1>4, <1>5, <1>6, <1>7, <1>8, <1>9, <1>10, <1>11, <1>12, <1>13, <1>14
     DEF Next, Executor, Pool, Work

\* A pooled run keeps its inductive invariant (drive_pooled, Run::execute).
THEOREM PooledInvariant == Spec => []IInv
<1>1. ASSUME IInv, [Next]_vars PROVE IInv'
  <2>1. CASE Next
    BY <1>1, <2>1, TypeStep, WorkerStep, MainStep, CountStep, TraceStep DEF IInv
  <2>2. CASE UNCHANGED vars
    BY <1>1, <2>2 DEF vars, poolVars, workVars, countVars, traceVars, IInv, TypeOK, WorkerInv, Working,
       SessionOf, MainInv, CountInv, Building, Lost, Unsure, TraceInv
  <2>3. QED
    BY <1>1, <2>1, <2>2
<1>2. QED
  BY InitIInv, <1>1, PTL DEF Spec

\* Every requested worker that did not work, and every session whose teardown is
\* unsure, is counted exactly once, for any number of them (merge_worker_outcome).
THEOREM WorkersAreCounted == Spec => []WorkersCounted
<1>1. IInv => WorkersCounted
  <2> SUFFICES ASSUME IInv, Driven PROVE WorkersCounted
    BY DEF WorkersCounted
  <2>1. Lost = Workers \ {w \in In("merged") : calls[w] > 0}
    BY DEF IInv, TypeOK, WorkerInv, Working, Ended, Lost, In, Driven
  <2>2. Unsure = {s \in DOMAIN session : session[s] = "unsure"}
    BY DEF IInv, TypeOK, Unsure
  <2>3. QED
    BY <2>1, <2>2 DEF IInv, CountInv, Building, Driven, WorkersCounted
<1>2. QED
  BY <1>1, PooledInvariant, PTL

\* The outcome holds, all the time, the calls of the workers that were merged and one error
\* for each that was not built or panicked.
Failed == In("unbuilt") \cup In("panicked")

CallsInv ==
    /\ outcome.total = Total(calls) /\ outcome.successful = Total(good)
    /\ outcome.errors = Total(calls) - Total(good) + Cardinality(Failed)

\* What is summed and counted are numbers.
LEMMA TotalsAreNumbers ==
    ASSUME TypeOK
    PROVE  /\ Total(calls) \in Nat /\ Total(good) \in Nat /\ Cardinality(Failed) \in Nat
           /\ IsFiniteSet(In("merged")) /\ IsFiniteSet(Failed)
           /\ \A w \in Workers : calls[w] \in Nat /\ good[w] \in Nat
<1>1. \A w \in Workers : calls[w] \in Nat /\ good[w] \in Nat
  BY Facts DEF TypeOK
<1>2. In("merged") \subseteq Workers /\ Failed \subseteq Workers
  BY DEF In, Failed
<1>3. IsFiniteSet(In("merged")) /\ IsFiniteSet(Failed)
  BY <1>2, Facts, FS_Subset
<1>4. \A w \in In("merged") : calls[w] \in Nat /\ good[w] \in Nat
  BY <1>1, <1>2
<1>5. SumFunctionOnSet(calls, In("merged")) \in Nat /\ SumFunctionOnSet(good, In("merged")) \in Nat
  BY <1>3, <1>4, SumIsNat
<1>6. QED
  BY <1>1, <1>3, <1>5, FS_CardinalityType DEF Total

\* A step that merges no worker and fails none leaves the sums alone.
LEMMA NoneMerged ==
    ASSUME TypeOK, CallsInv, UNCHANGED <<In("merged"), Failed>>,
           \A w \in In("merged") : calls'[w] = calls[w] /\ good'[w] = good[w],
           outcome'.total = outcome.total, outcome'.successful = outcome.successful,
           outcome'.errors = outcome.errors
    PROVE  CallsInv'
<1>1. /\ IsFiniteSet(In("merged"))
      /\ \A w \in In("merged") : calls[w] \in Int /\ good[w] \in Int
  BY TotalsAreNumbers DEF In
<1>2. SumFunctionOnSet(calls, In("merged")) = SumFunctionOnSet(calls', In("merged"))
  BY <1>1, SumSame
<1>3. SumFunctionOnSet(good, In("merged")) = SumFunctionOnSet(good', In("merged"))
  BY <1>1, SumSame
<1>4. Total(calls)' = Total(calls) /\ Total(good)' = Total(good)
  BY <1>2, <1>3 DEF Total
<1>5. Failed' = Failed
  OBVIOUS
<1>6. QED
  BY <1>4, <1>5 DEF CallsInv

\* A worker that fails is one error more.
LEMMA OneFails ==
    ASSUME TypeOK, CallsInv, NEW w \in Workers, w \notin Failed, Failed' = Failed \cup {w},
           UNCHANGED <<In("merged"), calls, good>>,
           outcome'.total = outcome.total, outcome'.successful = outcome.successful,
           outcome'.errors = outcome.errors + 1
    PROVE  CallsInv'
<1>1. Cardinality(Failed') = Cardinality(Failed) + 1
  BY TotalsAreNumbers, FS_AddElement
<1>2. Total(calls)' = Total(calls) /\ Total(good)' = Total(good)
  BY DEF Total
<1>3. Total(calls) \in Nat /\ Total(good) \in Nat /\ Cardinality(Failed) \in Nat
  BY TotalsAreNumbers
<1>4. Total(calls) - Total(good) + Cardinality(Failed) + 1
      = Total(calls) - Total(good) + (Cardinality(Failed) + 1)
  BY <1>3
<1>5. outcome'.errors = Total(calls)' - Total(good)' + Cardinality(Failed')
  BY <1>1, <1>2, <1>4 DEF CallsInv
<1>6. QED
  BY <1>2, <1>5 DEF CallsInv

\* A worker that is merged adds what it counted.
LEMMA OneIsMerged ==
    ASSUME IInv, CallsInv, NEW w \in Workers, WorkerStops(w)
    PROVE  CallsInv'
<1>0. TypeOK
  BY DEF IInv
<1>1. /\ worker[w] = "stopping" /\ worker' = [worker EXCEPT ![w] = "merged"]
      /\ UNCHANGED <<calls, good>> /\ Shutdown(w, Merged(w))
  BY DEF WorkerStops
<1>2. /\ In("merged")' = In("merged") \cup {w} /\ w \notin In("merged")
      /\ Failed' = Failed
  BY <1>0, <1>1 DEF In, Failed, TypeOK
<1>3. /\ outcome'.total = outcome.total + calls[w]
      /\ outcome'.successful = outcome.successful + good[w]
      /\ outcome'.errors = outcome.errors + (calls[w] - good[w])
  <2>1. outcome \in [total : Nat, successful : Nat, errors : Nat,
                     incomplete : 0..Cardinality(Workers), teardown : Nat]
    BY <1>0 DEF TypeOK
  <2>2. outcome' = Merged(w) \/ outcome' = [Merged(w) EXCEPT !.teardown = @ + 1]
    BY <1>1 DEF Shutdown
  <2>3. /\ Merged(w).total = outcome.total + calls[w]
        /\ Merged(w).successful = outcome.successful + good[w]
        /\ Merged(w).errors = outcome.errors + (calls[w] - good[w])
        /\ DOMAIN Merged(w) = {"total", "successful", "errors", "incomplete", "teardown"}
    BY <2>1 DEF Merged
  <2>4. QED
    BY <2>2, <2>3
<1>4. /\ IsFiniteSet(In("merged"))
      /\ \A v \in In("merged") \cup {w} : calls[v] \in Int /\ good[v] \in Int
  BY <1>0, TotalsAreNumbers DEF In
<1>5. /\ SumFunctionOnSet(calls, In("merged") \cup {w}) = SumFunctionOnSet(calls, In("merged")) + calls[w]
      /\ SumFunctionOnSet(good, In("merged") \cup {w}) = SumFunctionOnSet(good, In("merged")) + good[w]
  BY <1>2, <1>4, SumGrows
<1>6. Total(calls)' = Total(calls) + calls[w] /\ Total(good)' = Total(good) + good[w]
  BY <1>1, <1>2, <1>5 DEF Total
<1>7. QED
  <2> DEFINE c == Total(calls)
             g == Total(good)
             k == Cardinality(Failed)
             x == calls[w]
             y == good[w]
  <2>1. c \in Nat /\ g \in Nat /\ k \in Nat /\ x \in Nat /\ y \in Nat
    BY <1>0, TotalsAreNumbers
  <2>2. /\ outcome'.total = c + x /\ outcome'.successful = g + y
        /\ outcome'.errors = c - g + k + (x - y)
    BY <1>3 DEF CallsInv
  <2>3. Total(calls)' = c + x /\ Total(good)' = g + y /\ Cardinality(Failed') = k
    BY <1>2, <1>6
  <2> HIDE DEF c, g, k, x, y
  <2>4. c - g + k + (x - y) = (c + x) - (g + y) + k
    BY ONLY <2>1
  <2>5. QED
    BY <2>2, <2>3, <2>4 DEF CallsInv

\* Every step but those three leaves what is merged and what failed alone.
LEMMA CallsStep ==
    ASSUME IInv, CallsInv, [Next]_vars
    PROVE  CallsInv'
<1>0. TypeOK /\ WorkerInv
  BY DEF IInv
<1>a. outcome \in [total : Nat, successful : Nat, errors : Nat,
                   incomplete : 0..Cardinality(Workers), teardown : Nat]
  BY <1>0 DEF TypeOK
<1> USE DEF poolVars, workVars, countVars
<1>1. CASE BuildSession \/ ListTools \/ GateOpens \/ PoolJoined \/ ScenarioReturns \/ FinalizeTrace
           \/ DeadlineExpires \/ Cancel \/ UNCHANGED vars
  <2>1. UNCHANGED <<worker, calls, good, outcome>>
    BY <1>1 DEF BuildSession, ListTools, GateOpens, PoolJoined, ScenarioReturns, FinalizeTrace,
       DeadlineExpires, Cancel, vars
  <2>2. UNCHANGED <<In("merged"), Failed>>
    BY <2>1 DEF In, Failed
  <2>3. QED
    BY <1>0, <2>1, <2>2, NoneMerged
<1>2. CASE StartPool \/ PoolBuilt \/ GateFails \/ CountdownCancelled \/ ReleaseWorkers \/ Discard \/ TeardownMain
  <2>1. UNCHANGED <<calls, good>> /\ outcome'.total = outcome.total
        /\ outcome'.successful = outcome.successful /\ outcome'.errors = outcome.errors
    BY <1>a, <1>2 DEF StartPool, PoolBuilt, GateFails, CountdownCancelled, ReleaseWorkers, Discard,
       TeardownMain, Shutdown
  <2>2. UNCHANGED <<In("merged"), Failed>>
    BY <1>0, <1>2 DEF StartPool, PoolBuilt, GateFails, CountdownCancelled, ReleaseWorkers, Discard,
       TeardownMain, In, Failed, Live, WorkerInv, Working, TypeOK
  <2>3. QED
    BY <1>0, <2>1, <2>2, NoneMerged
<1>3. ASSUME NEW w \in Workers, SpawnSucceeds(w) \/ BeginPattern(w) \/ NextStep(w) \/ CallEnds(w) \/ CallCancelled(w)
      PROVE  CallsInv'
  <2>1. /\ worker[w] \in {"spawning", "loop", "step", "calling"} /\ outcome' = outcome
        /\ \E s \in {"ready", "loop", "step", "calling", "stopping"} : worker' = [worker EXCEPT ![w] = s]
        /\ \A v \in Workers \ {w} : calls'[v] = calls[v] /\ good'[v] = good[v]
    BY <1>0, <1>3 DEF SpawnSucceeds, BeginPattern, NextStep, Moves, Attempt, CallEnds, CallCancelled, TypeOK
  <2>2. UNCHANGED <<In("merged"), Failed>> /\ w \notin In("merged")
    BY <1>0, <2>1 DEF In, Failed, TypeOK
  <2>3. \A v \in In("merged") : calls'[v] = calls[v] /\ good'[v] = good[v]
    BY <2>1, <2>2 DEF In
  <2>4. QED
    BY <1>0, <2>1, <2>2, <2>3, NoneMerged
<1>4. ASSUME NEW w \in Workers, SpawnFails(w) \/ WorkerPanics(w) PROVE CallsInv'
  <2>1. /\ worker[w] \in {"spawning", "loop", "step", "calling", "stopping"} /\ UNCHANGED <<calls, good>>
        /\ \E s \in {"unbuilt", "panicked"} : worker' = [worker EXCEPT ![w] = s]
    BY <1>4 DEF SpawnFails, WorkerPanics
  <2>2. /\ outcome'.total = outcome.total /\ outcome'.successful = outcome.successful
        /\ outcome'.errors = outcome.errors + 1
    BY <1>a, <1>4 DEF SpawnFails, WorkerPanics
  <2>3. UNCHANGED In("merged") /\ Failed' = Failed \cup {w} /\ w \notin Failed
    BY <1>0, <2>1 DEF In, Failed, TypeOK
  <2>4. QED
    BY <1>0, <2>1, <2>2, <2>3, OneFails
<1>5. QED
  BY <1>1, <1>2, <1>3, <1>4, OneIsMerged DEF Next, Executor, Pool, Work

\* The merged outcome holds the calls of the workers that returned, each once, for any
\* number of workers that call, fail and panic in any order (merge_worker_outcome).
THEOREM CallsAreCounted == Spec => []CallsCounted
<1>1. Init => CallsInv
  <2> SUFFICES ASSUME Init PROVE CallsInv
    OBVIOUS
  <2>1. In("merged") = {} /\ Failed = {}
    BY DEF Init, In, Failed
  <2>2. Total(calls) = 0 /\ Total(good) = 0
    BY <2>1, SumOfNone DEF Total
  <2>3. QED
    BY <2>1, <2>2, FS_EmptySet DEF Init, CallsInv
<1>2. CallsInv => CallsCounted
  BY DEF CallsInv, CallsCounted, Failed
<1>3. QED
  BY <1>1, <1>2, CallsStep, PooledInvariant, PTL DEF Spec

\* A report that passes comes from a run whose workers all worked, whose sessions
\* were all closed and whose trace is whole (Report::passed).
THEOREM PassesAreHonest == Spec => []PassIsHonest
<1>1. IInv => PassIsHonest
  <2> SUFFICES ASSUME IInv, Passed
               PROVE  /\ \A w \in Workers : worker[w] = "merged" /\ calls[w] > 0
                      /\ \A s \in DOMAIN session : session[s] = "closed"
                      /\ ~missing
    BY DEF PassIsHonest
  <2> USE DEF IInv, Passed
  <2>1. Lost = {} /\ Unsure = {}
    BY Facts, FS_EmptySet DEF CountInv, Building
  <2>2. \A w \in Workers : worker[w] = "merged" /\ calls[w] > 0
    BY <2>1 DEF Lost, WorkerInv, Working, Ended, TypeOK
  <2>3. \A w \in Workers : session[w] = "closed"
    BY <2>1, <2>2 DEF WorkerInv, SessionOf, Unsure
  <2>4. session[Main] = "closed"
    BY <2>1 DEF MainInv, Unsure
  <2>5. QED
    BY <2>2, <2>3, <2>4 DEF TypeOK, TraceInv
<1>2. QED
  BY <1>1, PooledInvariant, PTL

\* No worker calls before the pool is built and the gate has answered (drive_pooled).
THEOREM AllStartTogether == Spec => []StartsTogether
<1>1. IInv => StartsTogether
  <2> SUFFICES ASSUME IInv, NEW w \in Workers, calls[w] > 0, NEW v \in Workers
               PROVE  worker[v] \notin {"none", "spawning", "ready"}
    BY DEF StartsTogether
  <2>1. worker[w] \notin {"none", "spawning", "ready", "unbuilt", "discarded"}
    BY DEF IInv, WorkerInv, TypeOK
  <2>2. worker[v] # "none"
    BY <2>1 DEF IInv, WorkerInv
  <2>3. QED
    BY <2>1, <2>2 DEF IInv, WorkerInv, Working, Ended
<1>2. QED
  BY <1>1, PooledInvariant, PTL

\* No session outlives the scenario, and the run's own not the run, unless its
\* worker panicked (drive_pooled, Run::execute).
THEOREM NoSessionLeft == Spec => []NothingLeftOpen
<1>1. IInv => NothingLeftOpen
  BY DEF IInv, TypeOK, WorkerInv, MainInv, Working, SessionOf, Ended, Driven, NothingLeftOpen
<1>2. QED
  BY <1>1, PooledInvariant, PTL

\* A trace that comes with a report holds every frame (TraceWriter::record, finish).
THEOREM TraceOfReport == Spec => []TraceIsWhole
<1>1. IInv => TraceIsWhole
  BY DEF IInv, TraceInv, TraceIsWhole
<1>2. QED
  BY <1>1, PooledInvariant, PTL

\* What a report counts is what happened, for every number of workers and of calls.
THEOREM ReportsCountHonestly == Spec => []CountsAreHonest
BY WorkersAreCounted, PassesAreHonest, PTL DEF CountsAreHonest

\* The pool starts as one and leaves nothing behind, whichever of its workers fail.
THEOREM PoolsAreOrderly == Spec => []PoolIsOrderly
<1>1. IInv => TypeOK
  BY DEF IInv
<1>2. QED
  BY <1>1, PooledInvariant, AllStartTogether, NoSessionLeft, TraceOfReport, PTL DEF PoolIsOrderly
=============================================================================
