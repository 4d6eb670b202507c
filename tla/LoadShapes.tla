----------------------------- MODULE LoadShapes -----------------------------
(***************************************************************************)
(* The scenarios that keep up a load for a time: sustained with its        *)
(* patterns, soak, ramp and spike (engine scenario/, with                  *)
(* breaking_point.rs).  Each is a sequence of windows: the levels of a     *)
(* ramp, the phases of a spike, or a single one.  In a window the workers  *)
(* of a fresh pool, or the drive itself on the run's own session, call     *)
(* until the window's deadline.                                            *)
(***************************************************************************)
EXTENDS Scenario, Sequences

CONSTANT LoadErrors    \* bound: the errors calls meet, of each class that is treated differently

ASSUME LoadAssumption == LoadErrors \subseteq CallErrors

VARIABLES
    window,    \* the level of a ramp, the phase of a spike
    closed,    \* its deadline has passed
    made,      \* the calls of each caller in it
    own,       \* what each caller has counted
    calling,   \* callers whose call has not been answered yet
    mid,       \* callers between two steps of a pattern
    quit,      \* callers whose loop was broken off
    before,    \* the outcome when the window opened
    seen,      \* a ramp's step recorder
    levels,    \* the windows that ran, with what the detector made of them
    claim      \* what the notes of a ramp say at its end

loadVars == <<window, closed, made, own, calling, mid, quit, before, seen, levels, claim>>

LoadKinds == {"sustained", "soak", "ramp", "spike"}

NothingSeen == [total |-> 0, good |-> 0]

LoadIdle ==
    /\ window = 0 /\ closed = FALSE
    /\ made = [w \in Sessions |-> 0] /\ own = [w \in Sessions |-> NoOutcome]
    /\ calling = {} /\ mid = {} /\ quit = {} /\ before = NoOutcome /\ seen = NothingSeen
    /\ levels = <<>> /\ claim = "none"

LoadTypeOK ==
    /\ window \in Nat /\ closed \in BOOLEAN
    /\ made \in [Sessions -> Nat] /\ {calling, mid, quit} \subseteq SUBSET Sessions
    /\ \A w \in Sessions : \A f \in DOMAIN own[w] : own[w][f] \in Nat
    /\ seen \in [total : Nat, good : Nat]
    /\ claim \in {"none", "completed", "broke"}

Pooled == plan.factory /\ (kind \in {"ramp", "spike"} \/ (kind = "sustained" /\ plan.count > 1))

InvalidLoad ==
    \/ kind = "sustained" /\ (plan.count = 0 \/ plan.timed = {})
    \/ kind = "soak" /\ (plan.count # 1 \/ plan.timed = {})
    \/ kind = "ramp" /\ (plan.count = 0 \/ plan.to < plan.count \/ plan.step = 0)
    \/ kind = "spike" /\ (plan.count = 0 \/ plan.to = 0)

Windows == CASE kind = "ramp" -> {l \in plan.count..plan.to : (l - plan.count) % plan.step = 0}
             [] kind = "spike" -> 1..3
             [] OTHER -> {1}

Following == IF kind = "ramp" THEN window + plan.step ELSE window + 1

Size == CASE kind = "ramp" -> window
          [] kind = "spike" -> IF window = 2 THEN plan.to ELSE plan.count
          [] OTHER -> plan.count

\* A refused ramp or spike has only a note, the others an error.
LoadBegins ==
    /\ at = "start"
    /\ at' = IF InvalidLoad THEN "over" ELSE "window"
    /\ outcome' = IF InvalidLoad /\ kind \in {"sustained", "soak"} THEN Plus(outcome, {"errors"}) ELSE outcome
    /\ window' = IF InvalidLoad THEN 0 ELSE Min(Windows)
    /\ UNCHANGED <<kind, plan, left, session, recorded, cancelled, closed, made, own, calling, mid, quit, before, seen,
                   levels, claim>>

\* A ramp with a detector that did not break ends with the note that it is complete.
Finish == /\ at' = "over"
          /\ claim' = IF kind = "ramp" /\ plan.detect /\ claim = "none" THEN "completed" ELSE claim

WindowsOver ==
    /\ at = "window" /\ (window \notin Windows \/ (cancelled /\ ~(Pooled /\ kind = "sustained")))
    /\ Finish
    /\ UNCHANGED <<kind, plan, left, session, outcome, recorded, cancelled, window, closed, made, own, calling, mid, quit,
                   before, seen, levels>>

\* A pooled spike skips a phase of no length.
SkipPhase ==
    /\ at = "window" /\ ~cancelled /\ Pooled /\ kind = "spike" /\ window \in Windows \ plan.timed
    /\ window' = Following
    /\ UNCHANGED <<scenarioVars, closed, made, own, calling, mid, quit, before, seen, levels, claim>>

\* Its callers are the workers of a pool, or the drive itself, for which only
\* sustained waits at the traffic gate.
WindowOpens ==
    /\ at = "window" /\ window \in Windows
    /\ \/ /\ Pooled /\ (cancelled => kind = "sustained") /\ (kind = "spike" => window \in plan.timed)
          /\ PoolOpens(Size, "working", "joined")
       \/ /\ ~Pooled /\ ~cancelled
          /\ \/ at' = "working" /\ left' = {0} /\ UNCHANGED outcome
             \/ /\ kind = "sustained" /\ plan.gated
                /\ at' = "over" /\ outcome' = Plus(outcome, {"incomplete"}) /\ UNCHANGED left
          /\ UNCHANGED <<session, recorded>>
    /\ closed' = (kind = "spike" /\ window \notin plan.timed)
    /\ made' = [w \in Sessions |-> 0] /\ own' = [w \in Sessions |-> NoOutcome]
    /\ calling' = {} /\ mid' = {} /\ quit' = {} /\ before' = outcome /\ seen' = NothingSeen
    /\ UNCHANGED <<kind, plan, cancelled, window, levels, claim>>

-----------------------------------------------------------------------------
(***************************************************************************)
(* The calls of a window.                                                  *)
(***************************************************************************)
\* Without a factory a level of n is n calls; plan.most bounds those of a caller.
Quota == IF kind = "ramp" /\ ~Pooled THEN Size ELSE plan.most

Drives == kind = "sustained" => plan.patterns = "steps"

\* A caller that is in its loop.
MayCall(w) ==
    /\ at = "working" /\ w \in left \ quit /\ Drives
    /\ made[w] < Min({Quota, plan.most})

\* The token is looked at before each call, the deadline too, but not within a pattern.
CallBegins(w) ==
    /\ MayCall(w) /\ ~cancelled
    /\ w \in mid \/ ~closed
    /\ w \notin calling /\ calling' = calling \cup {w}
    /\ UNCHANGED <<scenarioVars, window, closed, made, own, mid, quit, before, seen, levels, claim>>

CallCounted(w, fields, class) ==
    /\ MayCall(w) /\ w \in calling /\ calling' = calling \ {w}
    /\ made' = [made EXCEPT ![w] = @ + 1]
    /\ own' = [own EXCEPT ![w] = Plus(@, fields)]
    /\ recorded' = Counted(class)
    /\ seen' = [total |-> seen.total + 1, good |-> seen.good + (IF class = "Success" THEN 1 ELSE 0)]
    /\ UNCHANGED <<kind, plan, at, left, outcome, cancelled, window, closed, before, levels, claim>>

\* Only a lost session breaks a loop off; a failed call does not.
LoopBreaks(r) == Ends(r)

\* A call is awaited without a limit of the scenario's own.
PlainOutcomes == {r \in HangOutcomes : r.verdict = "Ok" \/ (r.verdict = "Err" /\ r.error \in LoadErrors)}

\* The answer comes, if ever: nothing but it and the token is waited for.  A lost
\* session ends the loop, another failure only the pattern, if that says abort.
LoadCall(w) ==
    /\ ~cancelled
    /\ \E r \in PlainOutcomes, further \in BOOLEAN :
          /\ further => made[w] + 1 < plan.most
          /\ CallCounted(w, Tally(r), RecordedAs(r))
          /\ session' = [session EXCEPT ![w] = AfterCall(w, r)]
          /\ quit' = IF LoopBreaks(r) THEN quit \cup {w} ELSE quit
          /\ mid' = IF kind = "sustained" /\ further /\ ~LoopBreaks(r) /\ ~(plan.abort /\ RecordedAs(r) # "Success")
                    THEN mid \cup {w} ELSE mid \ {w}

\* The token is cancelled while the call is awaited: the call is dropped.
CallDropped(w) ==
    /\ cancelled
    /\ CallCounted(w, {"total", "errors"}, "Cancelled")
    /\ session' = [session EXCEPT ![w] = AfterCall(w, Unanswered)]
    /\ quit' = quit \cup {w} /\ mid' = mid \ {w}

CallerStops(w) ==
    /\ at = "working" /\ w \in left \ calling
    /\ \/ w \in quit \/ cancelled \/ ~Drives \/ (closed /\ w \notin mid)
       \/ ~Pooled /\ kind = "ramp" /\ made[w] = Quota
    /\ left' = left \ {w}
    /\ IF Pooled
       THEN \E end \in {"closed", "unsure"} :
               /\ session' = [session EXCEPT ![w] = AfterShutdown(@, end)]
               /\ outcome' = MergeWorker(outcome, Plus(own[w], Failed(end)))
       ELSE outcome' = Sum2(outcome, own[w]) /\ UNCHANGED session
    /\ UNCHANGED <<kind, plan, at, recorded, cancelled, loadVars>>

CallerDies(w) ==
    /\ Pooled /\ at = "working" /\ w \in left
    /\ WorkerDies(w)
    /\ calling' = calling \ {w}
    /\ UNCHANGED <<kind, plan, at, cancelled, window, closed, made, own, mid, quit, before, seen, levels, claim>>

WindowCloses ==
    /\ at \in {"working", "rest"} /\ ~closed
    /\ closed' = TRUE
    /\ UNCHANGED <<scenarioVars, window, made, own, calling, mid, quit, before, seen, levels, claim>>

-----------------------------------------------------------------------------
(***************************************************************************)
(* The end of a window.                                                    *)
(***************************************************************************)
Joined == at = "joined" \/ (at = "working" /\ left = {})

\* Errors but no call: no session of the pool could be used.
NoUsableSessions == Pooled /\ outcome.total = before.total /\ outcome.errors > before.errors

BrokenOff == ~Pooled /\ 0 \in quit

\* Only a ramp waits for its window to close.
WindowJoined ==
    /\ Joined
    /\ IF NoUsableSessions /\ kind # "sustained" THEN Finish /\ UNCHANGED <<window, levels>>
       ELSE IF kind = "ramp" THEN at' = "rest" /\ UNCHANGED <<window, levels, claim>>
       ELSE /\ at' = IF BrokenOff \/ kind # "spike" THEN "over" ELSE "window"
            /\ window' = Following
            /\ levels' = Append(levels, [level |-> window, calls |-> outcome.total - before.total, good |-> FALSE])
            /\ UNCHANGED claim
    /\ UNCHANGED <<kind, plan, left, session, outcome, recorded, cancelled, closed, made, own, calling, mid, quit, before, seen>>

\* The share of failed requests, in per cent; of no requests it is 0.
ErrorRateAbove(budget) == seen.total > 0 /\ (seen.total - seen.good) * 100 > budget * seen.total

\* The detector's verdict on the level: its p99 is above the budget, which takes a
\* request with a latency, or its error rate is.
LevelJudged ==
    /\ kind = "ramp" /\ at = "rest" /\ (closed \/ cancelled \/ BrokenOff)
    /\ \E slow \in BOOLEAN :
          /\ slow => plan.detect /\ seen.good > 0
          /\ LET broke == plan.detect /\ (slow \/ ErrorRateAbove(plan.budget)) IN
             /\ levels' = Append(levels, [level |-> window, calls |-> seen.total, good |-> plan.detect /\ ~broke])
             /\ IF broke THEN at' = "over" /\ claim' = "broke" /\ UNCHANGED window
                ELSE IF BrokenOff THEN Finish /\ UNCHANGED window
                ELSE at' = "window" /\ window' = Following /\ UNCHANGED claim
    /\ UNCHANGED <<kind, plan, left, session, outcome, recorded, cancelled, closed, made, own, calling, mid, quit, before, seen>>

-----------------------------------------------------------------------------
LoadStep ==
    \/ LoadBegins \/ WindowsOver \/ SkipPhase \/ WindowOpens \/ WindowJoined \/ LevelJudged
    \/ \E w \in Sessions : CallBegins(w) \/ CallDropped(w) \/ CallerStops(w)

LoadEnvironment == WindowCloses \/ \E w \in Sessions : LoadCall(w) \/ CallerDies(w)
=============================================================================
