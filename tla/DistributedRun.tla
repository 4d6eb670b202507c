--------------------------- MODULE DistributedRun ---------------------------
(***************************************************************************)
(* One distributed run: the controller of cli/src/distributed/             *)
(* controller.rs, one peer task per agent, the worker processes of         *)
(* worker.rs with their engines, and the SSH pipes between them.           *)
(*                                                                         *)
(* up[a] is the pipe from worker a together with the controller's event    *)
(* queue: peer tasks forward frames in pipe order and the controller takes *)
(* the next event of any agent, so one queue per agent has the behaviours  *)
(* of the pipe followed by the shared queue.  A "closed" entry is the peer *)
(* task's last event; a task that is "draining" has left its loop and      *)
(* waits for the SSH client's stderr to end.  down[a] is the peer's        *)
(* command queue together with the pipe to the worker.  Clocks are not     *)
(* modelled: a deadline may expire at any moment while the loop that       *)
(* watches it runs.                                                        *)
(***************************************************************************)
EXTENDS ControllerJob, Sequences

CONSTANTS
    MaxBeats,    \* bound: heartbeats one worker sends
    Faults,      \* which of FaultKind this instance allows
    NoReadiness  \* the engine has not reached its start gate

FaultKind == {"launch", "crash", "link", "timeout", "engine", "policy"}

Readiness == [full: BOOLEAN, sig: Signature]

ASSUME RunAssumption ==
    /\ MaxBeats \in Nat
    /\ Faults \subseteq FaultKind
    /\ NoReadiness \notin Readiness

VARIABLES
    stage,      \* which loop of drive_controller runs, or ran last
    verdict,    \* what run_controller has decided so far
    cause,      \* why drive_controller bailed out
    peer,       \* peer task and SSH client of each agent
    up,         \* frames from each agent, oldest first
    down,       \* frames to each agent, oldest first
    proc,       \* worker process of each agent
    aphase,     \* AgentStateMachine.phase of each worker
    engine,     \* the engine task of each worker
    readiness,  \* what the engine announced at its start gate
    beats       \* heartbeats sent by each worker

ctlVars == <<stage, verdict, cause>>
workerVars == <<proc, aphase, engine, readiness, beats>>
vars == <<jobVars, ctlVars, peer, up, down, workerVars>>

ControllerFrame == {"prepare", "start", "cancel"}
Closed == [type |-> "closed"]
Event == AgentFrame \cup {Closed}

AgentPhase == {"AwaitingPrepare", "Preparing", "Ready", "Running",
               "Finished", "Failed", "Cancelled"}

TypeOK ==
    /\ JobTypeOK
    /\ stage \in {"launch", "connect", "prepare", "run"}
    /\ verdict \in {"pending", "failed", "cancelled", "done", "report", "error"}
    /\ cause \in {"none", "launch", "early_frame", "rejected", "agent_failed",
                  "disconnected", "send", "timeout"}
    /\ peer \in [Agent -> {"none", "open", "draining", "closed"}]
    /\ up \in [Agent -> Seq(Event)]
    /\ down \in [Agent -> Seq(ControllerFrame)]
    /\ proc \in [Agent -> {"none", "boot", "up", "exited"}]
    /\ aphase \in [Agent -> AgentPhase]
    /\ engine \in [Agent -> {"idle", "starting", "gated", "load", "done", "failed"}]
    /\ readiness \in [Agent -> Readiness \cup {NoReadiness}]
    /\ beats \in [Agent -> 0..MaxBeats]

Init ==
    /\ JobInit
    /\ stage = "launch" /\ verdict = "pending" /\ cause = "none"
    /\ peer = [a \in Agent |-> "none"]
    /\ up = [a \in Agent |-> <<>>]
    /\ down = [a \in Agent |-> <<>>]
    /\ proc = [a \in Agent |-> "none"]
    /\ aphase = [a \in Agent |-> "AwaitingPrepare"]
    /\ engine = [a \in Agent |-> "idle"]
    /\ readiness = [a \in Agent |-> NoReadiness]
    /\ beats = [a \in Agent |-> 0]

-----------------------------------------------------------------------------
(***************************************************************************)
(* run_controller and drive_controller.                                    *)
(***************************************************************************)
Driving == verdict = "pending"

Bail(c) == verdict' = "failed" /\ cause' = c

\* Frames queued for agents whose peer task still reads its command queue.
SendTo(S, f) ==
    down' = [a \in Agent |-> IF a \in S /\ peer[a] = "open"
                             THEN Append(down[a], f) ELSE down[a]]

Launch(a) ==
    /\ Driving /\ stage = "launch" /\ peer[a] = "none"
    /\ peer' = [peer EXCEPT ![a] = "open"]
    /\ proc' = [proc EXCEPT ![a] = "boot"]
    /\ stage' = IF \A b \in Agent \ {a} : peer[b] # "none" THEN "connect" ELSE stage
    /\ UNCHANGED <<jobVars, verdict, cause, up, down, aphase, engine, readiness, beats>>

\* `launch(&spec)?' returns at once: the peers launched so far are dropped.
LaunchFails ==
    /\ "launch" \in Faults
    /\ Driving /\ stage = "launch"
    /\ verdict' = "error" /\ cause' = "launch"
    /\ UNCHANGED <<jobVars, stage, peer, up, down, workerVars>>

\* The connect loop: each agent's first frame, answered with Prepare.
ReceiveConnecting(a) ==
    /\ Driving /\ stage = "connect" /\ up[a] # <<>>
    /\ up' = [up EXCEPT ![a] = Tail(@)]
    /\ LET f == Head(up[a]) IN
       \/ /\ f = Closed
          /\ Bail("disconnected")
          /\ UNCHANGED <<jobVars, stage, down>>
       \/ /\ f # Closed /\ phase[a] # "AwaitingHello"
          /\ Bail("early_frame")
          /\ UNCHANGED <<jobVars, stage, down>>
       \/ /\ f # Closed /\ phase[a] = "AwaitingHello" /\ ~Acceptable(a, f)
          /\ Accept(a, f)
          /\ Bail("rejected")
          /\ UNCHANGED <<stage, down>>
       \/ /\ f # Closed /\ phase[a] = "AwaitingHello" /\ Acceptable(a, f)
          /\ Accept(a, f)
          /\ SendTo(IF f.type = "hello" THEN {a} ELSE {}, "prepare")
          /\ \/ UNCHANGED <<verdict, cause>>
             \/ peer[a] = "closed" /\ Bail("send")
          /\ stage' = IF \A b \in Agent \ {a} : phase[b] # "AwaitingHello"
                      THEN "prepare" ELSE stage
    /\ UNCHANGED <<peer, workerVars>>

\* The prepare and run loops: accept the frame, then look for a failure.
Receive(a) ==
    /\ Driving /\ up[a] # <<>>
    /\ \/ stage = "prepare" /\ ~AllReady
       \/ stage = "run" /\ ~IsTerminal
    /\ up' = [up EXCEPT ![a] = Tail(@)]
    /\ LET f == Head(up[a]) IN
       \/ f = Closed /\ Bail("disconnected") /\ UNCHANGED jobVars
       \/ f # Closed /\ ~Acceptable(a, f) /\ Accept(a, f) /\ Bail("rejected")
       \/ /\ f # Closed /\ Acceptable(a, f) /\ Accept(a, f)
          /\ \/ HasFailure' /\ Bail("agent_failed")
             \/ ~HasFailure' /\ UNCHANGED <<verdict, cause>>
    /\ UNCHANGED <<stage, peer, down, workerVars>>

\* mutant: the gate opens when the first agent is ready
ReleaseFirstReady ==
    /\ Driving /\ stage = "prepare" /\ \E a \in Agent : phase[a] = "Ready"
    /\ phase' = [a \in Agent |-> IF phase[a] = "Ready" THEN "Running" ELSE phase[a]]
    /\ UNCHANGED <<readySig, progress, final>>
    /\ stage' = "run"
    /\ SendTo({a \in Agent : phase[a] = "Ready"}, "start")
    /\ UNCHANGED <<verdict, cause, peer, up, workerVars>>

\* start_all, then one Start per agent in name order; a dead peer task stops it.
Release ==
    /\ Driving /\ stage = "prepare"
    /\ StartAll
    /\ stage' = "run"
    /\ \/ SendTo(Agent, "start") /\ UNCHANGED <<verdict, cause>>
       \/ \E c \in Agent : /\ peer[c] = "closed"
                           /\ \E S \in SUBSET (Agent \ {c}) : SendTo(S, "start")
                           /\ Bail("send")
    /\ UNCHANGED <<peer, up, workerVars>>

\* mutant: only connecting is bounded
DeadlineExpiresOnConnect ==
    /\ Driving /\ "timeout" \in Faults /\ stage = "connect"
    /\ Bail("timeout")
    /\ UNCHANGED <<jobVars, stage, peer, up, down, workerVars>>

\* connect_timeout, ready_timeout and the bounded completion deadline.
DeadlineExpires ==
    /\ Driving /\ "timeout" \in Faults
    /\ \/ stage = "connect"
       \/ stage = "prepare" /\ ~AllReady
       \/ stage = "run" /\ ~IsTerminal
    /\ Bail("timeout")
    /\ UNCHANGED <<jobVars, stage, peer, up, down, workerVars>>

\* Only agents that still owe heartbeats can miss one.
HeartbeatMissed(a) ==
    /\ Driving /\ "timeout" \in Faults
    /\ stage = "run" /\ phase[a] \in {"Preparing", "Ready", "Running"}
    /\ Bail("timeout")
    /\ UNCHANGED <<jobVars, stage, peer, up, down, workerVars>>

\* mutant: the run loop ends with the first agent that finished
RunLoopEndsOnFirst ==
    /\ Driving /\ stage = "run" /\ \E a \in Agent : phase[a] \in TerminalPhase
    /\ verdict' = "done"
    /\ UNCHANGED <<jobVars, stage, cause, peer, up, down, workerVars>>

\* drive_controller returns Ok.
RunLoopEnds ==
    /\ Driving /\ stage = "run" /\ IsTerminal /\ ~HasFailure
    /\ verdict' = "done"
    /\ UNCHANGED <<jobVars, stage, cause, peer, up, down, workerVars>>

\* cancel_and_stop up to its 100 ms sleep.
CancelCohort ==
    /\ verdict = "failed"
    /\ CancelAll
    /\ SendTo(CancelTargets, "cancel")
    /\ verdict' = "cancelled"
    /\ UNCHANGED <<stage, cause, peer, up, workerVars>>

\* The peer task of a stops forwarding: a suffix of what was queued for the
\* worker is lost.
EndPeer(a, p) ==
    /\ peer' = [peer EXCEPT ![a] = p]
    /\ \E n \in 0..Len(down[a]) : down' = [down EXCEPT ![a] = SubSeq(@, 1, n)]

TaskLives(a) == peer[a] \in {"open", "draining"}

\* stop_peers: drop the commands, abort the task and its SSH client, wait for it.
StopPeer(a) ==
    /\ verdict \in {"cancelled", "done"} /\ TaskLives(a)
    /\ EndPeer(a, "closed")
    /\ UNCHANGED <<jobVars, ctlVars, up, workerVars>>

\* aggregate_evidence refuses results measured against different targets.
SameTarget == \A a, b \in Agent : final[a].sig = final[b].sig

\* run_controller returns, after stop_peers: a report only from a full set of
\* final results that aggregate.
Return ==
    /\ verdict \in {"cancelled", "done"} /\ \A a \in Agent : ~TaskLives(a)
    /\ verdict' = IF verdict = "done" /\ FinalEvidenceOk /\ SameTarget
                  THEN "report" ELSE "error"
    /\ UNCHANGED <<jobVars, stage, cause, peer, up, down, workerVars>>

-----------------------------------------------------------------------------
(***************************************************************************)
(* spawn_peer: the task that moves frames between one agent's pipes and    *)
(* the controller.                                                         *)
(***************************************************************************)
\* The worker is gone, and its SSH client with it: the task forwards what is
\* left, then its Closed event.
PeerSeesEof(a) ==
    /\ TaskLives(a) /\ proc[a] = "exited"
    /\ EndPeer(a, "closed")
    /\ up' = [up EXCEPT ![a] = Append(@, Closed)]
    /\ UNCHANGED <<jobVars, ctlVars, workerVars>>

\* The SSH client dies while the worker lives; frames already forwarded are kept.
LinkBreaks(a) ==
    /\ TaskLives(a) /\ "link" \in Faults
    /\ EndPeer(a, "closed")
    /\ \E n \in 0..Len(up[a]) :
          up' = [up EXCEPT ![a] = Append(SubSeq(@, 1, n), Closed)]
    /\ UNCHANGED <<jobVars, ctlVars, workerVars>>

\* receive fails over a link that is alive: the 50 ms poll gave up inside a frame
\* and the rest of it does not parse.  The task says Closed only when the SSH
\* client's stderr ends; until then it reads neither side.
PeerReceiveFails(a) ==
    /\ peer[a] = "open" /\ "link" \in Faults
    /\ EndPeer(a, "draining")
    /\ \E n \in 0..Len(up[a]) : up' = [up EXCEPT ![a] = SubSeq(@, 1, n)]
    /\ UNCHANGED <<jobVars, ctlVars, workerVars>>

\* run_controller returned without stop_peers: the poll finds the command queue
\* closed, or the runtime drops the task when the process returns.
PeerAbandoned(a) ==
    /\ TaskLives(a) /\ verdict = "error"
    /\ EndPeer(a, "closed")
    /\ UNCHANGED <<jobVars, ctlVars, up, workerVars>>

-----------------------------------------------------------------------------
(***************************************************************************)
(* run_agent and the AgentStateMachine of each worker.                     *)
(***************************************************************************)
Send(a, f) == up' = IF peer[a] = "open" THEN [up EXCEPT ![a] = Append(@, f)] ELSE up

Exit(a) == proc' = [proc EXCEPT ![a] = "exited"]

\* AgentStateMachine::accept: the frames that are legal in each phase.
LegalFrame(p) ==
    CASE p = "AwaitingPrepare" -> {"prepare"}
      [] p = "Ready"           -> {"start", "cancel"}
      [] p \in {"Preparing", "Running"} -> {"cancel"}
      [] OTHER -> {}

Receives(a, f) ==
    /\ proc[a] = "up" /\ down[a] # <<>> /\ Head(down[a]) = f
    /\ f \in LegalFrame(aphase[a])
    /\ down' = [down EXCEPT ![a] = Tail(@)]

SayHello(a) ==
    /\ proc[a] = "boot"
    /\ proc' = [proc EXCEPT ![a] = "up"]
    /\ \E c \in BOOLEAN : /\ c \/ "policy" \in Faults
                          /\ Send(a, [type |-> "hello", capable |-> c])
    /\ UNCHANGED <<jobVars, ctlVars, peer, down, aphase, engine, readiness, beats>>

\* Prepare binds the job.  The worker's own policy may refuse it with a Failed
\* frame; a config or scenario that does not build ends the worker silently.
ReceivePrepare(a) ==
    /\ Receives(a, "prepare")
    /\ \/ /\ aphase' = [aphase EXCEPT ![a] = "Preparing"]
          /\ engine' = [engine EXCEPT ![a] = "starting"]
          /\ UNCHANGED <<up, proc>>
       \/ /\ "policy" \in Faults
          /\ aphase' = [aphase EXCEPT ![a] = "Failed"]
          /\ Send(a, [type |-> "failed", bound |-> TRUE])
          /\ Exit(a)
          /\ UNCHANGED engine
       \/ /\ "engine" \in Faults
          /\ aphase' = [aphase EXCEPT ![a] = "Preparing"]
          /\ Exit(a)
          /\ UNCHANGED <<up, engine>>
    /\ UNCHANGED <<jobVars, ctlVars, peer, readiness, beats>>

\* The engine calls ready_and_start_at with whatever sessions it has live.
EngineReady(a) ==
    /\ proc[a] = "up" /\ engine[a] = "starting"
    /\ engine' = [engine EXCEPT ![a] = "gated"]
    /\ \E r \in Readiness :
          /\ r.full \/ "engine" \in Faults
          /\ readiness' = [readiness EXCEPT ![a] = r]
    /\ UNCHANGED <<jobVars, ctlVars, peer, up, down, proc, aphase, beats>>

\* The control loop finds the readiness and announces it.
SendReady(a) ==
    /\ proc[a] = "up" /\ aphase[a] = "Preparing" /\ readiness[a] # NoReadiness
    /\ aphase' = [aphase EXCEPT ![a] = "Ready"]
    /\ Send(a, [type |-> "ready", bound |-> TRUE,
                full |-> readiness[a].full, sig |-> readiness[a].sig])
    /\ UNCHANGED <<jobVars, ctlVars, peer, down, proc, engine, readiness, beats>>

Heartbeat(a) ==
    /\ proc[a] = "up" /\ aphase[a] \in {"Preparing", "Ready", "Running"}
    /\ beats[a] < MaxBeats
    /\ beats' = [beats EXCEPT ![a] = @ + 1]
    /\ Send(a, [type |-> "heartbeat", bound |-> TRUE])
    /\ UNCHANGED <<jobVars, ctlVars, peer, down, proc, aphase, engine, readiness>>

\* mutant: the gate opens while the engine waits, without a Start frame
ReceiveStartUngated(a) ==
    /\ proc[a] = "up" /\ aphase[a] = "Ready"
    /\ aphase' = [aphase EXCEPT ![a] = "Running"]
    /\ engine' = [engine EXCEPT ![a] = "load"]
    /\ UNCHANGED <<jobVars, ctlVars, peer, up, down, proc, readiness, beats>>

\* Start opens the gate on which the engine waits.
ReceiveStart(a) ==
    /\ Receives(a, "start")
    /\ aphase' = [aphase EXCEPT ![a] = "Running"]
    /\ engine' = [engine EXCEPT ![a] = "load"]
    /\ UNCHANGED <<jobVars, ctlVars, peer, up, proc, readiness, beats>>

EngineCompletes(a) ==
    /\ proc[a] = "up" /\ engine[a] = "load"
    /\ engine' = [engine EXCEPT ![a] = "done"]
    /\ UNCHANGED <<jobVars, ctlVars, peer, up, down, proc, aphase, readiness, beats>>

\* Run::execute returns Err, or returns without ever reaching the gate.
EngineFails(a) ==
    /\ proc[a] = "up" /\ engine[a] \in {"starting", "load"} /\ "engine" \in Faults
    /\ engine' = [engine EXCEPT ![a] = "failed"]
    /\ UNCHANGED <<jobVars, ctlVars, peer, up, down, proc, aphase, readiness, beats>>

\* mutant: the final frame does not wait for the run task
SendFinishedEarly(a) ==
    /\ proc[a] = "up" /\ engine[a] \in {"load", "done"} /\ aphase[a] = "Running"
    /\ aphase' = [aphase EXCEPT ![a] = "Finished"]
    /\ Send(a, [type |-> "finished", bound |-> TRUE,
                evidence |-> [sig |-> readiness[a].sig, upto |-> 0]])
    /\ Exit(a)
    /\ UNCHANGED <<jobVars, ctlVars, peer, down, engine, readiness, beats>>

\* The control loop finds the run finished: final frame, close, return.
SendFinished(a) ==
    /\ proc[a] = "up" /\ engine[a] = "done" /\ aphase[a] = "Running"
    /\ aphase' = [aphase EXCEPT ![a] = "Finished"]
    /\ Send(a, [type |-> "finished", bound |-> TRUE,
                evidence |-> [sig |-> readiness[a].sig, upto |-> 0]])
    /\ Exit(a)
    /\ UNCHANGED <<jobVars, ctlVars, peer, down, engine, readiness, beats>>

\* A failed run ends the worker without any frame.
GiveUp(a) ==
    /\ proc[a] = "up" /\ engine[a] = "failed"
    /\ Exit(a)
    /\ UNCHANGED <<jobVars, ctlVars, peer, up, down, aphase, engine, readiness, beats>>

\* Cancel aborts the engine task and is acknowledged.
ReceiveCancel(a) ==
    /\ Receives(a, "cancel")
    /\ aphase' = [aphase EXCEPT ![a] = "Cancelled"]
    /\ engine' = [engine EXCEPT ![a] = "failed"]
    /\ Send(a, [type |-> "cancelled", bound |-> TRUE])
    /\ Exit(a)
    /\ UNCHANGED <<jobVars, ctlVars, peer, readiness, beats>>

\* mutant: the worker waits for its run before it looks at the pipe again
WorkerIgnoresEof(a) ==
    /\ proc[a] = "up" /\ peer[a] = "closed" /\ down[a] = <<>> /\ engine[a] = "idle"
    /\ Exit(a)
    /\ UNCHANGED <<jobVars, ctlVars, peer, up, down, aphase, engine, readiness, beats>>

\* The controller's end of the pipe is gone: abort the run and exit.
WorkerSeesEof(a) ==
    /\ proc[a] \in {"boot", "up"} /\ peer[a] = "closed" /\ down[a] = <<>>
    /\ Exit(a)
    /\ UNCHANGED <<jobVars, ctlVars, peer, up, down, aphase, engine, readiness, beats>>

\* A crash, a send into a pipe that is gone, or a receive error: the worker's own
\* poll gave up inside a frame.
WorkerDies(a) ==
    /\ proc[a] \in {"boot", "up"} /\ "crash" \in Faults
    /\ Exit(a)
    /\ UNCHANGED <<jobVars, ctlVars, peer, up, down, aphase, engine, readiness, beats>>

-----------------------------------------------------------------------------
Controller == \/ \E a \in Agent : Launch(a) \/ ReceiveConnecting(a) \/ Receive(a)
              \/ \E a \in Agent : HeartbeatMissed(a) \/ StopPeer(a)
              \/ LaunchFails \/ Release \/ DeadlineExpires \/ RunLoopEnds
              \/ CancelCohort \/ Return

PeerTask(a) == PeerSeesEof(a) \/ LinkBreaks(a) \/ PeerReceiveFails(a) \/ PeerAbandoned(a)

Worker(a) == \/ SayHello(a) \/ ReceivePrepare(a) \/ SendReady(a) \/ Heartbeat(a)
             \/ ReceiveStart(a) \/ SendFinished(a) \/ GiveUp(a) \/ ReceiveCancel(a)
             \/ WorkerSeesEof(a) \/ WorkerDies(a)

Engine(a) == EngineReady(a) \/ EngineCompletes(a) \/ EngineFails(a)

Next == Controller \/ \E a \in Agent : PeerTask(a) \/ Worker(a) \/ Engine(a)

Spec == Init /\ [][Next]_vars

\* The controller's loops and their deadlines, the peer tasks' polls and the
\* workers' control loops are driven by timers and cannot be put off for ever;
\* an engine may hang, a launch may fail, and no fault has to happen.
Fairness ==
    /\ WF_vars(Release \/ RunLoopEnds \/ CancelCohort \/ Return)
    /\ WF_vars(DeadlineExpires)
    /\ \A a \in Agent :
          /\ WF_vars(Launch(a)) /\ WF_vars(StopPeer(a))
          /\ WF_vars(PeerSeesEof(a) \/ PeerAbandoned(a))
          /\ WF_vars(ReceivePrepare(a) \/ ReceiveStart(a) \/ ReceiveCancel(a) \/ WorkerSeesEof(a))
          /\ WF_vars(SayHello(a)) /\ WF_vars(GiveUp(a))

FairSpec == Spec /\ Fairness

-----------------------------------------------------------------------------
(***************************************************************************)
(* Properties.                                                             *)
(***************************************************************************)

\* No worker offers load before every agent of the cohort announced all its
\* sessions live, against one target (ReadyFrame, ready_signature, start_all,
\* WorkerGate): whatever crashes, disconnects or times out in between.
CohortGate ==
    \A a \in Agent : engine[a] \in {"load", "done"} =>
        \A b \in Agent : /\ readiness[b] # NoReadiness
                         /\ readiness[b].full
                         /\ readiness[b].sig = readiness[a].sig

\* run_controller reports only when every worker completed its own run and
\* sent it: no report from a partial, failed or cancelled cohort.
ReportIsComplete ==
    verdict = "report" =>
        \A a \in Agent : /\ aphase[a] = "Finished" /\ engine[a] = "done"
                         /\ final[a].sig = readiness[a].sig

\* The controller never sends a frame that its worker's state machine refuses
\* (AgentStateMachine::accept would end the worker with UnexpectedFrame), also
\* when cancellation overtakes preparation or a peer dies during the start.
NoUnexpectedFrame ==
    \A a \in Agent :
        proc[a] = "up" /\ down[a] # <<>> => Head(down[a]) \in LegalFrame(aphase[a])

\* The whole cohort or none of it: nobody runs before all are ready, nobody is asked
\* for what its state machine refuses, and nobody is missing from a report
\* (run_controller, run_agent).
CohortIsSafe == CohortGate /\ ReportIsComplete /\ NoUnexpectedFrame

\* A frame waits on up[a] only as the worker's phase and announcement allow.
FrameOK(a, f) ==
    /\ aphase[a] = "AwaitingPrepare" => f.type \in {"hello", "closed"}
    /\ f.type = "ready" => /\ aphase[a] # "Preparing"
                           /\ readiness[a] = [full |-> f.full, sig |-> f.sig]
    /\ f.type = "finished" => /\ aphase[a] = "Finished"
                              /\ f.evidence.sig = readiness[a].sig

\* The controller's phase of an agent never runs ahead of the worker's own.
FramesInv(a) ==
    /\ \A i \in 1..Len(up[a]) : FrameOK(a, up[a][i])
    /\ phase[a] = "AwaitingHello" => aphase[a] = "AwaitingPrepare" /\ down[a] = <<>>
    /\ phase[a] \in {"Ready", "Running", "Finished"} =>
          /\ aphase[a] \notin {"AwaitingPrepare", "Preparing"}
          /\ readiness[a] = [full |-> TRUE, sig |-> readySig]
    /\ phase[a] = "Finished" =>
          /\ aphase[a] = "Finished"
          /\ final[a].sig = readiness[a].sig

\* The worker's phase, its engine and its announcement move together.
WorkerInv(a) ==
    /\ aphase[a] = "AwaitingPrepare" => engine[a] = "idle"
    /\ engine[a] \in {"idle", "starting"} => readiness[a] = NoReadiness
    /\ engine[a] \in {"gated", "load", "done"} => readiness[a] # NoReadiness
    /\ aphase[a] \in {"Ready", "Running", "Finished"} => readiness[a] # NoReadiness
    /\ aphase[a] = "Running" \/ engine[a] \in {"load", "done"} => stage = "run"
    /\ aphase[a] = "Finished" => engine[a] = "done"
    /\ aphase[a] \in {"Finished", "Failed", "Cancelled"} => proc[a] = "exited"
    /\ proc[a] \in {"none", "boot"} =>
          /\ aphase[a] = "AwaitingPrepare" /\ down[a] = <<>>
          /\ phase[a] \in {"AwaitingHello", "Cancelled"}
          /\ \A i \in 1..Len(up[a]) : up[a][i] = Closed
    /\ proc[a] = "none" <=> peer[a] = "none"

\* The stages only go forward: connecting ends when every agent said hello, and
\* the run stage is entered when the whole cohort has announced.
StageInv ==
    /\ stage \in {"prepare", "run"} => \A a \in Agent : phase[a] # "AwaitingHello"
    /\ stage = "run" => /\ readySig # NoSig
                        /\ \A a \in Agent : readiness[a] = [full |-> TRUE, sig |-> readySig]

\* Cancellation comes after the verdict, and success with all the evidence.
VerdictInv ==
    /\ verdict \in {"pending", "failed"} =>
          \A a \in Agent : phase[a] \notin {"Cancelling", "Cancelled"}
    /\ verdict \in {"done", "report"} => FinalEvidenceOk

CancelSent == verdict \in {"cancelled", "report", "error"}

\* What waits for a live worker: at most the frame it expects next and a Cancel
\* that overtakes nothing.
CommandsInv(a) ==
    proc[a] = "up" =>
        /\ Len(down[a]) \in 0..2
        /\ Len(down[a]) > 0 => /\ down[a][1] \in LegalFrame(aphase[a])
                               /\ stage # "run" => down[a][1] # "start"
        /\ Len(down[a]) = 2 => down[a][1] # "cancel" /\ down[a][2] = "cancel"
        /\ ~CancelSent =>
              /\ Len(down[a]) # 2
              /\ Len(down[a]) = 1 => down[a][1] # "cancel"
              /\ /\ peer[a] = "open" /\ phase[a] # "AwaitingHello"
                 /\ aphase[a] = "AwaitingPrepare"
                 => Len(down[a]) = 1

\* The inductive invariant from which the safety properties follow.
IInv ==
    /\ TypeOK
    /\ JobInv
    /\ StageInv
    /\ VerdictInv
    /\ \A a \in Agent : FramesInv(a) /\ WorkerInv(a) /\ CommandsInv(a)

\* run_controller always returns: its loops are bounded by deadlines.
ControllerReturns == <>(verdict \in {"report", "error"})

\* No worker process is left behind generating load (end of stdin, Cancel,
\* failed launch): each one ends, even if its engine hangs.
WorkersEnd == <>[](\A a \in Agent : proc[a] \in {"none", "exited"})

\* Whatever hangs, crashes or falls silent, the controller returns and no worker is
\* left running (run_controller, run_agent).
EveryoneEnds == ControllerReturns /\ WorkersEnd

\* protocol.rs: heartbeats are "required ... while preparing or running", so an
\* agent that was sent Prepare may heartbeat while others still connect.
PreparedAgentMaySpeak == cause # "early_frame"

\* FinishedFrame is a "successful worker completion", after which the worker
\* closes its channel: that alone is no reason to fail the job.
FinishedAgentMayLeave ==
    verdict = "failed" /\ cause = "disconnected" =>
        \E a \in Agent : peer[a] = "closed" /\ phase[a] # "Finished"
-----------------------------------------------------------------------------
(***************************************************************************)
(* The run implements CohortRun.                                           *)
(***************************************************************************)
Member(a) ==
    CASE aphase[a] = "Finished"                         -> "complete"
      [] aphase[a] # "Finished" /\ proc[a] = "exited"   -> "stopped"
      [] aphase[a] = "Running" /\ proc[a] # "exited"    -> "load"
      [] OTHER                                          -> "preparing"

Outcome == CASE verdict \in {"pending", "done"} -> "pending"
             [] verdict = "report"              -> "report"
             [] OTHER                           -> "error"

BothLiveOnOneTarget(r, s) == r.full /\ s.full /\ r.sig = s.sig

Cohort == INSTANCE CohortRun WITH
    Agree     <- BothLiveOnOneTarget,
    gate      <- stage = "run",
    member    <- [a \in Agent |-> Member(a)],
    announced <- readiness,
    outcome   <- Outcome

\* Frames, queues, peer tasks and both state machines together do no more than
\* the all-or-nothing cohort allows (run_controller, run_agent).
CohortRefinement == Cohort!Spec
=============================================================================
