------------------------- MODULE DistributedRunProofs -------------------------
(***************************************************************************)
(* ControllerJob keeps its inductive invariant JobInv for every cohort and *)
(* every set of signatures; and the safety of DistributedRun, whose        *)
(* controller takes the same steps, for every cohort, every set of         *)
(* signatures and every combination of faults.                             *)
(***************************************************************************)
EXTENDS DistributedRun, SequenceTheorems, TLAPS

-----------------------------------------------------------------------------
(***************************************************************************)
(* The state of the job.                                                   *)
(***************************************************************************)
USE DEF TerminalPhase

\* The initial job satisfies the invariant (ControllerJobState::new).
LEMMA JobInitInv == JobInit => JobInv
BY MaxSeqAssumption, EvidenceAssumption
   DEF JobInit, JobInv, JobTypeOK, EvidenceOnlyFromFinished, ControllerAgentPhase,
       NoProgress, Progress

\* A frame with evidence carries a member of Evidence and a legal sequence number.
LEMMA FrameFields ==
    ASSUME NEW f \in AgentFrame
    PROVE  /\ f.type = "ready" => f.sig \in Signature
           /\ f.type = "progress" => f.seq \in 0..MaxSeq /\ f.evidence \in Evidence
           /\ f.type = "finished" => f.evidence \in Evidence
BY DEF AgentFrame

\* accept keeps the invariant, whatever frame arrives in whatever phase.
LEMMA AcceptInv ==
    ASSUME JobInv, NEW a \in Agent, NEW f \in AgentFrame, Accept(a, f)
    PROVE  JobInv'
<1> USE SignatureAssumption, EvidenceAssumption, MaxSeqAssumption, FrameFields
    DEF JobInv, JobTypeOK, EvidenceOnlyFromFinished, ControllerAgentPhase, Progress, SetPhase
<1>1. CASE AcceptHello(a, f)
  BY <1>1 DEF AcceptHello
<1>2. CASE AcceptReady(a, f)
  BY <1>2 DEF AcceptReady
<1>3. CASE FailReady(a, f)
  BY <1>3 DEF FailReady
<1>4. CASE AcceptProgress(a, f)
  BY <1>4 DEF AcceptProgress
<1>5. CASE AcceptHeartbeat(a, f)
  BY <1>5 DEF AcceptHeartbeat, jobVars
<1>6. CASE AcceptFinished(a, f)
  BY <1>6 DEF AcceptFinished
<1>7. CASE AcceptCancelled(a, f)
  BY <1>7 DEF AcceptCancelled
<1>8. CASE AcceptFailed(a, f)
  BY <1>8 DEF AcceptFailed
<1>9. CASE RejectFrame(a, f)
  BY <1>9 DEF RejectFrame, jobVars
<1>10. QED
  BY <1>1, <1>2, <1>3, <1>4, <1>5, <1>6, <1>7, <1>8, <1>9 DEF Accept

\* start_all keeps the invariant: it needs every agent ready.
LEMMA StartAllInv ==
    ASSUME JobInv, StartAll
    PROVE  JobInv'
BY DEF JobInv, JobTypeOK, EvidenceOnlyFromFinished, ControllerAgentPhase, StartAll, AllReady

\* cancel_all keeps the invariant: it leaves finished agents finished.
LEMMA CancelAllInv ==
    ASSUME JobInv, CancelAll
    PROVE  JobInv'
BY DEF JobInv, JobTypeOK, EvidenceOnlyFromFinished, ControllerAgentPhase, CancelAll

\* JobInv is inductive: no operation of ControllerJobState breaks it.
LEMMA JobInvariant == JobSpec => []JobInv
<1>1. JobInv /\ [JobNext]_jobVars => JobInv'
  <2> SUFFICES ASSUME JobInv, [JobNext]_jobVars PROVE JobInv'
    OBVIOUS
  <2>1. CASE UNCHANGED jobVars
    BY <2>1 DEF jobVars, JobInv, JobTypeOK, EvidenceOnlyFromFinished
  <2>2. CASE JobNext
    BY <2>2, AcceptInv, StartAllInv, CancelAllInv DEF JobNext
  <2>3. QED
    BY <2>1, <2>2
<1>2. QED
  BY JobInitInv, <1>1, PTL DEF JobSpec

\* Final evidence belongs to exactly the agents that finished, under every
\* order of frames, starts and cancellations (ControllerJobState).
THEOREM JobEvidence == JobSpec => []EvidenceOnlyFromFinished
<1>1. JobInv => EvidenceOnlyFromFinished
  BY DEF JobInv
<1>2. QED
  BY JobInvariant, <1>1, PTL

\* An agent that ended stays as it ended, under every order of frames, starts
\* and cancellations (accept, start_all, cancel_all).
THEOREM JobTerminalPhases == JobSpec => TerminalPhasesAreKept
<1>1. JobInv /\ [JobNext]_jobVars
        => [\A a \in Agent : phase[a] \in TerminalPhase => phase'[a] = phase[a]]_jobVars
  <2> SUFFICES ASSUME JobInv, JobNext, NEW a \in Agent, phase[a] \in TerminalPhase
               PROVE  phase'[a] = phase[a]
    OBVIOUS
  <2> USE DEF JobInv, JobTypeOK, SetPhase
  <2>1. CASE \E b \in Agent, f \in AgentFrame : Accept(b, f)
    <3> PICK b \in Agent, f \in AgentFrame : Accept(b, f)
      BY <2>1
    <3> QED
      BY DEF Accept, AcceptHello, AcceptReady, FailReady, AcceptProgress, AcceptHeartbeat,
             AcceptFinished, AcceptCancelled, AcceptFailed, RejectFrame, jobVars
  <2>2. CASE StartAll
    BY <2>2 DEF StartAll, AllReady
  <2>3. CASE CancelAll
    BY <2>3 DEF CancelAll
  <2>4. QED
    BY <2>1, <2>2, <2>3 DEF JobNext
<1>2. QED
  BY JobInvariant, <1>1, PTL DEF JobSpec, TerminalPhasesAreKept
\* The newest evidence of an agent is replaced only by newer one, under every order of
\* frames, starts and cancellations (accept's Progress and Finished arms).
THEOREM JobEvidenceForward == JobSpec => LatestEvidenceMovesForward
<1>1. JobInv /\ [JobNext]_jobVars
        => [\A a \in Agent :
              /\ final[a] # NoEvidence => final'[a] = final[a]
              /\ progress'[a] = progress[a] \/ progress'[a].seq > progress[a].seq]_jobVars
  <2> SUFFICES ASSUME JobInv, JobNext, NEW a \in Agent
               PROVE  /\ final[a] # NoEvidence => final'[a] = final[a]
                      /\ progress'[a] = progress[a] \/ progress'[a].seq > progress[a].seq
    OBVIOUS
  <2> USE DEF JobInv, JobTypeOK, EvidenceOnlyFromFinished
  <2>1. CASE \E b \in Agent, f \in AgentFrame : Accept(b, f)
    <3> PICK b \in Agent, f \in AgentFrame : Accept(b, f)
      BY <2>1
    <3>1. CASE AcceptProgress(b, f)
      BY <3>1 DEF AcceptProgress
    <3>2. CASE AcceptFinished(b, f)
      BY <3>2 DEF AcceptFinished
    <3>3. QED
      BY <3>1, <3>2 DEF Accept, AcceptHello, AcceptReady, FailReady, AcceptHeartbeat,
             AcceptCancelled, AcceptFailed, RejectFrame, jobVars
  <2>2. CASE StartAll \/ CancelAll
    BY <2>2 DEF StartAll, CancelAll
  <2>3. QED
    BY <2>1, <2>2 DEF JobNext
<1>2. QED
  BY JobInvariant, <1>1, PTL DEF JobSpec, LatestEvidenceMovesForward

\* What is settled of an agent, its end or its evidence, stays settled.
THEOREM JobSettled == JobSpec => SettledIsKept
BY JobTerminalPhases, JobEvidenceForward DEF SettledIsKept

\* Once an agent failed the cohort has no final evidence, ever (accept, final_evidence).
THEOREM JobFailureIsFinal == JobSpec => FailureIsFinal
<1>1. JobInv /\ HasFailure => ~FinalEvidenceOk
  BY DEF JobInv, EvidenceOnlyFromFinished, HasFailure, FinalEvidenceOk
<1>2. [\A a \in Agent : phase[a] \in TerminalPhase => phase'[a] = phase[a]]_jobVars
        /\ HasFailure => HasFailure'
  BY DEF HasFailure, jobVars
<1>3. TerminalPhasesAreKept => [](HasFailure => []HasFailure)
  BY <1>2, PTL DEF TerminalPhasesAreKept
<1>4. QED
  BY <1>1, <1>3, JobInvariant, JobTerminalPhases, PTL DEF FailureIsFinal

HIDE DEF TerminalPhase

-----------------------------------------------------------------------------
(***************************************************************************)
(* The run.                                                                *)
(***************************************************************************)
\* What the controller takes from up[a] is a frame of an agent or the peer
\* task's last event (receive, recv).
LEMMA HeadOfUp ==
    ASSUME up \in [Agent -> Seq(Event)], NEW a \in Agent, up[a] # <<>>
    PROVE  /\ Head(up[a]) \in Event
           /\ Tail(up[a]) \in Seq(Event)
           /\ Head(up[a]) # Closed => Head(up[a]) \in AgentFrame
           /\ 1 \in 1..Len(up[a]) /\ Head(up[a]) = up[a][1]
           /\ \A i \in 1..Len(Tail(up[a])) : /\ i + 1 \in 1..Len(up[a])
                                            /\ Tail(up[a])[i] = up[a][i + 1]
BY DEF Event

\* A pipe that holds nothing but Closed holds nothing else after a frame is taken
\* from it or it is cut and closed.
LEMMA OnlyClosedKept ==
    ASSUME up \in [Agent -> Seq(Event)], NEW a \in Agent, NEW b \in Agent,
           \/ up' = [up EXCEPT ![a] = Tail(@)] /\ up[a] # <<>>
           \/ \E n \in 0..Len(up[a]) : up' = [up EXCEPT ![a] = Append(SubSeq(@, 1, n), Closed)],
           \A i \in 1..Len(up[b]) : up[b][i] = Closed
    PROVE  \A i \in 1..Len(up'[b]) : up'[b][i] = Closed
<1>1. CASE b # a
  BY <1>1
<1>2. CASE b = a /\ up' = [up EXCEPT ![a] = Tail(@)] /\ up[a] # <<>>
  <2>1. up'[b] = Tail(up[a])
    BY <1>2
  <2>2. QED
    BY <1>2, <2>1, HeadOfUp
<1>3. ASSUME b = a, NEW n \in 0..Len(up[a]), up' = [up EXCEPT ![a] = Append(SubSeq(@, 1, n), Closed)]
      PROVE  \A i \in 1..Len(up'[b]) : up'[b][i] = Closed
  <2>1. up[a] \in Seq(Event) /\ Len(up[a]) \in Nat /\ Closed \in Event
    BY DEF Event
  <2>2. Len(SubSeq(up[a], 1, n)) = n /\ \A i \in 1..n : SubSeq(up[a], 1, n)[i] = up[a][i]
    BY <2>1
  <2>3. up'[b] = Append(SubSeq(up[a], 1, n), Closed)
    BY <1>3
  <2>4. \A i \in 1..n : i \in 1..Len(up[a])
    BY <2>1
  <2>5. /\ Len(up'[b]) = n + 1 /\ up'[b][n + 1] = Closed
        /\ \A i \in 1..n : up'[b][i] = up[a][i]
    BY <2>1, <2>2, <2>3
  <2>6. QED
    BY <1>3, <2>4, <2>5
<1>4. QED
  BY <1>1, <1>2, <1>3

\* The shapes of frames the workers send.
LEMMA WorkerFrames ==
    /\ \A c \in BOOLEAN : [type |-> "hello", capable |-> c] \in Event
    /\ \A r \in Readiness :
          [type |-> "ready", bound |-> TRUE, full |-> r.full, sig |-> r.sig] \in Event
    /\ \A s \in Signature :
          [type |-> "finished", bound |-> TRUE, evidence |-> [sig |-> s, upto |-> 0]] \in Event
    /\ \A t \in {"heartbeat", "failed", "cancelled"} : [type |-> t, bound |-> TRUE] \in Event
    /\ Closed \in Event
<1>1. \A s \in Signature : [sig |-> s, upto |-> 0] \in Evidence
  BY MaxSeqAssumption DEF Evidence
<1>2. QED
  BY <1>1 DEF Event, AgentFrame, Readiness

\* Cutting off a suffix leaves a sequence over the same set.
LEMMA EndPeerType ==
    ASSUME TypeOK, NEW a \in Agent, NEW p \in {"draining", "closed"}, EndPeer(a, p)
    PROVE  /\ peer' \in [Agent -> {"none", "open", "draining", "closed"}]
           /\ down' \in [Agent -> Seq(ControllerFrame)]
<1>1. \A n \in 0..Len(down[a]) : SubSeq(down[a], 1, n) \in Seq(ControllerFrame)
  BY DEF TypeOK
<1>2. QED
  BY <1>1 DEF EndPeer, TypeOK

LEMMA SendType ==
    ASSUME TypeOK, NEW a \in Agent, NEW f \in Event, Send(a, f)
    PROVE  up' \in [Agent -> Seq(Event)]
BY DEF Send, TypeOK

LEMMA SendToType ==
    ASSUME TypeOK, NEW S, NEW f \in ControllerFrame, SendTo(S, f)
    PROVE  down' \in [Agent -> Seq(ControllerFrame)]
BY DEF SendTo, TypeOK

LEMMA WorkerTypeOK ==
    ASSUME IInv, NEW a \in Agent, Worker(a) \/ Engine(a)
    PROVE  TypeOK'
<1>0. TypeOK /\ WorkerInv(a)
  BY DEF IInv
<1> USE <1>0, SendType, WorkerFrames, RunAssumption, SignatureAssumption
    DEF TypeOK, JobTypeOK, jobVars, ctlVars, Exit, AgentPhase, Receives
<1>1. CASE SayHello(a)
  <2>1. PICK c \in BOOLEAN : Send(a, [type |-> "hello", capable |-> c])
    BY <1>1 DEF SayHello
  <2>2. up' \in [Agent -> Seq(Event)]
    BY <2>1, SendType, WorkerFrames
  <2>3. /\ proc' = [proc EXCEPT ![a] = "up"]
        /\ UNCHANGED <<jobVars, ctlVars, peer, down, aphase, engine, readiness, beats>>
    BY <1>1 DEF SayHello
  <2>4. QED
    BY <2>2, <2>3 DEF Readiness
<1>2. CASE ReceivePrepare(a)
  <2>1. UNCHANGED up \/ Send(a, [type |-> "failed", bound |-> TRUE])
    BY <1>2 DEF ReceivePrepare, CommandsInv, LegalFrame
  <2>2. up' \in [Agent -> Seq(Event)]
    BY <2>1, SendType, WorkerFrames
  <2>3. /\ aphase' \in {[aphase EXCEPT ![a] = "Preparing"], [aphase EXCEPT ![a] = "Failed"]}
        /\ engine' \in {engine, [engine EXCEPT ![a] = "starting"]}
        /\ proc' \in {proc, [proc EXCEPT ![a] = "exited"]}
        /\ down' = [down EXCEPT ![a] = Tail(@)] /\ down[a] # <<>>
        /\ UNCHANGED <<jobVars, ctlVars, peer, readiness, beats>>
    BY <1>2 DEF ReceivePrepare, CommandsInv, LegalFrame
  <2>4. aphase' \in [Agent -> AgentPhase]
    BY <2>3
  <2>5. engine' \in [Agent -> {"idle", "starting", "gated", "load", "done", "failed"}]
    BY <2>3
  <2>6. proc' \in [Agent -> {"none", "boot", "up", "exited"}]
    BY <2>3
  <2>7. down' \in [Agent -> Seq(ControllerFrame)]
    BY <2>3
  <2>8. QED
    BY <2>2, <2>3, <2>4, <2>5, <2>6, <2>7
<1>3. CASE EngineReady(a)
  BY <1>3 DEF EngineReady, Readiness
<1>4. CASE SendReady(a)
  BY <1>4 DEF SendReady, Readiness
<1>5. CASE Heartbeat(a)
  BY <1>5 DEF Heartbeat, Readiness
<1>6. CASE ReceiveStart(a)
  BY <1>6 DEF ReceiveStart, Readiness
<1>7. CASE EngineCompletes(a)
  BY <1>7 DEF EngineCompletes, Readiness
<1>8. CASE EngineFails(a)
  BY <1>8 DEF EngineFails, Readiness
<1>9. CASE SendFinished(a)
  BY <1>9 DEF SendFinished, Readiness, WorkerInv
<1>10. CASE GiveUp(a)
  BY <1>10 DEF GiveUp, Readiness
<1>11. CASE ReceiveCancel(a)
  BY <1>11 DEF ReceiveCancel, Readiness
<1>12. CASE WorkerSeesEof(a)
  BY <1>12 DEF WorkerSeesEof, Readiness
<1>13. CASE WorkerDies(a)
  BY <1>13 DEF WorkerDies, Readiness
<1>14. QED
  BY <1>1, <1>2, <1>3, <1>4, <1>5, <1>6, <1>7, <1>8, <1>9, <1>10, <1>11, <1>12, <1>13 DEF Worker, Engine

\* The job's own invariant is kept by the controller, and nobody else touches
\* the job.
LEMMA RunJobInv ==
    ASSUME IInv, Next
    PROVE  JobInv'
<1>0. TypeOK /\ JobInv
  BY DEF IInv
<1>1. CASE UNCHANGED jobVars
  BY <1>0, <1>1 DEF jobVars, JobInv, JobTypeOK, EvidenceOnlyFromFinished
<1>2. CASE \E a \in Agent, f \in AgentFrame : Accept(a, f)
  BY <1>0, <1>2, AcceptInv
<1>3. CASE StartAll \/ CancelAll
  BY <1>0, <1>3, StartAllInv, CancelAllInv
<1>4. ASSUME NEW a \in Agent, ReceiveConnecting(a) \/ Receive(a)
      PROVE  UNCHANGED jobVars \/ \E f \in AgentFrame : Accept(a, f)
  BY <1>4, <1>0, HeadOfUp DEF ReceiveConnecting, Receive, TypeOK
<1>5. ASSUME Controller
      PROVE  \/ UNCHANGED jobVars \/ StartAll \/ CancelAll
             \/ \E a \in Agent, f \in AgentFrame : Accept(a, f)
  BY <1>4, <1>5 DEF Controller, Launch, HeartbeatMissed, StopPeer, LaunchFails, Release,
     DeadlineExpires, RunLoopEnds, CancelCohort, Return
<1>6. ASSUME NEW a \in Agent, PeerTask(a) \/ Worker(a) \/ Engine(a)
      PROVE  UNCHANGED jobVars
  BY <1>6 DEF PeerTask, PeerSeesEof, LinkBreaks, PeerReceiveFails, PeerAbandoned, Worker, SayHello,
     ReceivePrepare, SendReady, Heartbeat, ReceiveStart, SendFinished, GiveUp, ReceiveCancel,
     WorkerSeesEof, WorkerDies, Engine, EngineReady, EngineCompletes, EngineFails
<1>7. QED
  BY <1>1, <1>2, <1>3, <1>5, <1>6 DEF Next

LEMMA PeerTaskTypeOK ==
    ASSUME IInv, NEW a \in Agent, PeerTask(a)
    PROVE  TypeOK'
<1>0. TypeOK /\ JobTypeOK'
  BY RunJobInv DEF IInv, JobInv, Next
<1> USE <1>0, EndPeerType DEF TypeOK, ctlVars, workerVars
<1>1. CASE PeerSeesEof(a)
  <2>1. up' \in [Agent -> Seq(Event)]
    BY <1>1, WorkerFrames DEF PeerSeesEof
  <2>2. QED
    BY <1>1, <2>1 DEF PeerSeesEof
<1>2. CASE LinkBreaks(a)
  <2>1. \A n \in 0..Len(up[a]) : Append(SubSeq(up[a], 1, n), Closed) \in Seq(Event)
    BY WorkerFrames
  <2>2. up' \in [Agent -> Seq(Event)]
    BY <1>2, <2>1 DEF LinkBreaks
  <2>3. QED
    BY <1>2, <2>2 DEF LinkBreaks
<1>3. CASE PeerReceiveFails(a)
  <2>1. \A n \in 0..Len(up[a]) : SubSeq(up[a], 1, n) \in Seq(Event)
    OBVIOUS
  <2>2. up' \in [Agent -> Seq(Event)]
    BY <1>3, <2>1 DEF PeerReceiveFails
  <2>3. QED
    BY <1>3, <2>2 DEF PeerReceiveFails
<1>4. CASE PeerAbandoned(a)
  BY <1>4 DEF PeerAbandoned
<1>5. QED
  BY <1>1, <1>2, <1>3, <1>4 DEF PeerTask

LEMMA ControllerTypeOK ==
    ASSUME IInv, Controller
    PROVE  TypeOK'
<1>0. TypeOK /\ JobTypeOK'
  BY RunJobInv DEF IInv, JobInv, Next
<1> USE <1>0, HeadOfUp, SendToType DEF TypeOK, ctlVars, workerVars, Bail, ControllerFrame
<1>1. ASSUME NEW a \in Agent, Launch(a) PROVE TypeOK'
  BY <1>1 DEF Launch
<1>2. ASSUME NEW a \in Agent, ReceiveConnecting(a) PROVE TypeOK'
  <2>1. /\ up' \in [Agent -> Seq(Event)]
        /\ stage' \in {"launch", "connect", "prepare", "run"}
    BY <1>2 DEF ReceiveConnecting
  <2>2. down' \in [Agent -> Seq(ControllerFrame)]
    BY <1>2 DEF ReceiveConnecting
  <2>3. /\ verdict' \in {verdict, "failed"}
        /\ cause' \in {cause, "disconnected", "early_frame", "rejected", "send"}
        /\ UNCHANGED <<peer, workerVars>>
    BY <1>2 DEF ReceiveConnecting
  <2>4. QED
    BY <2>1, <2>2, <2>3
<1>3. ASSUME NEW a \in Agent, Receive(a) PROVE TypeOK'
  <2>1. up' \in [Agent -> Seq(Event)]
    BY <1>3 DEF Receive
  <2>2. /\ verdict' \in {verdict, "failed"}
        /\ cause' \in {cause, "disconnected", "agent_failed", "rejected"}
        /\ UNCHANGED <<stage, peer, down, workerVars>>
    BY <1>3 DEF Receive
  <2>3. QED
    BY <2>1, <2>2
<1>4. ASSUME NEW a \in Agent, HeartbeatMissed(a) PROVE TypeOK'
  BY <1>4 DEF HeartbeatMissed
<1>5. ASSUME NEW a \in Agent, StopPeer(a) PROVE TypeOK'
  BY <1>5, EndPeerType DEF StopPeer
<1>6. CASE LaunchFails
  BY <1>6 DEF LaunchFails
<1>7. CASE Release
  <2>1. down' \in [Agent -> Seq(ControllerFrame)]
    BY <1>7 DEF Release
  <2>2. QED
    BY <1>7, <2>1 DEF Release
<1>8. CASE DeadlineExpires
  BY <1>8 DEF DeadlineExpires
<1>9. CASE RunLoopEnds
  BY <1>9 DEF RunLoopEnds
<1>10. CASE CancelCohort
  BY <1>10 DEF CancelCohort
<1>11. CASE Return
  BY <1>11 DEF Return
<1>12. QED
  BY <1>1, <1>2, <1>3, <1>4, <1>5, <1>6, <1>7, <1>8, <1>9, <1>10, <1>11 DEF Controller

\* accept touches one agent, and tells what it did to it.
LEMMA AcceptEffect ==
    ASSUME JobTypeOK, NEW a \in Agent, NEW f \in AgentFrame, Accept(a, f)
    PROVE  /\ \A b \in Agent \ {a} : phase'[b] = phase[b] /\ final'[b] = final[b]
           /\ phase[a] # "AwaitingHello" => phase'[a] # "AwaitingHello"
           /\ phase[a] = "AwaitingHello" /\ Acceptable(a, f) => phase'[a] \in {"Preparing", "Failed"}
           /\ \/ phase'[a] = "Ready" /\ f.type = "ready" /\ f.full /\ readySig' = f.sig
                 /\ phase[a] = "Preparing" /\ readySig \in {NoSig, f.sig} /\ final' = final
              \/ phase'[a] = "Finished" /\ f.type = "finished" /\ final'[a] = f.evidence
                 /\ phase[a] = "Running" /\ readySig' = readySig
              \/ /\ phase'[a] \notin {"Ready", "Running", "Finished", "Cancelling", "AwaitingHello"}
                 /\ phase'[a] = "Cancelled" => phase[a] = "Cancelling"
                 /\ readySig' = readySig /\ final' = final
              \/ phase' = phase /\ readySig' = readySig /\ final' = final
<1> USE DEF JobTypeOK, SetPhase, Matches
<1>1. CASE AcceptHello(a, f)
  BY <1>1 DEF AcceptHello
<1>2. CASE AcceptReady(a, f)
  BY <1>2 DEF AcceptReady, Acceptable
<1>3. CASE FailReady(a, f)
  BY <1>3 DEF FailReady, Acceptable
<1>4. CASE AcceptProgress(a, f)
  BY <1>4 DEF AcceptProgress, Acceptable
<1>5. CASE AcceptHeartbeat(a, f)
  BY <1>5 DEF AcceptHeartbeat, Acceptable, jobVars
<1>6. CASE AcceptFinished(a, f)
  BY <1>6 DEF AcceptFinished, Acceptable
<1>7. CASE AcceptCancelled(a, f)
  BY <1>7 DEF AcceptCancelled, Acceptable
<1>8. CASE AcceptFailed(a, f)
  BY <1>8 DEF AcceptFailed, Acceptable
<1>9. CASE RejectFrame(a, f)
  BY <1>9 DEF RejectFrame, Acceptable, jobVars
<1>10. QED
  BY <1>1, <1>2, <1>3, <1>4, <1>5, <1>6, <1>7, <1>8, <1>9 DEF Accept

\* Both receive loops take the head of one queue and hand frames to accept.
LEMMA ReceiveEffect ==
    ASSUME TypeOK, NEW a \in Agent, ReceiveConnecting(a) \/ Receive(a)
    PROVE  /\ up[a] # <<>> /\ up' = [up EXCEPT ![a] = Tail(@)]
           /\ UNCHANGED <<peer, workerVars>>
           /\ \/ Head(up[a]) \in AgentFrame /\ Accept(a, Head(up[a]))
              \/ UNCHANGED jobVars
<1>1. up \in [Agent -> Seq(Event)]
  BY DEF TypeOK
<1>2. CASE ReceiveConnecting(a)
  BY <1>1, <1>2, HeadOfUp DEF ReceiveConnecting
<1>3. CASE Receive(a)
  BY <1>1, <1>3, HeadOfUp DEF Receive
<1>4. QED
  BY <1>2, <1>3

LEMMA WorkerStep ==
    ASSUME IInv, Next, TypeOK', JobInv', NEW b \in Agent
    PROVE  WorkerInv(b)'
<1>0. /\ TypeOK /\ JobInv /\ StageInv
      /\ \A a \in Agent : FramesInv(a) /\ WorkerInv(a) /\ CommandsInv(a)
  BY DEF IInv
<1> USE <1>0 DEF TypeOK, JobTypeOK, jobVars, ctlVars, workerVars, Exit, Receives, Send, SendTo, Bail, EndPeer, WorkerInv
<1>1. ASSUME NEW a \in Agent, SayHello(a) PROVE WorkerInv(b)'
  BY <1>1 DEF SayHello
<1>2. ASSUME NEW a \in Agent, ReceivePrepare(a) PROVE WorkerInv(b)'
  <2>1. /\ proc[a] = "up" /\ aphase[a] = "AwaitingPrepare"
        /\ UNCHANGED <<jobVars, ctlVars, peer, readiness>>
    BY <1>2 DEF ReceivePrepare, LegalFrame
  <2>2. \/ aphase'[a] = "Preparing" /\ engine'[a] = "starting" /\ proc'[a] = "up"
        \/ aphase'[a] \in {"Preparing", "Failed"} /\ engine'[a] = engine[a] /\ proc'[a] = "exited"
    BY <1>2 DEF ReceivePrepare
  <2>3. CASE b = a
    BY <2>1, <2>2, <2>3
  <2>4. CASE b # a
    <3>1. /\ aphase'[b] = aphase[b] /\ engine'[b] = engine[b] /\ proc'[b] = proc[b]
          /\ up'[b] = up[b] /\ down'[b] = down[b]
      BY <1>2, <2>4 DEF ReceivePrepare
    <3>2. QED
      BY <2>1, <3>1
  <2>5. QED
    BY <2>3, <2>4
<1>3. ASSUME NEW a \in Agent, EngineReady(a) PROVE WorkerInv(b)'
  BY <1>3, RunAssumption DEF EngineReady
<1>4. ASSUME NEW a \in Agent, SendReady(a) PROVE WorkerInv(b)'
  BY <1>4 DEF SendReady
<1>5. ASSUME NEW a \in Agent, Heartbeat(a) PROVE WorkerInv(b)'
  BY <1>5 DEF Heartbeat
<1>6. ASSUME NEW a \in Agent, ReceiveStart(a) PROVE WorkerInv(b)'
  BY <1>6 DEF ReceiveStart, CommandsInv, LegalFrame
<1>7. ASSUME NEW a \in Agent, EngineCompletes(a) PROVE WorkerInv(b)'
  BY <1>7 DEF EngineCompletes
<1>8. ASSUME NEW a \in Agent, EngineFails(a) PROVE WorkerInv(b)'
  BY <1>8 DEF EngineFails
<1>9. ASSUME NEW a \in Agent, SendFinished(a) PROVE WorkerInv(b)'
  BY <1>9 DEF SendFinished
<1>10. ASSUME NEW a \in Agent, GiveUp(a) PROVE WorkerInv(b)'
  BY <1>10 DEF GiveUp
<1>11. ASSUME NEW a \in Agent, ReceiveCancel(a) PROVE WorkerInv(b)'
  BY <1>11 DEF ReceiveCancel
<1>12. ASSUME NEW a \in Agent, WorkerSeesEof(a) PROVE WorkerInv(b)'
  BY <1>12 DEF WorkerSeesEof
<1>13. ASSUME NEW a \in Agent, WorkerDies(a) PROVE WorkerInv(b)'
  BY <1>13 DEF WorkerDies
<1>14. ASSUME NEW a \in Agent, PeerSeesEof(a) PROVE WorkerInv(b)'
  BY <1>14 DEF PeerSeesEof
<1>15. ASSUME NEW a \in Agent, PeerReceiveFails(a) PROVE WorkerInv(b)'
  BY <1>15 DEF PeerReceiveFails
<1>16. ASSUME NEW a \in Agent, LinkBreaks(a) PROVE WorkerInv(b)'
  <2>1. PICK n \in 0..Len(up[a]) : up' = [up EXCEPT ![a] = Append(SubSeq(@, 1, n), Closed)]
    BY <1>16 DEF LinkBreaks
  <2>2. /\ UNCHANGED <<jobVars, ctlVars, workerVars>>
        /\ peer' = [peer EXCEPT ![a] = "closed"] /\ peer[a] # "none"
        /\ down[b] = <<>> => down'[b] = <<>>
    BY <1>16 DEF LinkBreaks, TaskLives
  <2>3. QED
    BY <2>1, <2>2, OnlyClosedKept
<1>17. ASSUME NEW a \in Agent, PeerAbandoned(a) PROVE WorkerInv(b)'
  BY <1>17 DEF PeerAbandoned, TaskLives
<1>18. ASSUME NEW a \in Agent, Launch(a) PROVE WorkerInv(b)'
  BY <1>18 DEF Launch
<1>19. ASSUME NEW a \in Agent, ReceiveConnecting(a) PROVE WorkerInv(b)'
  <2>1. UNCHANGED <<peer, workerVars>> /\ (stage = "run" => stage' = "run")
    BY <1>19 DEF ReceiveConnecting
  <2>2. proc[b] \in {"none", "boot"} => \A i \in 1..Len(up'[b]) : up'[b][i] = Closed
    <3>1. up' = [up EXCEPT ![a] = Tail(@)] /\ up[a] # <<>>
      BY <1>19 DEF ReceiveConnecting
    <3>2. QED
      BY SMTT(30), <3>1, OnlyClosedKept
  <2>3. ASSUME proc[b] \in {"none", "boot"}
        PROVE  phase'[b] = phase[b] /\ down'[b] = down[b]
    <3>1. CASE b = a
      <4>1. Head(up[a]) = Closed
        <5>1. up[a] # <<>>
          BY <1>19 DEF ReceiveConnecting
        <5>2. QED
          BY <2>3, <3>1, <5>1, HeadOfUp
      <4>2. QED
        BY <1>19, <3>1, <4>1 DEF ReceiveConnecting
    <3>2. CASE b # a
      <4>1. down'[b] = down[b]
        BY <1>19, <3>2 DEF ReceiveConnecting
      <4>2. phase'[b] = phase[b]
        <5>1. CASE Head(up[a]) \in AgentFrame /\ Accept(a, Head(up[a]))
          BY <3>2, <5>1, AcceptEffect
        <5>2. CASE UNCHANGED jobVars
          BY <5>2
        <5>3. QED
          BY <1>19, <5>1, <5>2, ReceiveEffect
      <4>3. QED
        BY <4>1, <4>2
    <3>3. QED
      BY <3>1, <3>2
  <2>4. QED
    BY <2>1, <2>2, <2>3
<1>20. ASSUME NEW a \in Agent, Receive(a) PROVE WorkerInv(b)'
  BY <1>20, AcceptEffect, HeadOfUp DEF Receive
<1>21. ASSUME NEW a \in Agent, HeartbeatMissed(a) PROVE WorkerInv(b)'
  BY <1>21 DEF HeartbeatMissed
<1>22. ASSUME NEW a \in Agent, StopPeer(a) PROVE WorkerInv(b)'
  BY <1>22 DEF StopPeer, TaskLives
<1>23. CASE LaunchFails
  BY <1>23 DEF LaunchFails
<1>24. CASE Release
  BY <1>24 DEF Release, StartAll, AllReady
<1>25. CASE DeadlineExpires
  BY <1>25 DEF DeadlineExpires
<1>26. CASE RunLoopEnds
  BY <1>26 DEF RunLoopEnds
<1>27. CASE CancelCohort
  <2>1. proc[b] \in {"none", "boot"} =>
          phase'[b] \in {"AwaitingHello", "Cancelled"} /\ down'[b] = down[b]
    BY <1>27 DEF CancelCohort, CancelAll, CancelTargets, TerminalPhase
  <2>2. UNCHANGED <<stage, peer, up, workerVars>>
    BY <1>27 DEF CancelCohort
  <2>3. QED
    BY <2>1, <2>2
<1>28. CASE Return
  BY <1>28 DEF Return
<1>29. QED
  BY <1>1, <1>2, <1>3, <1>4, <1>5, <1>6, <1>7, <1>8, <1>9, <1>10, <1>11, <1>12, <1>13, <1>14, <1>15, <1>16, <1>17, <1>18, <1>19, <1>20, <1>21, <1>22, <1>23, <1>24, <1>25, <1>26, <1>27, <1>28 DEF Next, Controller, PeerTask, Worker, Engine





\* The frame the controller takes says what its worker did.
LEMMA HeadIsOK ==
    ASSUME TypeOK, NEW a \in Agent, FramesInv(a), up[a] # <<>>
    PROVE  FrameOK(a, Head(up[a]))
<1>1. 1 \in 1..Len(up[a]) /\ Head(up[a]) = up[a][1]
  BY HeadOfUp DEF TypeOK
<1>2. QED
  BY <1>1 DEF FramesInv

LEMMA AppendedFrames ==
    ASSUME NEW q \in Seq(Event), NEW f \in Event
    PROVE  \A i \in 1..Len(Append(q, f)) :
              \/ i \in 1..Len(q) /\ Append(q, f)[i] = q[i]
              \/ Append(q, f)[i] = f
OBVIOUS

LEMMA ReceiveKeepsQueues ==
    ASSUME IInv, NEW a \in Agent, ReceiveConnecting(a) \/ Receive(a), NEW b \in Agent
    PROVE  \A i \in 1..Len(up'[b]) : FrameOK(b, up'[b][i])
<1>1. /\ up \in [Agent -> Seq(Event)]
      /\ \A i \in 1..Len(up[b]) : FrameOK(b, up[b][i])
      /\ up[a] # <<>> /\ up' = [up EXCEPT ![a] = Tail(@)]
  BY ReceiveEffect DEF IInv, TypeOK, FramesInv
<1>2. \A i \in 1..Len(up'[b]) : \E j \in 1..Len(up[b]) : up'[b][i] = up[b][j]
  <2>1. CASE b = a
    <3>1. up'[b] = Tail(up[a])
      BY <1>1, <2>1
    <3>2. QED
      BY <1>1, <2>1, <3>1, HeadOfUp
  <2>2. CASE b # a
    BY <1>1, <2>2
  <2>3. QED
    BY <2>1, <2>2
<1>3. QED
  BY <1>1, <1>2

LEMMA ReceiveKeepsHello ==
    ASSUME IInv, NEW a \in Agent, ReceiveConnecting(a) \/ Receive(a), NEW b \in Agent,
           phase'[b] = "AwaitingHello"
    PROVE  phase[b] = "AwaitingHello" /\ down'[b] = down[b]
<1>0. TypeOK /\ JobTypeOK
  BY DEF IInv, TypeOK
<1>1. phase[b] = "AwaitingHello"
  <2>1. CASE UNCHANGED jobVars
    BY <2>1 DEF jobVars
  <2>2. CASE Head(up[a]) \in AgentFrame /\ Accept(a, Head(up[a]))
    BY <1>0, <2>2, AcceptEffect
  <2>3. QED
    BY <1>0, <2>1, <2>2, ReceiveEffect
<1>2. CASE Receive(a)
  BY <1>1, <1>2 DEF Receive
<1>3. CASE ReceiveConnecting(a) /\ b # a
  BY <1>0, <1>1, <1>3 DEF ReceiveConnecting, SendTo, TypeOK
<1>4. CASE ReceiveConnecting(a) /\ b = a
  <2>1. CASE /\ Head(up[a]) \in AgentFrame
             /\ Accept(a, Head(up[a])) /\ Acceptable(a, Head(up[a]))
    BY <1>0, <1>1, <1>4, <2>1, AcceptEffect
  <2>2. CASE UNCHANGED down
    BY <1>1, <2>2
  <2>3. up[a] # <<>> /\ up \in [Agent -> Seq(Event)]
    BY <1>0, <1>4, ReceiveEffect DEF TypeOK
  <2>4. Head(up[a]) # Closed => Head(up[a]) \in AgentFrame
    BY <2>3, HeadOfUp
  <2>5. QED
    BY <1>4, <2>1, <2>2, <2>4 DEF ReceiveConnecting
<1>5. QED
  BY <1>2, <1>3, <1>4

\* An agent the controller counts as ready, running or finished has announced
\* just what the controller holds of it.
LEMMA ReceiveKeepsAnnouncements ==
    ASSUME IInv, NEW a \in Agent, ReceiveConnecting(a) \/ Receive(a), NEW b \in Agent
    PROVE  /\ phase'[b] \in {"Ready", "Running", "Finished"} =>
                 /\ aphase[b] \notin {"AwaitingPrepare", "Preparing"}
                 /\ readiness[b] = [full |-> TRUE, sig |-> readySig']
           /\ phase'[b] = "Finished" => aphase[b] = "Finished" /\ final'[b].sig = readiness[b].sig
<1>0. TypeOK /\ JobTypeOK /\ FramesInv(a) /\ FramesInv(b)
  BY DEF IInv, TypeOK
<1>1. /\ phase[b] \in {"Ready", "Running", "Finished"} =>
            /\ aphase[b] \notin {"AwaitingPrepare", "Preparing"}
            /\ readiness[b] = [full |-> TRUE, sig |-> readySig]
            /\ readySig # NoSig
      /\ phase[b] = "Finished" => aphase[b] = "Finished" /\ final[b].sig = readiness[b].sig
  BY <1>0 DEF IInv, JobInv, EvidenceOnlyFromFinished, FramesInv
<1>2. CASE UNCHANGED jobVars
  BY <1>1, <1>2 DEF jobVars
<1>3. ASSUME NEW f \in AgentFrame, Accept(a, f), FrameOK(a, f)
      PROVE  /\ phase'[b] \in {"Ready", "Running", "Finished"} =>
                   /\ aphase[b] \notin {"AwaitingPrepare", "Preparing"}
                   /\ readiness[b] = [full |-> TRUE, sig |-> readySig']
             /\ phase'[b] = "Finished" =>
                   aphase[b] = "Finished" /\ final'[b].sig = readiness[b].sig
  <2>1. /\ b # a => phase'[b] = phase[b] /\ final'[b] = final[b]
        /\ readySig' = readySig \/ readySig = NoSig
        /\ \/ phase'[a] = "Ready" /\ f.type = "ready" /\ f.full /\ readySig' = f.sig
           \/ phase'[a] = "Finished" /\ f.type = "finished" /\ final'[a] = f.evidence
              /\ phase[a] = "Running" /\ readySig' = readySig
           \/ phase'[a] \notin {"Ready", "Running", "Finished"}
           \/ phase' = phase /\ readySig' = readySig /\ final' = final
    BY <1>0, <1>3, AcceptEffect
  <2>2. CASE b # a
    BY <1>1, <2>1, <2>2
  <2>3. CASE b = a
    BY <1>0, <1>1, <1>3, <2>1, <2>3 DEF FrameOK, TypeOK, AgentFrame
  <2>4. QED
    BY <2>2, <2>3
<1>4. QED
  BY <1>0, <1>2, <1>3, ReceiveEffect, HeadIsOK

\* Every step keeps FramesInv.
LEMMA FramesStep ==
    ASSUME IInv, Next, TypeOK', JobInv', NEW b \in Agent
    PROVE  FramesInv(b)'
<1>0. /\ TypeOK /\ JobInv /\ StageInv
      /\ \A a \in Agent : FramesInv(a) /\ WorkerInv(a) /\ CommandsInv(a)
  BY DEF IInv
<1> USE <1>0 DEF TypeOK, JobTypeOK, jobVars, ctlVars, workerVars, Exit, Receives, Send, SendTo, Bail, EndPeer, FramesInv, FrameOK
<1>1. ASSUME NEW a \in Agent, SayHello(a) PROVE FramesInv(b)'
  BY <1>1 DEF SayHello, Closed
<1>2. ASSUME NEW a \in Agent, ReceivePrepare(a) PROVE FramesInv(b)'
  <2>1. aphase[a] = "AwaitingPrepare" /\ down[a] # <<>>
    BY <1>2 DEF ReceivePrepare, LegalFrame
  <2>2. /\ b # a => aphase'[b] = aphase[b] /\ down'[b] = down[b]
        /\ aphase'[a] \in {"Preparing", "Failed"}
        /\ UNCHANGED <<jobVars, readiness>>
    BY <1>2 DEF ReceivePrepare
  <2>3. \/ up' = up
        \/ up' = [up EXCEPT ![a] = Append(@, [type |-> "failed", bound |-> TRUE])]
    BY <1>2 DEF ReceivePrepare
  <2>4. CASE b = a
    <3>1. phase[a] \notin {"AwaitingHello", "Ready", "Running", "Finished"}
      BY <2>1
    <3>2. \A i \in 1..Len(up'[a]) : up'[a][i].type \in {"hello", "closed", "failed"}
      <4>1. \A i \in 1..Len(up[a]) : up[a][i].type \in {"hello", "closed"}
        BY <2>1
      <4>2. up[a] \in Seq(Event)
        OBVIOUS
      <4>3. up'[a] = up[a] \/ up'[a] = Append(up[a], [type |-> "failed", bound |-> TRUE])
        BY <2>3
      <4>4. CASE up'[a] = up[a]
        BY <4>1, <4>4
      <4>5. CASE up'[a] = Append(up[a], [type |-> "failed", bound |-> TRUE])
        BY <4>1, <4>2, <4>5, AppendedFrames, WorkerFrames
      <4>6. QED
        BY <4>3, <4>4, <4>5
    <3>3. QED
      BY <2>2, <2>4, <3>1, <3>2
  <2>5. CASE b # a
    BY SMTT(30), <2>1, <2>2, <2>3, <2>5
  <2>6. QED
    BY <2>4, <2>5
<1>3. ASSUME NEW a \in Agent, EngineReady(a) PROVE FramesInv(b)'
  <2>1. aphase[a] = "Preparing"
    BY <1>3 DEF EngineReady, WorkerInv, AgentPhase
  <2>2. b # a => readiness'[b] = readiness[b]
    BY <1>3 DEF EngineReady
  <2>3. UNCHANGED <<jobVars, up, down, aphase>>
    BY <1>3 DEF EngineReady
  <2>4. CASE b = a
    BY <2>1, <2>3, <2>4
  <2>5. CASE b # a
    BY <2>2, <2>3, <2>5
  <2>6. QED
    BY <2>4, <2>5
<1>4. ASSUME NEW a \in Agent, SendReady(a) PROVE FramesInv(b)'
  BY <1>4, RunAssumption DEF SendReady, WorkerInv, Readiness
<1>5. ASSUME NEW a \in Agent, Heartbeat(a) PROVE FramesInv(b)'
  BY <1>5 DEF Heartbeat
<1>6. ASSUME NEW a \in Agent, ReceiveStart(a) PROVE FramesInv(b)'
  BY <1>6 DEF ReceiveStart, WorkerInv, LegalFrame
<1>7. ASSUME NEW a \in Agent, EngineCompletes(a) PROVE FramesInv(b)'
  BY <1>7 DEF EngineCompletes
<1>8. ASSUME NEW a \in Agent, EngineFails(a) PROVE FramesInv(b)'
  BY <1>8 DEF EngineFails
<1>9. ASSUME NEW a \in Agent, SendFinished(a) PROVE FramesInv(b)'
  BY <1>9 DEF SendFinished, WorkerInv
<1>10. ASSUME NEW a \in Agent, GiveUp(a) PROVE FramesInv(b)'
  BY <1>10 DEF GiveUp
<1>11. ASSUME NEW a \in Agent, ReceiveCancel(a) PROVE FramesInv(b)'
  BY <1>11 DEF ReceiveCancel, WorkerInv, LegalFrame
<1>12. ASSUME NEW a \in Agent, WorkerSeesEof(a) PROVE FramesInv(b)'
  BY <1>12 DEF WorkerSeesEof
<1>13. ASSUME NEW a \in Agent, WorkerDies(a) PROVE FramesInv(b)'
  BY <1>13 DEF WorkerDies
<1>14. ASSUME NEW a \in Agent, PeerSeesEof(a) PROVE FramesInv(b)'
  <2>1. /\ up' = [up EXCEPT ![a] = Append(@, Closed)]
        /\ UNCHANGED <<jobVars, workerVars>>
    BY <1>14 DEF PeerSeesEof
  <2>2. down[b] = <<>> => down'[b] = <<>>
    BY <1>14 DEF PeerSeesEof
  <2>3. QED
    BY <2>1, <2>2 DEF Closed
<1>15. ASSUME NEW a \in Agent, PeerReceiveFails(a) PROVE FramesInv(b)'
  BY SMTT(30), <1>15 DEF PeerReceiveFails, Closed
<1>16. ASSUME NEW a \in Agent, LinkBreaks(a) PROVE FramesInv(b)'
  BY SMTT(30), <1>16 DEF LinkBreaks, Closed
<1>17. ASSUME NEW a \in Agent, PeerAbandoned(a) PROVE FramesInv(b)'
  BY <1>17 DEF PeerAbandoned
<1>18. ASSUME NEW a \in Agent, Launch(a) PROVE FramesInv(b)'
  BY <1>18 DEF Launch
<1>19. ASSUME NEW a \in Agent, ReceiveConnecting(a) PROVE FramesInv(b)'
  <2>1. \A i \in 1..Len(up'[b]) : FrameOK(b, up'[b][i])
    BY <1>19, ReceiveKeepsQueues
  <2>2. UNCHANGED workerVars
    BY <1>19, ReceiveEffect
  <2>3. phase'[b] = "AwaitingHello" => phase[b] = "AwaitingHello" /\ down'[b] = down[b]
    BY <1>19, ReceiveKeepsHello
  <2>4. /\ phase'[b] \in {"Ready", "Running", "Finished"} =>
              /\ aphase[b] \notin {"AwaitingPrepare", "Preparing"}
              /\ readiness[b] = [full |-> TRUE, sig |-> readySig']
        /\ phase'[b] = "Finished" => aphase[b] = "Finished" /\ final'[b].sig = readiness[b].sig
    BY <1>19, ReceiveKeepsAnnouncements
  <2>5. QED
    BY <2>1, <2>2, <2>3, <2>4
<1>20. ASSUME NEW a \in Agent, Receive(a) PROVE FramesInv(b)'
  <2>1. \A i \in 1..Len(up'[b]) : FrameOK(b, up'[b][i])
    BY <1>20, ReceiveKeepsQueues
  <2>2. UNCHANGED workerVars
    BY <1>20, ReceiveEffect
  <2>3. phase'[b] = "AwaitingHello" => phase[b] = "AwaitingHello" /\ down'[b] = down[b]
    BY <1>20, ReceiveKeepsHello
  <2>4. /\ phase'[b] \in {"Ready", "Running", "Finished"} =>
              /\ aphase[b] \notin {"AwaitingPrepare", "Preparing"}
              /\ readiness[b] = [full |-> TRUE, sig |-> readySig']
        /\ phase'[b] = "Finished" => aphase[b] = "Finished" /\ final'[b].sig = readiness[b].sig
    BY <1>20, ReceiveKeepsAnnouncements
  <2>5. QED
    BY <2>1, <2>2, <2>3, <2>4
<1>21. ASSUME NEW a \in Agent, HeartbeatMissed(a) PROVE FramesInv(b)'
  BY <1>21 DEF HeartbeatMissed
<1>22. ASSUME NEW a \in Agent, StopPeer(a) PROVE FramesInv(b)'
  BY <1>22 DEF StopPeer
<1>23. CASE LaunchFails
  BY <1>23 DEF LaunchFails
<1>24. CASE Release
  BY <1>24 DEF Release, StartAll, AllReady
<1>25. CASE DeadlineExpires
  BY <1>25 DEF DeadlineExpires
<1>26. CASE RunLoopEnds
  BY <1>26 DEF RunLoopEnds
<1>27. CASE CancelCohort
  BY <1>27 DEF CancelCohort, CancelAll, CancelTargets, TerminalPhase
<1>28. CASE Return
  BY <1>28 DEF Return
<1>29. QED
  BY <1>1, <1>2, <1>3, <1>4, <1>5, <1>6, <1>7, <1>8, <1>9, <1>10, <1>11, <1>12, <1>13, <1>14, <1>15, <1>16, <1>17, <1>18, <1>19, <1>20, <1>21, <1>22, <1>23, <1>24, <1>25, <1>26, <1>27, <1>28 DEF Next, Controller, PeerTask, Worker, Engine











\* The connect loop answers a hello with Prepare, and refuses everything else.
LEMMA ConnectAnswer ==
    ASSUME IInv, NEW a \in Agent, ReceiveConnecting(a), phase[a] = "AwaitingHello"
    PROVE  \/ phase'[a] = phase[a] /\ down'[a] = down[a]
           \/ peer[a] = "open" /\ down'[a] = Append(down[a], "prepare")
           \/ peer[a] # "open" /\ down'[a] = down[a]
<1>0. TypeOK /\ JobTypeOK /\ FramesInv(a)
  BY DEF IInv, TypeOK
<1>1. up[a] # <<>>
  BY DEF ReceiveConnecting
<1>2. FrameOK(a, Head(up[a])) /\ aphase[a] = "AwaitingPrepare"
  BY <1>0, <1>1, HeadIsOK DEF FramesInv
<1> DEFINE f == Head(up[a])
<1>3. CASE UNCHANGED <<jobVars, down>>
  BY <1>3 DEF jobVars
<1>4. CASE f # Closed /\ ~Acceptable(a, f) /\ Accept(a, f) /\ UNCHANGED down
  <2>1. f.type \in {"hello", "closed"}
    BY <1>2 DEF FrameOK
  <2>2. phase' = phase
    BY <1>4, <2>1 DEF Accept, AcceptHello, AcceptReady, FailReady, AcceptProgress,
       AcceptHeartbeat, AcceptFinished, AcceptCancelled, AcceptFailed, RejectFrame,
       Acceptable, jobVars
  <2>3. QED
    BY <1>4, <2>2
<1>5. CASE f # Closed /\ Acceptable(a, f)
           /\ SendTo(IF f.type = "hello" THEN {a} ELSE {}, "prepare")
  <2>1. f.type = "hello"
    BY <1>2, <1>5 DEF FrameOK, Acceptable
  <2>2. QED
    BY <1>5, <2>1 DEF SendTo
<1>6. QED
  BY <1>3, <1>4, <1>5 DEF ReceiveConnecting

LEMMA ReceiveOthers ==
    ASSUME IInv, NEW a \in Agent, ReceiveConnecting(a) \/ Receive(a), NEW b \in Agent, b # a
    PROVE  phase'[b] = phase[b]
<1>0. TypeOK /\ JobTypeOK
  BY DEF IInv, TypeOK
<1>1. CASE UNCHANGED jobVars
  BY <1>1 DEF jobVars
<1>2. CASE Head(up[a]) \in AgentFrame /\ Accept(a, Head(up[a]))
  BY <1>0, <1>2, AcceptEffect
<1>3. QED
  BY <1>0, <1>1, <1>2, ReceiveEffect

LEMMA LegalFrames ==
    /\ LegalFrame("AwaitingPrepare") = {"prepare"}
    /\ LegalFrame("Preparing") = {"cancel"}
    /\ LegalFrame("Ready") = {"start", "cancel"}
    /\ LegalFrame("Running") = {"cancel"}
    /\ \A p \in {"Finished", "Failed", "Cancelled"} : LegalFrame(p) = {}
BY DEF LegalFrame

\* What the operations on a command queue do to its first two frames.
LEMMA QueueSteps ==
    ASSUME NEW q \in Seq(ControllerFrame), NEW f \in ControllerFrame
    PROVE  /\ Len(q) \in Nat
           /\ Len(q) = 0 <=> q = <<>>
           /\ Len(Append(q, f)) = Len(q) + 1
           /\ \A i \in 1..Len(q) : Append(q, f)[i] = q[i]
           /\ Append(q, f)[Len(q) + 1] = f
           /\ q # <<>> => /\ Head(q) = q[1] /\ Len(Tail(q)) = Len(q) - 1
                          /\ \A i \in 1..(Len(q) - 1) : Tail(q)[i] = q[i + 1]
           /\ \A n \in 0..Len(q) : /\ Len(SubSeq(q, 1, n)) = n
                                   /\ \A i \in 1..n : SubSeq(q, 1, n)[i] = q[i]
<1>1. /\ Len(q) \in Nat
      /\ Len(q) = 0 <=> q = <<>>
      /\ q # <<>> => /\ Head(q) = q[1] /\ Len(Tail(q)) = Len(q) - 1
                     /\ \A i \in 1..(Len(q) - 1) : Tail(q)[i] = q[i + 1]
  OBVIOUS
<1>2. /\ Len(Append(q, f)) = Len(q) + 1
      /\ \A i \in 1..Len(q) : Append(q, f)[i] = q[i]
      /\ Append(q, f)[Len(q) + 1] = f
  BY AppendProperties
<1>3. \A n \in 0..Len(q) : /\ Len(SubSeq(q, 1, n)) = n
                           /\ \A i \in 1..n : SubSeq(q, 1, n)[i] = q[i]
  OBVIOUS
<1>4. QED
  BY <1>1, <1>2, <1>3

\* Cutting off a suffix keeps what a worker may find waiting.
LEMMA CommandsCut ==
    ASSUME TypeOK, NEW a \in Agent, \A b \in Agent : CommandsInv(b),
           NEW p \in {"draining", "closed"}, EndPeer(a, p),
           UNCHANGED <<jobVars, ctlVars, workerVars>>, NEW b \in Agent
    PROVE  CommandsInv(b)'
<1>1. PICK n \in 0..Len(down[a]) : down' = [down EXCEPT ![a] = SubSeq(down[a], 1, n)]
  BY DEF EndPeer
<1>2. /\ down'[a] = SubSeq(down[a], 1, n) /\ peer'[a] = p
      /\ b # a => peer'[b] = peer[b] /\ down'[b] = down[b]
      /\ down[a] \in Seq(ControllerFrame)
  BY <1>1 DEF TypeOK, EndPeer
<1>3. CASE b # a
  BY <1>2, <1>3 DEF CommandsInv, jobVars, ctlVars, workerVars, CancelSent
<1>4. CASE b = a
  <2>1. /\ Len(down'[a]) = n /\ Len(down[a]) \in Nat
        /\ \A i \in 1..n : down'[a][i] = down[a][i]
    BY <1>1, <1>2, QueueSteps DEF ControllerFrame
  <2>2. QED
    BY <1>1, <1>2, <1>4, <2>1 DEF CommandsInv, jobVars, ctlVars, workerVars, CancelSent
<1>5. QED
  BY <1>3, <1>4

\* The loop between a command queue and the worker that takes its head.
LEMMA CommandTaken ==
    ASSUME TypeOK, NEW a \in Agent, CommandsInv(a), NEW f \in ControllerFrame, Receives(a, f)
    PROVE  /\ f \in LegalFrame(aphase[a]) /\ proc[a] = "up"
           /\ \A b \in Agent \ {a} : down'[b] = down[b]
           /\ Len(down'[a]) \in 0..1
           /\ Len(down'[a]) = 1 => f # "cancel" /\ down'[a][1] = "cancel"
           /\ ~CancelSent => Len(down'[a]) = 0
<1>1. /\ down[a] \in Seq(ControllerFrame) /\ down[a] # <<>> /\ Head(down[a]) = f
      /\ f \in LegalFrame(aphase[a]) /\ proc[a] = "up"
      /\ down'[a] = Tail(down[a])
      /\ \A b \in Agent \ {a} : down'[b] = down[b]
  BY DEF Receives, TypeOK
<1>2. /\ Len(down'[a]) = Len(down[a]) - 1 /\ down[a][1] = f
      /\ \A i \in 1..(Len(down[a]) - 1) : down'[a][i] = down[a][i + 1]
      /\ Len(down[a]) \in Nat /\ Len(down[a]) # 0
  BY <1>1, QueueSteps
<1>3. QED
  BY <1>1, <1>2 DEF CommandsInv

\* The start goes to workers that wait for nothing else.
LEMMA ReleaseCommands ==
    ASSUME TypeOK, StageInv, NEW b \in Agent, FramesInv(b), WorkerInv(b), CommandsInv(b), Release
    PROVE  CommandsInv(b)'
<1>0. /\ down \in [Agent -> Seq(ControllerFrame)]
      /\ peer \in [Agent -> {"none", "open", "draining", "closed"}]
      /\ aphase \in [Agent -> AgentPhase]
  BY DEF TypeOK
<1>1. /\ \A c \in Agent : phase[c] = "Ready" /\ phase'[c] = "Running"
      /\ stage # "run" /\ ~CancelSent
      /\ UNCHANGED <<peer, workerVars>>
  BY DEF Release, StartAll, AllReady, Driving, CancelSent
<1>2. aphase[b] \notin {"AwaitingPrepare", "Preparing"}
  BY <1>1 DEF FramesInv
<1>3. down'[b] = down[b] \/ down'[b] = Append(down[b], "start")
  BY <1>0 DEF Release, SendTo
<1>4. ASSUME proc[b] = "up" PROVE aphase[b] = "Ready" /\ Len(down[b]) = 0
  <2>1. aphase[b] = "Ready"
    BY <1>0, <1>1, <1>2, <1>4 DEF WorkerInv, AgentPhase
  <2>2. /\ Len(down[b]) \in 0..1
        /\ Len(down[b]) = 1 => /\ down[b][1] \in LegalFrame(aphase[b])
                               /\ down[b][1] \notin {"cancel", "start"}
    <3>1. CommandsInv(b) /\ ~CancelSent /\ stage # "run"
      BY <1>1
    <3>2. QED
      BY <1>4, <3>1 DEF CommandsInv
  <2>3. Len(down[b]) # 1
    BY <2>1, <2>2, LegalFrames
  <2>4. QED
    BY <2>1, <2>2, <2>3
<1>5. ~CancelSent' /\ stage' = "run"
  BY <1>1 DEF Release, CancelSent, Bail
<1>6. ASSUME proc[b] = "up"
      PROVE  \/ Len(down'[b]) = 0
             \/ Len(down'[b]) = 1 /\ down'[b][1] = "start"
  <2>1. Len(down[b]) = 0 /\ down[b] \in Seq(ControllerFrame)
    BY <1>0, <1>4, <1>6
  <2>2. CASE down'[b] = Append(down[b], "start")
    <3>1. /\ Len(down'[b]) = Len(down[b]) + 1
          /\ down'[b][Len(down[b]) + 1] = "start"
      BY <2>1, <2>2, QueueSteps DEF ControllerFrame
    <3>2. QED
      BY <2>1, <3>1
  <2>3. CASE down'[b] = down[b]
    BY <2>1, <2>3
  <2>4. QED
    BY <1>3, <2>2, <2>3
<1>7. QED
  <2>1. proc[b] = "up" /\ Len(down'[b]) = 1 => down'[b][1] \in LegalFrame(aphase'[b])
    BY <1>1, <1>4, <1>6, LegalFrames DEF workerVars
  <2>2. proc[b] = "up" => aphase'[b] = "Ready"
    BY <1>1, <1>4 DEF workerVars
  <2>3. ~CancelSent' /\ stage' = "run" /\ proc'[b] = proc[b]
    BY <1>1, <1>5 DEF workerVars
  <2>4. proc[b] = "up" => /\ Len(down'[b]) \in 0..1
                          /\ Len(down'[b]) = 1 => down'[b][1] # "cancel"
    BY <1>6
  <2>5. /\ proc'[b] = "up" => Len(down'[b]) = 0 \/ Len(down'[b]) = 1
        /\ proc'[b] = "up" => aphase'[b] # "AwaitingPrepare"
    BY <1>6, <2>2, <2>3
  <2>6. QED
    BY <2>1, <2>2, <2>3, <2>4, <2>5 DEF CommandsInv

\* Every step keeps CommandsInv.
LEMMA CommandsStep ==
    ASSUME IInv, Next, TypeOK', JobInv', NEW b \in Agent
    PROVE  CommandsInv(b)'
<1>0. /\ TypeOK /\ JobInv /\ StageInv /\ VerdictInv
      /\ \A a \in Agent : FramesInv(a) /\ WorkerInv(a) /\ CommandsInv(a)
  BY DEF IInv
<1> USE <1>0 DEF TypeOK, JobTypeOK, jobVars, ctlVars, workerVars, Exit, Bail, CommandsInv, CancelSent
<1>1. ASSUME NEW a \in Agent, SayHello(a) PROVE CommandsInv(b)'
  <2>1. /\ aphase[a] = "AwaitingPrepare" /\ down[a] = <<>>
        /\ phase[a] \in {"AwaitingHello", "Cancelled"}
    BY <1>1 DEF SayHello, WorkerInv
  <2>2. ~CancelSent => phase[a] # "Cancelled"
    BY <1>0 DEF VerdictInv, FinalEvidenceOk, JobInv, EvidenceOnlyFromFinished
  <2>3. /\ proc' = [proc EXCEPT ![a] = "up"]
        /\ UNCHANGED <<jobVars, ctlVars, peer, down, aphase>>
    BY <1>1 DEF SayHello
  <2>4. CASE b = a
    <3>1. /\ Len(down'[a]) = 0 /\ aphase'[a] = "AwaitingPrepare"
          /\ ~CancelSent' => phase'[a] = "AwaitingHello"
      BY <2>1, <2>2, <2>3
    <3>2. QED
      BY <2>4, <3>1
  <2>5. CASE b # a
    BY <2>3, <2>5
  <2>6. QED
    BY <2>4, <2>5
<1>2. ASSUME NEW a \in Agent, ReceivePrepare(a) PROVE CommandsInv(b)'
  <2>1. Receives(a, "prepare")
    BY <1>2 DEF ReceivePrepare
  <2>2. /\ "prepare" \in LegalFrame(aphase[a])
        /\ \A c \in Agent \ {a} : down'[c] = down[c]
        /\ Len(down'[a]) \in 0..1
        /\ Len(down'[a]) = 1 => down'[a][1] = "cancel"
        /\ ~CancelSent => Len(down'[a]) = 0
    BY <1>0, <2>1, CommandTaken DEF ControllerFrame
  <2>3. /\ \A c \in Agent \ {a} : aphase'[c] = aphase[c] /\ proc'[c] = proc[c]
        /\ proc'[a] = "up" => aphase'[a] = "Preparing"
        /\ UNCHANGED <<jobVars, ctlVars, peer>>
    BY SMTT(30), <1>2 DEF ReceivePrepare
  <2>4. CASE b = a
    <3>1. CASE proc'[a] # "up"
      BY <2>4, <3>1
    <3>2. CASE proc'[a] = "up"
      <4>1. aphase'[a] = "Preparing"
        BY <2>3, <3>2
      <4>2. Len(down'[a]) = 1 => down'[a][1] \in LegalFrame(aphase'[a])
        BY <2>2, <4>1, LegalFrames
      <4>3. ~CancelSent' => Len(down'[a]) = 0 /\ aphase'[a] # "AwaitingPrepare"
        BY <2>2, <2>3, <4>1
      <4>4. QED
        BY <2>2, <2>4, <4>2, <4>3
    <3>3. QED
      BY <3>1, <3>2
  <2>5. CASE b # a
    BY <2>2, <2>3, <2>5
  <2>6. QED
    BY <2>4, <2>5
<1>3. ASSUME NEW a \in Agent, EngineReady(a) PROVE CommandsInv(b)'
  BY <1>3 DEF EngineReady, WorkerInv
<1>4. ASSUME NEW a \in Agent, SendReady(a) PROVE CommandsInv(b)'
  BY <1>4 DEF SendReady, LegalFrame
<1>5. ASSUME NEW a \in Agent, Heartbeat(a) PROVE CommandsInv(b)'
  BY <1>5 DEF Heartbeat, WorkerInv
<1>6. ASSUME NEW a \in Agent, ReceiveStart(a) PROVE CommandsInv(b)'
  <2>1. Receives(a, "start")
    BY <1>6 DEF ReceiveStart
  <2>2. /\ "start" \in LegalFrame(aphase[a])
        /\ \A c \in Agent \ {a} : down'[c] = down[c]
        /\ Len(down'[a]) \in 0..1
        /\ Len(down'[a]) = 1 => down'[a][1] = "cancel"
        /\ ~CancelSent => Len(down'[a]) = 0
    BY <1>0, <2>1, CommandTaken DEF ControllerFrame
  <2>3. /\ \A c \in Agent \ {a} : aphase'[c] = aphase[c] /\ proc'[c] = proc[c]
        /\ proc'[a] = "up" => aphase'[a] = "Running"
        /\ UNCHANGED <<jobVars, ctlVars, peer>>
    BY <1>6 DEF ReceiveStart
  <2>4. CASE b = a
    <3>1. CASE proc'[a] # "up"
      BY <2>4, <3>1
    <3>2. CASE proc'[a] = "up"
      <4>1. aphase'[a] = "Running"
        BY <2>3, <3>2
      <4>2. Len(down'[a]) = 1 => down'[a][1] \in LegalFrame(aphase'[a])
        BY <2>2, <4>1, LegalFrames
      <4>3. ~CancelSent' => Len(down'[a]) = 0 /\ aphase'[a] # "AwaitingPrepare"
        BY <2>2, <2>3, <4>1
      <4>4. QED
        BY <2>2, <2>4, <4>2, <4>3
    <3>3. QED
      BY <3>1, <3>2
  <2>5. CASE b # a
    BY <2>2, <2>3, <2>5
  <2>6. QED
    BY <2>4, <2>5
<1>7. ASSUME NEW a \in Agent, EngineCompletes(a) PROVE CommandsInv(b)'
  BY <1>7 DEF EngineCompletes, WorkerInv
<1>8. ASSUME NEW a \in Agent, EngineFails(a) PROVE CommandsInv(b)'
  BY <1>8 DEF EngineFails, WorkerInv
<1>9. ASSUME NEW a \in Agent, SendFinished(a) PROVE CommandsInv(b)'
  BY <1>9 DEF SendFinished, WorkerInv
<1>10. ASSUME NEW a \in Agent, GiveUp(a) PROVE CommandsInv(b)'
  BY <1>10 DEF GiveUp, WorkerInv
<1>11. ASSUME NEW a \in Agent, ReceiveCancel(a) PROVE CommandsInv(b)'
  <2>1. Receives(a, "cancel")
    BY <1>11 DEF ReceiveCancel
  <2>2. \A c \in Agent \ {a} : down'[c] = down[c]
    BY <1>0, <2>1, CommandTaken DEF ControllerFrame
  <2>3. /\ \A c \in Agent \ {a} : aphase'[c] = aphase[c] /\ proc'[c] = proc[c]
        /\ proc'[a] = "exited"
        /\ UNCHANGED <<jobVars, ctlVars, peer>>
    BY <1>11 DEF ReceiveCancel
  <2>4. CASE b = a
    BY <2>3, <2>4
  <2>5. CASE b # a
    BY <2>2, <2>3, <2>5
  <2>6. QED
    BY <2>4, <2>5
<1>12. ASSUME NEW a \in Agent, WorkerSeesEof(a) PROVE CommandsInv(b)'
  BY <1>12 DEF WorkerSeesEof, WorkerInv
<1>13. ASSUME NEW a \in Agent, WorkerDies(a) PROVE CommandsInv(b)'
  BY <1>13 DEF WorkerDies, WorkerInv
<1>14. ASSUME NEW a \in Agent, PeerSeesEof(a) PROVE CommandsInv(b)'
  <2>1. EndPeer(a, "closed") /\ UNCHANGED <<jobVars, ctlVars, workerVars>>
    BY <1>14 DEF PeerSeesEof
  <2>2. QED
    BY <1>0, <2>1, CommandsCut
<1>15. ASSUME NEW a \in Agent, PeerReceiveFails(a) PROVE CommandsInv(b)'
  <2>1. EndPeer(a, "draining") /\ UNCHANGED <<jobVars, ctlVars, workerVars>>
    BY <1>15 DEF PeerReceiveFails
  <2>2. QED
    BY <1>0, <2>1, CommandsCut
<1>16. ASSUME NEW a \in Agent, LinkBreaks(a) PROVE CommandsInv(b)'
  <2>1. EndPeer(a, "closed") /\ UNCHANGED <<jobVars, ctlVars, workerVars>>
    BY <1>16 DEF LinkBreaks
  <2>2. QED
    BY <1>0, <2>1, CommandsCut
<1>17. ASSUME NEW a \in Agent, PeerAbandoned(a) PROVE CommandsInv(b)'
  <2>1. EndPeer(a, "closed") /\ UNCHANGED <<jobVars, ctlVars, workerVars>>
    BY <1>17 DEF PeerAbandoned
  <2>2. QED
    BY <1>0, <2>1, CommandsCut
<1>18. ASSUME NEW a \in Agent, Launch(a) PROVE CommandsInv(b)'
  BY <1>18 DEF Launch
<1>19. ASSUME NEW a \in Agent, ReceiveConnecting(a) PROVE CommandsInv(b)'
  <2>1. UNCHANGED <<peer, workerVars>> /\ stage # "run" /\ stage' # "run" /\ ~CancelSent /\ ~CancelSent'
    BY <1>19 DEF ReceiveConnecting, Driving
  <2>2. CASE b = a
    <3>1. CASE phase[a] = "AwaitingHello"
      <4>1. aphase[a] = "AwaitingPrepare" /\ down[a] = <<>>
        BY <3>1 DEF FramesInv
      <4>2. \/ phase'[a] = phase[a] /\ down'[a] = down[a]
            \/ peer[a] = "open" /\ down'[a] = Append(down[a], "prepare")
            \/ peer[a] # "open" /\ down'[a] = down[a]
        BY <1>19, <3>1, ConnectAnswer
      <4>3. Len(<<>>) = 0
        OBVIOUS
      <4>4. CASE down'[a] = down[a] /\ (phase'[a] = phase[a] \/ peer[a] # "open")
        BY <2>1, <2>2, <3>1, <4>1, <4>3, <4>4
      <4>5. CASE down'[a] = Append(down[a], "prepare")
        <5>1. Len(down'[a]) = 1 /\ down'[a][1] = "prepare"
          BY <4>1, <4>5
        <5>2. QED
          BY <2>1, <2>2, <4>1, <5>1 DEF LegalFrame
      <4>6. QED
        BY <4>2, <4>4, <4>5
    <3>2. CASE phase[a] # "AwaitingHello"
      BY <1>19, <2>1, <2>2, <3>2 DEF ReceiveConnecting
    <3>3. QED
      BY <3>1, <3>2
  <2>3. CASE b # a
    <3>1. down'[b] = down[b]
      BY <1>19, <2>3 DEF ReceiveConnecting, SendTo
    <3>2. phase'[b] # "AwaitingHello" => phase[b] # "AwaitingHello"
      BY <1>19, <2>3, ReceiveOthers
    <3>3. QED
      BY <2>1, <3>1, <3>2
  <2>4. QED
    BY <2>2, <2>3
<1>20. ASSUME NEW a \in Agent, Receive(a) PROVE CommandsInv(b)'
  <2>1. /\ stage \in {"prepare", "run"} /\ ~CancelSent
        /\ UNCHANGED <<stage, peer, down, workerVars>>
    BY <1>20 DEF Receive, Driving
  <2>2. phase[b] # "AwaitingHello"
    BY <2>1 DEF StageInv
  <2>3. QED
    BY <2>1, <2>2
<1>21. ASSUME NEW a \in Agent, HeartbeatMissed(a) PROVE CommandsInv(b)'
  <2>1. /\ UNCHANGED <<jobVars, stage, peer, down, workerVars>>
        /\ ~CancelSent /\ ~CancelSent'
    BY <1>21 DEF HeartbeatMissed, Driving
  <2>2. QED
    BY <2>1
<1>22. ASSUME NEW a \in Agent, StopPeer(a) PROVE CommandsInv(b)'
  <2>1. EndPeer(a, "closed") /\ UNCHANGED <<jobVars, ctlVars, workerVars>>
    BY <1>22 DEF StopPeer
  <2>2. QED
    BY <1>0, <2>1, CommandsCut
<1>23. CASE LaunchFails
  BY <1>23 DEF LaunchFails, Driving
<1>24. CASE Release
  BY <1>0, <1>24, ReleaseCommands
<1>25. CASE DeadlineExpires
  BY <1>25 DEF DeadlineExpires, Driving
<1>26. CASE RunLoopEnds
  BY <1>26 DEF RunLoopEnds, Driving
<1>27. CASE CancelCohort
  <2>1. /\ ~CancelSent /\ CancelSent' /\ UNCHANGED <<stage, peer, workerVars>>
    BY <1>27 DEF CancelCohort
  <2>2. \/ down'[b] = down[b]
        \/ /\ down'[b] = Append(down[b], "cancel") /\ peer[b] = "open"
           /\ phase[b] # "AwaitingHello"
    BY <1>27 DEF CancelCohort, CancelTargets, SendTo
  <2>3. CASE down'[b] = down[b]
    BY <2>1, <2>3
  <2>4. CASE /\ down'[b] = Append(down[b], "cancel") /\ peer[b] = "open"
             /\ phase[b] # "AwaitingHello"
    <3>1. ASSUME proc[b] = "up"
          PROVE  /\ Len(down[b]) \in 0..1
                 /\ Len(down[b]) = 1 => down[b][1] # "cancel"
                 /\ aphase[b] = "AwaitingPrepare" => Len(down[b]) = 1
                 /\ aphase[b] \in {"AwaitingPrepare", "Ready", "Preparing", "Running"}
      <4>1. aphase[b] \in {"AwaitingPrepare", "Ready", "Preparing", "Running"}
        <5>1. aphase[b] \in AgentPhase
          OBVIOUS
        <5>2. aphase[b] \notin {"Finished", "Failed", "Cancelled"}
          BY <3>1 DEF WorkerInv
        <5>3. QED
          BY <5>1, <5>2 DEF AgentPhase
      <4>2. CommandsInv(b) /\ ~CancelSent /\ peer[b] = "open" /\ phase[b] # "AwaitingHello"
        BY <2>1, <2>4
      <4>3. QED
        BY <3>1, <4>1, <4>2
    <3>2. /\ Len(down'[b]) = Len(down[b]) + 1
          /\ \A i \in 1..Len(down[b]) : down'[b][i] = down[b][i]
          /\ down'[b][Len(down[b]) + 1] = "cancel"
      BY <2>4, QueueSteps DEF ControllerFrame
    <3>3. ASSUME proc[b] = "up"
          PROVE  /\ down'[b][1] \in LegalFrame(aphase[b])
                 /\ stage # "run" => down'[b][1] # "start"
                 /\ Len(down'[b]) \in 1..2
                 /\ Len(down'[b]) = 2 => down'[b][1] # "cancel" /\ down'[b][2] = "cancel"
      <4>1. CASE Len(down[b]) = 0
        <5>1. aphase[b] \in {"Ready", "Preparing", "Running"}
          BY <3>1, <3>3, <4>1
        <5>2. down'[b][1] = "cancel" /\ Len(down'[b]) = 1
          BY <3>2, <4>1
        <5>3. QED
          BY <5>1, <5>2, LegalFrames
      <4>2. CASE Len(down[b]) = 1
        <5>1. down'[b][1] = down[b][1] /\ down'[b][2] = "cancel" /\ Len(down'[b]) = 2
          BY <3>2, <4>2
        <5>2. /\ down[b][1] \in LegalFrame(aphase[b]) /\ down[b][1] # "cancel"
              /\ stage # "run" => down[b][1] # "start"
          <6>1. CommandsInv(b)
            OBVIOUS
          <6>2. QED
            BY <3>1, <3>3, <4>2, <6>1
        <5>3. QED
          BY <5>1, <5>2
      <4>3. QED
        BY <3>1, <3>3, <4>1, <4>2
    <3>4. QED
      BY <2>1, <3>3
  <2>5. QED
    BY <2>2, <2>3, <2>4
<1>28. CASE Return
  BY <1>28 DEF Return, Driving
<1>29. QED
  BY <1>1, <1>2, <1>3, <1>4, <1>5, <1>6, <1>7, <1>8, <1>9, <1>10, <1>11, <1>12, <1>13, <1>14, <1>15, <1>16, <1>17, <1>18, <1>19, <1>20, <1>21, <1>22, <1>23, <1>24, <1>25, <1>26, <1>27, <1>28 DEF Next, Controller, PeerTask, Worker, Engine

\* Every step keeps StageInv.
LEMMA StageStep ==
    ASSUME IInv, Next, TypeOK', JobInv'
    PROVE  StageInv'
<1>0. /\ TypeOK /\ JobInv /\ StageInv
      /\ \A a \in Agent : FramesInv(a) /\ WorkerInv(a) /\ CommandsInv(a)
  BY DEF IInv
<1> USE <1>0 DEF TypeOK, JobTypeOK, jobVars, ctlVars, workerVars, Bail, StageInv
<1>1. ASSUME NEW a \in Agent, SayHello(a) PROVE StageInv'
  BY <1>1 DEF SayHello
<1>2. ASSUME NEW a \in Agent, ReceivePrepare(a) PROVE StageInv'
  BY <1>2 DEF ReceivePrepare
<1>3. ASSUME NEW a \in Agent, EngineReady(a) PROVE StageInv'
  <2>1. readiness[a] = NoReadiness
    BY <1>3 DEF EngineReady, WorkerInv
  <2>2. stage # "run"
    <3>1. SUFFICES ASSUME stage = "run" PROVE FALSE
      OBVIOUS
    <3>2. NoReadiness = [full |-> TRUE, sig |-> readySig] /\ readySig \in Signature
      BY <2>1, <3>1
    <3>3. NoReadiness \in Readiness
      BY <3>2 DEF Readiness
    <3>4. QED
      BY <3>3, RunAssumption
  <2>3. QED
    BY <1>3, <2>2 DEF EngineReady
<1>4. ASSUME NEW a \in Agent, SendReady(a) PROVE StageInv'
  BY <1>4 DEF SendReady
<1>5. ASSUME NEW a \in Agent, Heartbeat(a) PROVE StageInv'
  BY <1>5 DEF Heartbeat
<1>6. ASSUME NEW a \in Agent, ReceiveStart(a) PROVE StageInv'
  BY <1>6 DEF ReceiveStart
<1>7. ASSUME NEW a \in Agent, EngineCompletes(a) PROVE StageInv'
  BY <1>7 DEF EngineCompletes
<1>8. ASSUME NEW a \in Agent, EngineFails(a) PROVE StageInv'
  BY <1>8 DEF EngineFails
<1>9. ASSUME NEW a \in Agent, SendFinished(a) PROVE StageInv'
  BY <1>9 DEF SendFinished
<1>10. ASSUME NEW a \in Agent, GiveUp(a) PROVE StageInv'
  BY <1>10 DEF GiveUp
<1>11. ASSUME NEW a \in Agent, ReceiveCancel(a) PROVE StageInv'
  BY <1>11 DEF ReceiveCancel
<1>12. ASSUME NEW a \in Agent, WorkerSeesEof(a) PROVE StageInv'
  BY <1>12 DEF WorkerSeesEof
<1>13. ASSUME NEW a \in Agent, WorkerDies(a) PROVE StageInv'
  BY <1>13 DEF WorkerDies
<1>14. ASSUME NEW a \in Agent, PeerSeesEof(a) PROVE StageInv'
  BY <1>14 DEF PeerSeesEof
<1>15. ASSUME NEW a \in Agent, PeerReceiveFails(a) PROVE StageInv'
  BY <1>15 DEF PeerReceiveFails
<1>16. ASSUME NEW a \in Agent, LinkBreaks(a) PROVE StageInv'
  BY <1>16 DEF LinkBreaks
<1>17. ASSUME NEW a \in Agent, PeerAbandoned(a) PROVE StageInv'
  BY <1>17 DEF PeerAbandoned
<1>18. ASSUME NEW a \in Agent, Launch(a) PROVE StageInv'
  BY <1>18 DEF Launch
<1>19. ASSUME NEW a \in Agent, ReceiveConnecting(a) PROVE StageInv'
  <2>1. \/ stage' = "connect"
        \/ /\ stage' = "prepare" /\ \A b \in Agent \ {a} : phase[b] # "AwaitingHello"
           /\ Accept(a, Head(up[a])) /\ Acceptable(a, Head(up[a])) /\ phase[a] = "AwaitingHello"
           /\ Head(up[a]) # Closed
    BY <1>19 DEF ReceiveConnecting
  <2>2. Head(up[a]) # Closed => Head(up[a]) \in AgentFrame
    BY <1>19, HeadOfUp, ReceiveEffect
  <2>3. CASE stage' = "connect"
    BY <2>3
  <2>4. CASE stage' # "connect"
    <3>1. stage' = "prepare" /\ phase'[a] # "AwaitingHello"
      BY <2>1, <2>2, <2>4, AcceptEffect
    <3>2. \A b \in Agent \ {a} : phase'[b] # "AwaitingHello"
      BY <1>19, <2>1, <2>4, ReceiveKeepsHello
    <3>3. QED
      BY <3>1, <3>2
  <2>5. QED
    BY <2>3, <2>4
<1>20. ASSUME NEW a \in Agent, Receive(a) PROVE StageInv'
  <2>1. UNCHANGED workerVars /\ \A b \in Agent : phase'[b] = "AwaitingHello" => phase[b] = "AwaitingHello"
    BY <1>20, ReceiveEffect, ReceiveKeepsHello
  <2>2. stage = "run" => readySig' = readySig
    <3>1. CASE UNCHANGED jobVars
      BY <3>1
    <3>2. CASE Head(up[a]) \in AgentFrame /\ Accept(a, Head(up[a]))
      <4>1. \/ readySig' = readySig
            \/ readySig' = Head(up[a]).sig /\ readySig \in {NoSig, Head(up[a]).sig}
        BY <3>2, AcceptEffect
      <4>2. QED
        BY <4>1
    <3>3. QED
      BY <1>20, <3>1, <3>2, ReceiveEffect
  <2>3. stage' = stage
    BY <1>20 DEF Receive
  <2>4. QED
    BY <2>1, <2>2, <2>3
<1>21. ASSUME NEW a \in Agent, HeartbeatMissed(a) PROVE StageInv'
  BY <1>21 DEF HeartbeatMissed
<1>22. ASSUME NEW a \in Agent, StopPeer(a) PROVE StageInv'
  BY <1>22 DEF StopPeer
<1>23. CASE LaunchFails
  BY <1>23 DEF LaunchFails
<1>24. CASE Release
  <2>1. /\ \A b \in Agent : phase[b] = "Ready" /\ phase'[b] = "Running"
        /\ stage' = "run" /\ UNCHANGED <<readySig, workerVars>>
    BY <1>24 DEF Release, StartAll, AllReady
  <2>2. \A b \in Agent : readiness[b] = [full |-> TRUE, sig |-> readySig]
    BY <2>1 DEF FramesInv
  <2>3. readySig # NoSig
    BY <2>1, CohortAssumption DEF JobInv, EvidenceOnlyFromFinished
  <2>4. QED
    BY <2>1, <2>2, <2>3
<1>25. CASE DeadlineExpires
  BY <1>25 DEF DeadlineExpires
<1>26. CASE RunLoopEnds
  BY <1>26 DEF RunLoopEnds
<1>27. CASE CancelCohort
  BY <1>27 DEF CancelCohort, CancelAll
<1>28. CASE Return
  BY <1>28 DEF Return
<1>29. QED
  BY <1>1, <1>2, <1>3, <1>4, <1>5, <1>6, <1>7, <1>8, <1>9, <1>10, <1>11, <1>12, <1>13, <1>14, <1>15, <1>16, <1>17, <1>18, <1>19, <1>20, <1>21, <1>22, <1>23, <1>24, <1>25, <1>26, <1>27, <1>28 DEF Next, Controller, PeerTask, Worker, Engine

\* Every step keeps VerdictInv.
LEMMA VerdictStep ==
    ASSUME IInv, Next, TypeOK', JobInv'
    PROVE  VerdictInv'
<1>0. /\ TypeOK /\ JobInv /\ VerdictInv
      /\ \A a \in Agent : FramesInv(a) /\ WorkerInv(a) /\ CommandsInv(a)
  BY DEF IInv
<1> USE <1>0 DEF TypeOK, JobTypeOK, jobVars, ctlVars, workerVars, Bail, VerdictInv, FinalEvidenceOk
<1>1. ASSUME NEW a \in Agent, SayHello(a) PROVE VerdictInv'
  BY <1>1 DEF SayHello, Driving
<1>2. ASSUME NEW a \in Agent, ReceivePrepare(a) PROVE VerdictInv'
  BY <1>2 DEF ReceivePrepare, Driving
<1>3. ASSUME NEW a \in Agent, EngineReady(a) PROVE VerdictInv'
  BY <1>3 DEF EngineReady, Driving
<1>4. ASSUME NEW a \in Agent, SendReady(a) PROVE VerdictInv'
  BY <1>4 DEF SendReady, Driving
<1>5. ASSUME NEW a \in Agent, Heartbeat(a) PROVE VerdictInv'
  BY <1>5 DEF Heartbeat, Driving
<1>6. ASSUME NEW a \in Agent, ReceiveStart(a) PROVE VerdictInv'
  BY <1>6 DEF ReceiveStart, Driving
<1>7. ASSUME NEW a \in Agent, EngineCompletes(a) PROVE VerdictInv'
  BY <1>7 DEF EngineCompletes, Driving
<1>8. ASSUME NEW a \in Agent, EngineFails(a) PROVE VerdictInv'
  BY <1>8 DEF EngineFails, Driving
<1>9. ASSUME NEW a \in Agent, SendFinished(a) PROVE VerdictInv'
  BY <1>9 DEF SendFinished, Driving
<1>10. ASSUME NEW a \in Agent, GiveUp(a) PROVE VerdictInv'
  BY <1>10 DEF GiveUp, Driving
<1>11. ASSUME NEW a \in Agent, ReceiveCancel(a) PROVE VerdictInv'
  BY <1>11 DEF ReceiveCancel, Driving
<1>12. ASSUME NEW a \in Agent, WorkerSeesEof(a) PROVE VerdictInv'
  BY <1>12 DEF WorkerSeesEof, Driving
<1>13. ASSUME NEW a \in Agent, WorkerDies(a) PROVE VerdictInv'
  BY <1>13 DEF WorkerDies, Driving
<1>14. ASSUME NEW a \in Agent, PeerSeesEof(a) PROVE VerdictInv'
  BY <1>14 DEF PeerSeesEof, Driving
<1>15. ASSUME NEW a \in Agent, PeerReceiveFails(a) PROVE VerdictInv'
  BY <1>15 DEF PeerReceiveFails, Driving
<1>16. ASSUME NEW a \in Agent, LinkBreaks(a) PROVE VerdictInv'
  BY <1>16 DEF LinkBreaks, Driving
<1>17. ASSUME NEW a \in Agent, PeerAbandoned(a) PROVE VerdictInv'
  BY <1>17 DEF PeerAbandoned, Driving
<1>18. ASSUME NEW a \in Agent, Launch(a) PROVE VerdictInv'
  BY <1>18 DEF Launch, Driving
<1>19. ASSUME NEW a \in Agent, ReceiveConnecting(a) PROVE VerdictInv'
  <2>1. verdict = "pending" /\ verdict' \in {"pending", "failed"}
    BY <1>19 DEF ReceiveConnecting, Driving
  <2>2. \A b \in Agent : phase'[b] \notin {"Cancelling", "Cancelled"}
    <3>1. CASE UNCHANGED jobVars
      BY <2>1, <3>1
    <3>2. CASE Head(up[a]) \in AgentFrame /\ Accept(a, Head(up[a]))
      <4>1. phase'[a] \notin {"Cancelling", "Cancelled"}
        BY <2>1, <3>2, AcceptEffect
      <4>2. \A b \in Agent \ {a} : phase'[b] = phase[b]
        BY <3>2, AcceptEffect
      <4>3. QED
        BY <2>1, <4>1, <4>2
    <3>3. QED
      BY <1>19, <3>1, <3>2, ReceiveEffect
  <2>3. QED
    BY <2>1, <2>2
<1>20. ASSUME NEW a \in Agent, Receive(a) PROVE VerdictInv'
  <2>1. verdict = "pending" /\ verdict' \in {"pending", "failed"}
    BY <1>20 DEF Receive, Driving
  <2>2. \A b \in Agent : phase'[b] \notin {"Cancelling", "Cancelled"}
    <3>1. CASE UNCHANGED jobVars
      BY <2>1, <3>1
    <3>2. CASE Head(up[a]) \in AgentFrame /\ Accept(a, Head(up[a]))
      <4>1. phase'[a] \notin {"Cancelling", "Cancelled"}
        BY <2>1, <3>2, AcceptEffect
      <4>2. \A b \in Agent \ {a} : phase'[b] = phase[b]
        BY <3>2, AcceptEffect
      <4>3. QED
        BY <2>1, <4>1, <4>2
    <3>3. QED
      BY <1>20, <3>1, <3>2, ReceiveEffect
  <2>3. QED
    BY <2>1, <2>2
<1>21. ASSUME NEW a \in Agent, HeartbeatMissed(a) PROVE VerdictInv'
  BY <1>21 DEF HeartbeatMissed, Driving
<1>22. ASSUME NEW a \in Agent, StopPeer(a) PROVE VerdictInv'
  BY <1>22 DEF StopPeer
<1>23. CASE LaunchFails
  BY <1>23 DEF LaunchFails, Driving
<1>24. CASE Release
  BY <1>24 DEF Release, Driving, StartAll
<1>25. CASE DeadlineExpires
  BY <1>25 DEF DeadlineExpires, Driving
<1>26. CASE RunLoopEnds
  <2>1. \A b \in Agent : phase[b] = "Finished"
    BY <1>26 DEF RunLoopEnds, Driving, IsTerminal, TerminalPhase, HasFailure
  <2>2. \A b \in Agent : final[b] # NoEvidence
    BY <2>1 DEF JobInv, EvidenceOnlyFromFinished
  <2>3. verdict' = "done" /\ UNCHANGED jobVars
    BY <1>26 DEF RunLoopEnds
  <2>4. QED
    BY <2>2, <2>3
<1>27. CASE CancelCohort
  BY <1>27 DEF CancelCohort
<1>28. CASE Return
  BY <1>28 DEF Return
<1>29. QED
  BY <1>1, <1>2, <1>3, <1>4, <1>5, <1>6, <1>7, <1>8, <1>9, <1>10, <1>11, <1>12, <1>13, <1>14, <1>15, <1>16, <1>17, <1>18, <1>19, <1>20, <1>21, <1>22, <1>23, <1>24, <1>25, <1>26, <1>27, <1>28 DEF Next, Controller, PeerTask, Worker, Engine

-----------------------------------------------------------------------------
LEMMA InitIInv == Init => IInv
<1> SUFFICES ASSUME Init PROVE IInv
  OBVIOUS
<1> USE DEF Init
<1>1. JobInv /\ JobTypeOK
  BY JobInitInv DEF JobInv
<1>2. phase = [a \in Agent |-> "AwaitingHello"]
  BY DEF JobInit
<1>3. TypeOK
  BY <1>1, RunAssumption DEF TypeOK, AgentPhase
<1>4. StageInv /\ VerdictInv
  BY <1>2 DEF StageInv, VerdictInv
<1>5. ASSUME NEW a \in Agent PROVE FramesInv(a) /\ WorkerInv(a) /\ CommandsInv(a)
  BY <1>2 DEF FramesInv, WorkerInv, CommandsInv
<1>6. QED
  BY <1>1, <1>3, <1>4, <1>5 DEF IInv

\* The inductive step: one lemma for each conjunct of the invariant.
LEMMA StepIInv == IInv /\ [Next]_vars => IInv'
<1> SUFFICES ASSUME IInv, [Next]_vars PROVE IInv'
  OBVIOUS
<1>1. CASE Next
  <2>1. TypeOK'
    BY <1>1, ControllerTypeOK, PeerTaskTypeOK, WorkerTypeOK DEF Next
  <2>2. JobInv'
    BY <1>1, RunJobInv
  <2>3. StageInv' /\ VerdictInv'
    BY <1>1, <2>1, <2>2, StageStep, VerdictStep
  <2>4. \A a \in Agent : FramesInv(a)' /\ WorkerInv(a)' /\ CommandsInv(a)'
    BY <1>1, <2>1, <2>2, FramesStep, WorkerStep, CommandsStep
  <2>5. QED
    BY <2>1, <2>2, <2>3, <2>4 DEF IInv
<1>2. CASE UNCHANGED vars
  <2> USE <1>2 DEF vars, jobVars, ctlVars, workerVars
  <2>1. TypeOK' /\ JobInv' /\ StageInv' /\ VerdictInv'
    BY DEF IInv, TypeOK, JobTypeOK, JobInv, EvidenceOnlyFromFinished, StageInv, VerdictInv,
       FinalEvidenceOk
  <2>2. ASSUME NEW a \in Agent PROVE FramesInv(a)'
    <3>1. FramesInv(a) /\ UNCHANGED <<up, phase, aphase, down, final, readiness, readySig>>
      BY DEF IInv
    <3>2. \A i \in 1..Len(up[a]) : FrameOK(a, up[a][i])
      BY <3>1 DEF FramesInv
    <3>3. (\A i \in 1..Len(up[a]) : FrameOK(a, up[a][i]))'
      BY <3>1, <3>2 DEF FrameOK
    <3>4. QED
      BY <3>1, <3>3 DEF FramesInv
  <2>3. \A a \in Agent : WorkerInv(a)'
    BY DEF IInv, WorkerInv
  <2>4. \A a \in Agent : CommandsInv(a)'
    BY DEF IInv, CommandsInv, CancelSent
  <2>5. QED
    BY <2>1, <2>2, <2>3, <2>4 DEF IInv
<1>3. QED
  BY <1>1, <1>2

\* The invariant of the whole run: types, both state machines, every queue.
THEOREM RunInvariant == Spec => []IInv
<1>1. QED
  BY InitIInv, StepIInv, PTL DEF Spec

\* No worker of any cohort offers load before all of them are live on one
\* target, however the run fails (ReadyFrame, start_all, WorkerGate).
THEOREM RunCohortGate == Spec => []CohortGate
<1>1. IInv => CohortGate
  <2> SUFFICES ASSUME IInv, NEW a \in Agent, engine[a] \in {"load", "done"}, NEW b \in Agent
               PROVE  /\ readiness[b] # NoReadiness
                      /\ readiness[b].full
                      /\ readiness[b].sig = readiness[a].sig
    BY DEF CohortGate
  <2>1. stage = "run"
    BY DEF IInv, WorkerInv
  <2>2. /\ readySig # NoSig /\ readySig \in Signature \cup {NoSig}
        /\ readiness[a] = [full |-> TRUE, sig |-> readySig]
        /\ readiness[b] = [full |-> TRUE, sig |-> readySig]
    BY <2>1 DEF IInv, StageInv, TypeOK, JobTypeOK
  <2>3. readiness[b] \in Readiness
    BY <2>2 DEF Readiness
  <2>4. readiness[b] # NoReadiness
    BY <2>3, RunAssumption
  <2>5. QED
    BY <2>2, <2>4
<1>2. QED
  BY <1>1, RunInvariant, PTL

\* run_controller reports only on a cohort that completed and said so.
THEOREM RunReportIsComplete == Spec => []ReportIsComplete
<1>1. IInv => ReportIsComplete
  <2> SUFFICES ASSUME IInv, verdict = "report", NEW a \in Agent
               PROVE  /\ aphase[a] = "Finished" /\ engine[a] = "done"
                      /\ final[a].sig = readiness[a].sig
    BY DEF ReportIsComplete
  <2>1. phase[a] = "Finished"
    BY DEF IInv, VerdictInv, FinalEvidenceOk, JobInv, EvidenceOnlyFromFinished
  <2>2. QED
    BY <2>1 DEF IInv, FramesInv, WorkerInv
<1>2. QED
  BY <1>1, RunInvariant, PTL

\* No frame of the controller meets a worker that must refuse it
\* (AgentStateMachine::accept).
THEOREM RunNoUnexpectedFrame == Spec => []NoUnexpectedFrame
<1>1. IInv => NoUnexpectedFrame
  <2> SUFFICES ASSUME IInv, NEW a \in Agent, proc[a] = "up", down[a] # <<>>
               PROVE  Head(down[a]) \in LegalFrame(aphase[a])
    BY DEF NoUnexpectedFrame
  <2>1. down[a] \in Seq(ControllerFrame)
    BY DEF IInv, TypeOK
  <2>2. Head(down[a]) = down[a][1] /\ Len(down[a]) > 0
    BY <2>1
  <2>3. QED
    BY <2>2 DEF IInv, CommandsInv
<1>2. QED
  BY <1>1, RunInvariant, PTL
\* The whole cohort or none of it, for every number of agents and every way to fail.
THEOREM RunIsSafe == Spec => []CohortIsSafe
BY RunCohortGate, RunReportIsComplete, RunNoUnexpectedFrame, PTL DEF CohortIsSafe

-----------------------------------------------------------------------------
(***************************************************************************)
(* DistributedRun implements CohortRun, for every cohort: each step of the *)
(* frames, queues, processes and both state machines is a step of the      *)
(* abstract run or changes nothing that it sees.                           *)
(***************************************************************************)
Members == [a \in Agent |-> Member(a)]

\* What the abstract run sees.
Seen == <<stage = "run", Members, readiness, Outcome>>

\* A step that keeps what the abstract run sees is a stutter of it.
LEMMA Stutter == UNCHANGED Seen => UNCHANGED Cohort!vars
BY DEF Seen, Members, Cohort!vars

LEMMA RefinementInit == Init => Cohort!Init
BY DEF Init, Cohort!Init, Member, Outcome

\* A step that changes at most member a's standing.
LEMMA OneMember ==
    ASSUME NEW a \in Agent, \A b \in Agent \ {a} : Member(b)' = Member(b)
    PROVE  /\ Members' = [Members EXCEPT ![a] = Member(a)']
           /\ Member(a)' = Member(a) => Members' = Members
BY DEF Members

\* What a worker or its engine does is a step of its member or a stutter.
LEMMA WorkerRefines ==
    ASSUME IInv, NEW a \in Agent, Worker(a) \/ Engine(a)
    PROVE  \/ UNCHANGED Seen
           \/ Cohort!Announce(a) \/ Cohort!Begin(a) \/ Cohort!Complete(a) \/ Cohort!Stop(a)
<1>0. /\ proc \in [Agent -> {"none", "boot", "up", "exited"}] /\ aphase \in [Agent -> AgentPhase]
      /\ engine \in [Agent -> {"idle", "starting", "gated", "load", "done", "failed"}]
      /\ readiness \in [Agent -> Readiness \cup {NoReadiness}]
      /\ WorkerInv(a) /\ CommandsInv(a) /\ down \in [Agent -> Seq(ControllerFrame)]
  BY DEF IInv, TypeOK
<1>1. UNCHANGED <<stage, verdict, Outcome>>
  BY DEF Worker, Engine, SayHello, ReceivePrepare, SendReady, Heartbeat, ReceiveStart, SendFinished,
         GiveUp, ReceiveCancel, WorkerSeesEof, WorkerDies, EngineReady, EngineCompletes, EngineFails,
         ctlVars, Outcome
<1>2. \A b \in Agent \ {a} : Member(b)' = Member(b)
  BY <1>0 DEF Worker, Engine, SayHello, ReceivePrepare, SendReady, Heartbeat, ReceiveStart, SendFinished,
         GiveUp, ReceiveCancel, WorkerSeesEof, WorkerDies, EngineReady, EngineCompletes, EngineFails,
         Exit, Member
<1>3. /\ Members' = [Members EXCEPT ![a] = Member(a)']
      /\ Member(a)' = Member(a) => Members' = Members
      /\ Members[a] = Member(a)
  BY <1>2, OneMember DEF Members
<1>4. CASE EngineReady(a)
  <2>1. readiness[a] = NoReadiness /\ aphase[a] \in {"AwaitingPrepare", "Preparing"} /\ proc[a] = "up"
    BY <1>0, <1>4 DEF EngineReady, WorkerInv, AgentPhase
  <2>2. Member(a) = "preparing" /\ Member(a)' = Member(a)
    BY <1>4, <2>1 DEF EngineReady, Member
  <2>3. QED
    BY <1>1, <1>3, <1>4, <2>1, <2>2 DEF EngineReady, Cohort!Announce, Members
<1>5. CASE ReceiveStart(a)
  <2>1. /\ down[a] # <<>> /\ Head(down[a]) = "start" /\ proc[a] = "up" /\ aphase[a] = "Ready"
        /\ proc' = proc /\ readiness' = readiness /\ aphase' = [aphase EXCEPT ![a] = "Running"]
    BY <1>5 DEF ReceiveStart, Receives, LegalFrame
  <2>2. down[a][1] = "start" /\ Len(down[a]) > 0
    BY <1>0, <2>1
  <2>3. stage = "run"
    BY <1>0, <2>1, <2>2 DEF CommandsInv
  <2>4. Member(a) = "preparing" /\ Member(a)' = "load"
    BY <1>0, <2>1 DEF Member
  <2>5. QED
    BY <1>1, <1>3, <2>1, <2>3, <2>4 DEF Cohort!Begin, Members
<1>6. CASE SendFinished(a)
  <2>1. Member(a) = "load" /\ Member(a)' = "complete" /\ readiness' = readiness
    BY <1>0, <1>6 DEF SendFinished, Member
  <2>2. QED
    BY <1>1, <1>3, <2>1 DEF Cohort!Complete, Members
<1>7. CASE \/ SayHello(a) \/ SendReady(a) \/ Heartbeat(a) \/ EngineCompletes(a) \/ EngineFails(a)
           \/ ReceivePrepare(a) /\ proc' = proc
  <2>1. Member(a)' = Member(a) /\ readiness' = readiness
    BY <1>0, <1>7 DEF SayHello, SendReady, Heartbeat, EngineCompletes, EngineFails, ReceivePrepare,
           Receives, LegalFrame, Member, WorkerInv, AgentPhase
  <2>2. QED
    BY <1>1, <1>3, <2>1 DEF Seen
<1>8. CASE \/ GiveUp(a) \/ ReceiveCancel(a) \/ WorkerSeesEof(a) \/ WorkerDies(a)
           \/ ReceivePrepare(a) /\ Exit(a)
  <2>1. proc[a] \in {"boot", "up"} /\ proc' = [proc EXCEPT ![a] = "exited"] /\ readiness' = readiness
    BY <1>8 DEF GiveUp, ReceiveCancel, WorkerSeesEof, WorkerDies, ReceivePrepare, Receives, Exit
  <2>2. aphase[a] # "Finished" /\ aphase'[a] # "Finished"
    BY <1>0, <1>8, <2>1 DEF GiveUp, ReceiveCancel, WorkerSeesEof, WorkerDies, ReceivePrepare, WorkerInv
  <2>3. Member(a) \in {"preparing", "load"} /\ Member(a)' = "stopped"
    BY <1>0, <2>1, <2>2 DEF Member
  <2>4. QED
    BY <1>1, <1>3, <2>1, <2>3 DEF Cohort!Stop, Members
<1>9. QED
  BY <1>4, <1>5, <1>6, <1>7, <1>8 DEF Worker, Engine, ReceivePrepare

\* What the controller does opens the gate, settles the outcome or is a stutter.
LEMMA ControllerRefines ==
    ASSUME IInv, Controller
    PROVE  UNCHANGED Seen \/ Cohort!Open \/ Cohort!Report \/ Cohort!Fail
<1>0. /\ TypeOK /\ JobInv /\ VerdictInv /\ \A a \in Agent : FramesInv(a) /\ WorkerInv(a)
  BY DEF IInv
<1>1. UNCHANGED <<aphase, readiness>> /\ \A a \in Agent : Member(a)' = Member(a)
  <2>1. CASE \E a \in Agent : Launch(a)
    BY <1>0, <2>1 DEF Launch, Member, WorkerInv, TypeOK
  <2>2. CASE \E a \in Agent : ReceiveConnecting(a) \/ Receive(a)
    BY <2>2 DEF ReceiveConnecting, Receive, Member, workerVars
  <2>3. CASE ~\E a \in Agent : Launch(a) \/ ReceiveConnecting(a) \/ Receive(a)
    BY <2>3 DEF Controller, HeartbeatMissed, StopPeer, LaunchFails, Release, DeadlineExpires,
           RunLoopEnds, CancelCohort, Return, Member, workerVars
  <2>4. QED
    BY <2>1, <2>2, <2>3
<1>2. UNCHANGED <<Members, readiness>>
  BY <1>1 DEF Members
<1>3. CASE Release
  <2>1. /\ stage = "prepare" /\ stage' = "run" /\ verdict = "pending" /\ verdict' \in {"pending", "failed"}
        /\ \A a \in Agent : phase[a] = "Ready"
    BY <1>3 DEF Release, Driving, StartAll, AllReady, Bail
  <2>2. \A a \in Agent : /\ readiness[a] = [full |-> TRUE, sig |-> readySig]
                         /\ readiness[a] # NoReadiness
    <3>1. \A a \in Agent : readiness[a] = [full |-> TRUE, sig |-> readySig] /\ readySig # NoSig
      BY <1>0, <2>1 DEF FramesInv, JobInv, EvidenceOnlyFromFinished
    <3>2. [full |-> TRUE, sig |-> readySig] \in Readiness \/ Agent = {}
      BY <1>0, <3>1 DEF TypeOK, JobTypeOK, Readiness
    <3>3. QED
      BY <3>1, <3>2, RunAssumption
  <2>3. Cohort!CohortAgrees
    BY <2>2 DEF Cohort!CohortAgrees, BothLiveOnOneTarget
  <2>4. Outcome = "pending" /\ Outcome' \in {"pending", "error"}
    BY <2>1 DEF Outcome
  <2>5. QED
    BY <1>2, <2>1, <2>3, <2>4 DEF Cohort!Open, Members
<1>4. CASE Return
  <2>1. /\ verdict \in {"cancelled", "done"} /\ verdict' \in {"report", "error"}
        /\ verdict' = "report" => verdict = "done" /\ FinalEvidenceOk
        /\ stage' = stage
    BY <1>4 DEF Return
  <2>2. CASE verdict' = "report"
    <3>1. \A a \in Agent : phase[a] = "Finished"
      BY <1>0, <2>1, <2>2 DEF FinalEvidenceOk, JobInv, EvidenceOnlyFromFinished
    <3>2. \A a \in Agent : Member(a) = "complete"
      BY <1>0, <3>1 DEF FramesInv, Member
    <3>3. Outcome = "pending" /\ Outcome' = "report"
      BY <2>1, <2>2 DEF Outcome
    <3>4. QED
      BY <1>2, <2>1, <3>2, <3>3 DEF Cohort!Report, Members
  <2>3. CASE verdict' = "error" /\ verdict = "done"
    BY <1>2, <2>1, <2>3 DEF Cohort!Fail, Members, Outcome
  <2>4. CASE verdict' = "error" /\ verdict = "cancelled"
    BY <1>2, <2>1, <2>4 DEF Seen, Outcome
  <2>5. QED
    BY <2>1, <2>2, <2>3, <2>4
<1>5. CASE ~Release /\ ~Return
  <2>1. stage' = stage \/ (stage # "run" /\ stage' # "run")
    BY <1>5 DEF Controller, Launch, ReceiveConnecting, Receive, HeartbeatMissed, StopPeer, LaunchFails,
           DeadlineExpires, RunLoopEnds, CancelCohort, ctlVars
  <2>2. \/ verdict' = verdict
        \/ verdict = "pending" /\ verdict' \in {"failed", "error", "done"}
        \/ verdict = "failed" /\ verdict' = "cancelled"
    BY <1>5 DEF Controller, Launch, ReceiveConnecting, Receive, HeartbeatMissed, StopPeer, LaunchFails,
           DeadlineExpires, RunLoopEnds, CancelCohort, ctlVars, Driving, Bail
  <2>3. CASE verdict = "pending" /\ verdict' \in {"failed", "error"}
    BY <1>2, <2>1, <2>3 DEF Cohort!Fail, Members, Outcome
  <2>4. CASE ~(verdict = "pending" /\ verdict' \in {"failed", "error"})
    BY <1>2, <2>1, <2>2, <2>4 DEF Seen, Outcome
  <2>5. QED
    BY <2>3, <2>4
<1>6. QED
  BY <1>3, <1>4, <1>5

\* The peer tasks only move frames.
LEMMA PeerTaskRefines ==
    ASSUME NEW a \in Agent, PeerTask(a)
    PROVE  UNCHANGED Seen
BY DEF PeerTask, PeerSeesEof, LinkBreaks, PeerReceiveFails, PeerAbandoned, ctlVars, workerVars,
       Seen, Members, Member, Outcome

LEMMA RefinementStep == IInv /\ [Next]_vars => [Cohort!Next]_(Cohort!vars)
<1> SUFFICES ASSUME IInv, [Next]_vars PROVE [Cohort!Next]_(Cohort!vars)
  OBVIOUS
<1>1. CASE UNCHANGED vars
  BY <1>1, Stutter DEF vars, ctlVars, workerVars, Seen, Members, Member, Outcome
<1>2. CASE Controller
  BY <1>2, ControllerRefines, Stutter DEF Cohort!Next
<1>3. CASE \E a \in Agent : PeerTask(a)
  BY <1>3, PeerTaskRefines, Stutter
<1>4. CASE \E a \in Agent : Worker(a) \/ Engine(a)
  BY <1>4, WorkerRefines, Stutter DEF Cohort!Next
<1>5. QED
  BY <1>1, <1>2, <1>3, <1>4 DEF Next

\* Frames, queues, peer tasks and both state machines together do no more than the
\* all-or-nothing cohort allows, for every number of agents (run_controller, run_agent).
THEOREM RunRefinesCohort == Spec => CohortRefinement
BY RefinementInit, RefinementStep, RunInvariant, PTL DEF Spec, Cohort!Spec, CohortRefinement
=============================================================================
