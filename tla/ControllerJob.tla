---------------------------- MODULE ControllerJob ----------------------------
(***************************************************************************)
(* The controller's protocol state for one distributed job:                *)
(* ControllerJobState in crates/distributed/src/state.rs.  It decides      *)
(* which frames of an agent are legal in which phase, gates the start on   *)
(* the readiness of the whole cohort, keeps the newest cumulative progress *)
(* of each agent and retains the final evidence.                           *)
(*                                                                         *)
(* Taken alone (JobSpec) the module lets every agent send every frame at   *)
(* any time, in any order and any number of times: that is what the type   *)
(* must withstand.  DistributedRun drives the same operators from the      *)
(* controller's event loop.                                                *)
(***************************************************************************)
EXTENDS Integers, FiniteSets

CONSTANTS
    Agent,      \* inventory names; ControllerJobState::new rejects duplicates
    Signature,  \* (target protocol version, tool inventory hash) pairs
    MaxSeq,     \* bound: largest progress sequence number an agent sends
    NoSig,      \* ready_signature is None
    NoEvidence  \* final_evidence is None

ASSUME CohortAssumption == Agent # {} /\ IsFiniteSet(Agent)
ASSUME SignatureAssumption == Signature # {} /\ NoSig \notin Signature
ASSUME MaxSeqAssumption == MaxSeq \in Nat

\* Cumulative evidence: what it was measured against and how far it had got.
Evidence == [sig: Signature, upto: 0..MaxSeq]

ASSUME EvidenceAssumption == NoEvidence \notin Evidence

VARIABLES
    phase,      \* ControllerAgentPhase of each agent
    readySig,   \* ready_signature, fixed by the first agent that is ready
    progress,   \* latest_progress of each agent; seq = -1 when there is none
    final       \* final_evidence of each agent

jobVars == <<phase, readySig, progress, final>>

-----------------------------------------------------------------------------
\* Frames an agent can put on its channel.  `bound' says that the job id, and
\* the agent name where the frame carries one, are those of this job and agent.
AgentFrame ==
         [type: {"hello"}, capable: BOOLEAN]
    \cup [type: {"ready"}, bound: BOOLEAN, full: BOOLEAN, sig: Signature]
    \cup [type: {"progress"}, bound: BOOLEAN, seq: 0..MaxSeq, evidence: Evidence]
    \cup [type: {"finished"}, bound: BOOLEAN, evidence: Evidence]
    \cup [type: {"heartbeat", "failed", "cancelled"}, bound: BOOLEAN]

ControllerAgentPhase == {"AwaitingHello", "Preparing", "Ready", "Running",
                         "Finished", "Failed", "Cancelling", "Cancelled"}

TerminalPhase == {"Finished", "Failed", "Cancelled"}

NoProgress == [seq |-> -1, evidence |-> NoEvidence]

Progress == [seq: -1..MaxSeq, evidence: Evidence \cup {NoEvidence}]

JobTypeOK ==
    /\ phase \in [Agent -> ControllerAgentPhase]
    /\ readySig \in Signature \cup {NoSig}
    /\ progress \in [Agent -> Progress]
    /\ final \in [Agent -> Evidence \cup {NoEvidence}]

JobInit ==
    /\ phase = [a \in Agent |-> "AwaitingHello"]
    /\ readySig = NoSig
    /\ progress = [a \in Agent |-> NoProgress]
    /\ final = [a \in Agent |-> NoEvidence]

-----------------------------------------------------------------------------
(***************************************************************************)
(* accept(agent, frame): one disjunct per arm of the match.                *)
(***************************************************************************)
SetPhase(a, p) == phase' = [phase EXCEPT ![a] = p]

AcceptHello(a, f) ==
    /\ f.type = "hello" /\ phase[a] = "AwaitingHello"
    /\ f.capable
    /\ SetPhase(a, "Preparing")
    /\ UNCHANGED <<readySig, progress, final>>

\* All sessions live, and the same target as the agents that were ready before.
Matches(f) == f.full /\ readySig \in {NoSig, f.sig}

AcceptReady(a, f) ==
    /\ f.type = "ready" /\ phase[a] = "Preparing"
    /\ f.bound /\ Matches(f)
    /\ SetPhase(a, "Ready")
    /\ readySig' = f.sig
    /\ UNCHANGED <<progress, final>>

\* A shortfall or a different target fails the agent and returns an error.
FailReady(a, f) ==
    /\ f.type = "ready" /\ phase[a] = "Preparing"
    /\ f.bound /\ ~Matches(f)
    /\ SetPhase(a, "Failed")
    /\ UNCHANGED <<readySig, progress, final>>

\* mutant: a replayed checkpoint replaces a newer one
AcceptProgressAnyOrder(a, f) ==
    /\ f.type = "progress" /\ phase[a] = "Running"
    /\ f.bound
    /\ progress' = [progress EXCEPT ![a] = [seq |-> f.seq, evidence |-> f.evidence]]
    /\ UNCHANGED <<phase, readySig, final>>

AcceptProgress(a, f) ==
    /\ f.type = "progress" /\ phase[a] = "Running"
    /\ f.bound
    /\ progress' = IF f.seq > progress[a].seq
                   THEN [progress EXCEPT ![a] = [seq |-> f.seq, evidence |-> f.evidence]]
                   ELSE progress
    /\ UNCHANGED <<phase, readySig, final>>

AcceptHeartbeat(a, f) ==
    /\ f.type = "heartbeat" /\ phase[a] \in {"Preparing", "Ready", "Running"}
    /\ f.bound
    /\ UNCHANGED jobVars

\* mutant: a final result is taken from an agent in any phase
AcceptFinishedAnyPhase(a, f) ==
    /\ f.type = "finished"
    /\ f.bound
    /\ final' = [final EXCEPT ![a] = f.evidence]
    /\ SetPhase(a, "Finished")
    /\ UNCHANGED <<readySig, progress>>

AcceptFinished(a, f) ==
    /\ f.type = "finished" /\ phase[a] = "Running"
    /\ f.bound
    /\ final' = [final EXCEPT ![a] = f.evidence]
    /\ SetPhase(a, "Finished")
    /\ UNCHANGED <<readySig, progress>>

AcceptCancelled(a, f) ==
    /\ f.type = "cancelled" /\ phase[a] = "Cancelling"
    /\ f.bound
    /\ SetPhase(a, "Cancelled")
    /\ UNCHANGED <<readySig, progress, final>>

\* mutant: a late failure frame is applied to an agent that already ended
AcceptFailedLate(a, f) ==
    /\ f.type = "failed"
    /\ f.bound
    /\ SetPhase(a, "Failed")
    /\ UNCHANGED <<readySig, progress, final>>

AcceptFailed(a, f) ==
    /\ f.type = "failed" /\ phase[a] \notin TerminalPhase
    /\ f.bound
    /\ SetPhase(a, "Failed")
    /\ UNCHANGED <<readySig, progress, final>>

\* The arms of accept that return Ok.
Acceptable(a, f) ==
    \/ f.type = "hello" /\ phase[a] = "AwaitingHello" /\ f.capable
    \/ f.type = "ready" /\ phase[a] = "Preparing" /\ f.bound /\ Matches(f)
    \/ f.type \in {"progress", "finished"} /\ phase[a] = "Running" /\ f.bound
    \/ f.type = "heartbeat" /\ phase[a] \in {"Preparing", "Ready", "Running"} /\ f.bound
    \/ f.type = "cancelled" /\ phase[a] = "Cancelling" /\ f.bound
    \/ f.type = "failed" /\ phase[a] \notin TerminalPhase /\ f.bound

\* Every other frame returns an error and leaves the job alone.
RejectFrame(a, f) ==
    /\ ~Acceptable(a, f)
    /\ ~(f.type = "ready" /\ phase[a] = "Preparing" /\ f.bound)
    /\ UNCHANGED jobVars

Accept(a, f) ==
    \/ AcceptHello(a, f)
    \/ AcceptReady(a, f)
    \/ FailReady(a, f)
    \/ AcceptProgress(a, f)
    \/ AcceptHeartbeat(a, f)
    \/ AcceptFinished(a, f)
    \/ AcceptCancelled(a, f)
    \/ AcceptFailed(a, f)
    \/ RejectFrame(a, f)

-----------------------------------------------------------------------------
\* Cohort operations.
AllReady == \A a \in Agent : phase[a] = "Ready"

IsTerminal == \A a \in Agent : phase[a] \in TerminalPhase

HasFailure == \E a \in Agent : phase[a] = "Failed"

\* final_evidence() is Ok: every agent delivered a final result.
FinalEvidenceOk == \A a \in Agent : final[a] # NoEvidence

\* latest_evidence(agent): the final result, else the newest checkpoint.
LatestEvidence(a) == IF final[a] # NoEvidence THEN final[a] ELSE progress[a].evidence

StartAll ==
    /\ AllReady
    /\ phase' = [a \in Agent |-> "Running"]
    /\ UNCHANGED <<readySig, progress, final>>

\* mutant: Cancel is also sent to an agent that has not been prepared
CancelTargetsAll == {a \in Agent : phase[a] \notin TerminalPhase}

\* The agents that cancel_all sends a Cancel frame to.
CancelTargets == {a \in Agent : phase[a] \notin TerminalPhase \cup {"AwaitingHello"}}

\* mutant: cancel_all forgets which agents already ended
CancelAllEverywhere ==
    /\ phase' = [a \in Agent |-> "Cancelling"]
    /\ UNCHANGED <<readySig, progress, final>>

CancelAll ==
    /\ phase' = [a \in Agent |->
                    IF phase[a] \in TerminalPhase THEN phase[a]
                    ELSE IF phase[a] = "AwaitingHello" THEN "Cancelled"
                    ELSE "Cancelling"]
    /\ UNCHANGED <<readySig, progress, final>>

JobNext ==
    \/ \E a \in Agent, f \in AgentFrame : Accept(a, f)
    \/ StartAll
    \/ CancelAll

JobSpec == JobInit /\ [][JobNext]_jobVars

-----------------------------------------------------------------------------
(***************************************************************************)
(* Properties.                                                             *)
(***************************************************************************)

\* Exactly the agents whose phase is Finished have final evidence, and once an
\* agent ran, the cohort's signature is fixed (accept, start_all): no order of
\* frames and cancellations leaves evidence of an agent that did not finish.
EvidenceOnlyFromFinished ==
    \A a \in Agent :
        /\ final[a] # NoEvidence <=> phase[a] = "Finished"
        /\ phase[a] \in {"Ready", "Running", "Finished"} => readySig # NoSig

\* The inductive invariant behind it, with the shape of latest_progress.
JobInv ==
    /\ JobTypeOK
    /\ EvidenceOnlyFromFinished
    /\ \A a \in Agent : (progress[a].seq = -1) <=> (progress[a].evidence = NoEvidence)

\* A failure is final (accept's last arms, cancel_all): once an agent failed,
\* no later frame, start or cancellation lets final_evidence() succeed.
FailureIsFinal == [](HasFailure => [](HasFailure /\ ~FinalEvidenceOk))

\* What latest_evidence(agent) returns only moves forward (accept's Progress and
\* Finished arms): never back to an older checkpoint, never away from a final
\* result, whatever is replayed or reordered.
LatestEvidenceMovesForward ==
    [][\A a \in Agent :
         /\ final[a] # NoEvidence => final'[a] = final[a]
         /\ progress'[a] = progress[a] \/ progress'[a].seq > progress[a].seq]_jobVars

\* An agent that ended stays as it ended (accept, start_all, cancel_all).
TerminalPhasesAreKept ==
    [][\A a \in Agent : phase[a] \in TerminalPhase => phase'[a] = phase[a]]_jobVars

\* What the job has settled is not taken back, whatever is replayed, reordered or late:
\* neither an agent's end nor its newest evidence (accept, start_all, cancel_all).
SettledIsKept == TerminalPhasesAreKept /\ LatestEvidenceMovesForward
=============================================================================
