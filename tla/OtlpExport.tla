----------------------------- MODULE OtlpExport -----------------------------
(***************************************************************************)
(* OtlpHttpExporter::export (output report/otlp.rs): a bounded number of   *)
(* attempts to hand the metrics to a collector that may be away, busy,     *)
(* slow, or take a part of them only.                                      *)
(***************************************************************************)
EXTENDS Integers, FiniteSets

CONSTANTS
    Exporters,     \* the runs that export
    MaxAttempts    \* OtlpHttpConfig: max_attempts

ASSUME ExportAssumption == MaxAttempts \in 1..10 /\ IsFiniteSet(Exporters)

VARIABLES
    wanted,      \* output.otlp: "off" | "advisory" | "required" (fail_on_error)
    attempts,    \* the attempts made
    status,      \* the class of the last response's status
    taken,       \* what the collector took of the payload of the last response: "none" | "whole" | "part"
    says,        \* what that response says of it
    exported,    \* how the export ended
    phase        \* where it is

exportVars == <<wanted, attempts, status, taken, says, exported, phase>>

Statuses == {"success", "retryable", "refused"}

\* What a body says: that something was rejected, or a warning; nothing of the kind, as it
\* is empty, is no object, has no partialSuccess, or has one with a count of zero or that
\* is no number; or it is not JSON.
Bodies == {"rejects", "nothing", "garbage"}

ExportTypeOK ==
    \A r \in Exporters :
        /\ wanted[r] \in {"off", "advisory", "required"} /\ attempts[r] \in 0..MaxAttempts
        /\ status[r] \in Statuses \cup {"none"}
        /\ taken[r] \in {"none", "whole", "part"} /\ says[r] \in Bodies
        /\ exported[r] \in {"pending", "accepted", "partial", "rejected", "unreachable", "broken", "impossible"}
        /\ phase[r] \in {"idle", "prepare", "send", "body", "done", "failed"}

ExportInit ==
    /\ attempts = [r \in Exporters |-> 0] /\ status = [r \in Exporters |-> "none"]
    /\ taken = [r \in Exporters |-> "none"] /\ says = [r \in Exporters |-> "nothing"] /\ exported = [r \in Exporters |-> "pending"]
    /\ phase = [r \in Exporters |-> "idle"]

ExportEnds(r, how, to) == exported' = [exported EXCEPT ![r] = how] /\ phase' = [phase EXCEPT ![r] = to]

\* What a backend's failure means is the operator's choice.
Unless(r, how) == ExportEnds(r, how, IF wanted[r] = "required" THEN "failed" ELSE "done")

-----------------------------------------------------------------------------
\* A figure that is not finite, a header whose variable is missing, a host that is not
\* allowed, cannot be looked up or has an address that is not public.
Prepare(r) ==
    /\ phase[r] = "prepare"
    /\ \/ phase' = [phase EXCEPT ![r] = "send"] /\ UNCHANGED exported
       \/ ExportEnds(r, "impossible", "failed")
    /\ UNCHANGED <<wanted, attempts, status, taken, says>>

\* mutant: one attempt more
RequestLostOnceMore(r) ==
    /\ phase[r] = "send"
    /\ attempts' = [attempts EXCEPT ![r] = @ + 1]
    /\ IF attempts'[r] <= MaxAttempts THEN UNCHANGED <<exported, phase>> ELSE Unless(r, "unreachable")
    /\ UNCHANGED <<wanted, status, taken, says>>

\* The request does not come back: it was not sent, or its answer was lost or late, and
\* then nobody knows what the collector took of it.
RequestLost(r) ==
    /\ phase[r] = "send"
    /\ attempts' = [attempts EXCEPT ![r] = @ + 1]
    /\ IF attempts'[r] < MaxAttempts THEN UNCHANGED <<exported, phase>> ELSE Unless(r, "unreachable")
    /\ UNCHANGED <<wanted, status, taken, says>>

\* The collector answers; with success it took all or a part of the payload, and its body
\* need not say which.
ResponseArrives(r) ==
    /\ phase[r] = "send"
    /\ attempts' = [attempts EXCEPT ![r] = @ + 1]
    /\ phase' = [phase EXCEPT ![r] = "body"]
    /\ \E s \in Statuses, share \in {"whole", "part"}, b \in Bodies :
          /\ status' = [status EXCEPT ![r] = s]
          /\ taken' = [taken EXCEPT ![r] = IF s = "success" THEN share ELSE "none"]
          /\ s # "success" => b = "nothing"    \* not looked at
          /\ says' = [says EXCEPT ![r] = b]
    /\ UNCHANGED <<wanted, exported>>

\* read_limited_body: the body breaks off or is larger than the limit.
BodyBreaks(r) ==
    /\ phase[r] = "body" /\ ExportEnds(r, "broken", "failed")
    /\ UNCHANGED <<wanted, attempts, status, taken, says>>

\* mutant: a status is all that is looked at
AcceptStatus(r) ==
    /\ phase[r] = "body" /\ status[r] = "success" /\ ExportEnds(r, "accepted", "done")
    /\ UNCHANGED <<wanted, attempts, status, taken, says>>

\* response_reports_partial_success: a body that says nothing of a rejection is taken for
\* one of a collector that took everything.
Accepted(r) ==
    /\ phase[r] = "body" /\ status[r] = "success"
    /\ IF says[r] = "nothing" THEN ExportEnds(r, "accepted", "done") ELSE Unless(r, "partial")
    /\ UNCHANGED <<wanted, attempts, status, taken, says>>

Retries(r) ==
    /\ phase[r] = "body" /\ status[r] = "retryable" /\ attempts[r] < MaxAttempts
    /\ phase' = [phase EXCEPT ![r] = "send"]
    /\ UNCHANGED <<wanted, attempts, status, taken, says, exported>>

\* mutant: the last attempt is thought to end in success or refusal
RefusedOnly(r) ==
    /\ phase[r] = "body" /\ status[r] = "refused" /\ Unless(r, "rejected")
    /\ UNCHANGED <<wanted, attempts, status, taken, says>>

Refused(r) ==
    /\ phase[r] = "body" /\ status[r] # "success"
    /\ status[r] = "retryable" => attempts[r] = MaxAttempts
    /\ Unless(r, "rejected")
    /\ UNCHANGED <<wanted, attempts, status, taken, says>>

ExportStep(r) ==
    \/ Prepare(r) \/ RequestLost(r) \/ ResponseArrives(r)
    \/ Accepted(r) \/ Retries(r) \/ Refused(r)
=============================================================================
