------------------------------ MODULE Diagnosis -------------------------------
(* DiagnosisService (diagnosis-service.ts), one await per step, with the       *)
(* context collector and the heuristics it calls.                             *)
EXTENDS Records

CONSTANTS
  Violations,        \* numbers of PolicyViolation rows to diagnose: [secrets, others]
  MinFixConfidence   \* in hundredths

ASSUME DiagnosisAssumption ==
  Violations \subseteq [secrets : Nat, others : Nat] /\ MinFixConfidence \in Nat

Fix(confidence, canAutoPatch) == [confidence |-> confidence, canAutoPatch |-> canAutoPatch]
RetryFix == <<Fix(40, FALSE)>>

Causes == {"policy_violation", "test_failure", "build_error", "dependency_issue", "permission_denied",
           "resource_limit", "network_error", "external_service", "configuration_error", "data_issue", "code_error", "unknown"}

(* identifyRootCause: any violation of the workflow decides; without one the  *)
(* words of the error do, which are abstract here.                            *)
RootCauses(v) ==
  IF v.secrets + v.others > 0 THEN {"policy_violation"} ELSE Causes \ {"policy_violation"}

(* identifyPotentialFixes                                                     *)
PotentialFixes(cause, v) ==
  CASE cause = "policy_violation" ->
         [i \in 1..(v.secrets + v.others) |-> Fix(80, i > v.secrets)]
    [] cause = "test_failure" -> <<Fix(70, TRUE), Fix(50, TRUE)>>
    [] cause = "build_error" -> <<Fix(85, TRUE)>>
    [] cause = "dependency_issue" -> <<Fix(80, FALSE), Fix(60, TRUE)>>
    [] cause = "configuration_error" -> <<Fix(70, FALSE), Fix(60, TRUE)>>
    [] cause = "data_issue" -> <<Fix(70, TRUE), Fix(65, TRUE)>>
    [] cause = "resource_limit" -> <<Fix(60, FALSE), Fix(50, FALSE)>> \o RetryFix
    [] cause \in {"network_error", "external_service"} -> <<Fix(50, FALSE)>> \o RetryFix
    [] cause \in {"permission_denied", "code_error", "unknown"} -> <<Fix(50, FALSE)>>

(* autoGenerateFixes: the fixes a patch set is generated for.                 *)
Generated(fixes) ==
  {i \in DOMAIN fixes : fixes[i].confidence >= MinFixConfidence /\ fixes[i].canAutoPatch}

-----------------------------------------------------------------------------
(* diagnoseAndProposeFixes; collectFailureContext refuses a run that is gone  *)
(* or did not fail, before anything is written.                               *)
Diagnose(c) ==
  /\ Called(c)
  /\ \E r \in rows, v \in Violations :
       /\ r.kind = "run" /\ r.status = "failed"
       /\ \E cause \in RootCauses(v) :
            Moves(c, [Idle EXCEPT !.pc = "diagnosis", !.fixes = Cardinality(Generated(PotentialFixes(cause, v)))])
  /\ SameRows /\ UNCHANGED <<approvals, proposals, marked>>

PersistDiagnosis(c) ==
  /\ At(c, "diagnosis") /\ Insert("artifact", "none", "") /\ Moves(c, Goto(c, "diagnosed"))
  /\ UNCHANGED <<approvals, proposals, marked>>

RecordDiagnosis(c) ==
  /\ At(c, "diagnosed") /\ Insert("event", "none", "") /\ Moves(c, Goto(c, "fix"))
  /\ UNCHANGED <<approvals, proposals, marked>>

(* generateFixPatchSet: the base is read, then the set is created.            *)
ReadBase(c) ==
  /\ At(c, "fix") /\ calls[c].fixes > 0
  /\ Moves(c, [Goto(c, "fixSet") EXCEPT !.base = workflow.base])
  /\ SameRows /\ UNCHANGED <<approvals, proposals, marked>>

CreateFixSet(c) ==
  /\ At(c, "fixSet") /\ Insert("patchSet", "proposed", calls[c].base)
  /\ Moves(c, [Goto(c, "proposed") EXCEPT !.set = clock + 1])
  /\ UNCHANGED <<approvals, proposals, marked>>

FixProposed(c) ==
  /\ At(c, "proposed") /\ Insert("event", "none", "")
  /\ Moves(c, [Goto(c, "fix") EXCEPT !.fixes = @ - 1, !.listed = @ \cup {calls[c].set}, !.set = 0])
  /\ UNCHANGED <<approvals, proposals, marked>>

ReturnProposals(c) ==
  /\ At(c, "fix") /\ calls[c].fixes = 0
  /\ proposals' = proposals \cup calls[c].listed /\ Ends(c)
  /\ SameRows /\ UNCHANGED <<approvals, marked>>

-----------------------------------------------------------------------------
(* approveFixProposal and rejectFixProposal: neither reads what the set is.   *)
Decide(c) ==
  /\ Called(c)
  /\ \E set \in proposals, pc \in {"approve", "reject"} : Moves(c, [Idle EXCEPT !.pc = pc, !.set = set])
  /\ SameRows /\ UNCHANGED <<approvals, proposals, marked>>

WithStatus(set, status) == {IF r.at = set THEN [r EXCEPT !.status = status] ELSE r : r \in rows}

\* Mutant: updateMany, which does not mind that the set is gone.
MarkAny(c, status, then) == rows' = WithStatus(calls[c].set, status) /\ Moves(c, Goto(c, then))

(* patchSet.update throws when the set is gone.                               *)
Mark(c, status, then) ==
  /\ rows' = WithStatus(calls[c].set, status)
  /\ IF calls[c].set \in IdsOf("patchSet") THEN Moves(c, Goto(c, then)) ELSE Ends(c)

ApproveSet(c) ==
  /\ At(c, "approve") /\ Mark(c, "approved", "approval")
  /\ marked' = marked \cup (IdsOf("patchSet") \cap {calls[c].set})
  /\ UNCHANGED <<approvals, proposals, clock>>

RejectSet(c) ==
  /\ At(c, "reject") /\ Mark(c, "rejected", "decided")
  /\ UNCHANGED <<approvals, proposals, clock, marked>>

CreateApproval(c) ==
  /\ At(c, "approval") /\ approvals' = approvals \cup {calls[c].set} /\ Moves(c, Goto(c, "decided"))
  /\ SameRows /\ UNCHANGED <<proposals, marked>>

RecordDecision(c) ==
  /\ At(c, "decided") /\ Insert("event", "none", "") /\ Ends(c)
  /\ UNCHANGED <<approvals, proposals, marked>>

DiagnosisStep(c) ==
  /\ \/ Diagnose(c) \/ Decide(c)
     \/ /\ \/ PersistDiagnosis(c) \/ RecordDiagnosis(c) \/ ReadBase(c) \/ CreateFixSet(c) \/ FixProposed(c)
           \/ ReturnProposals(c) \/ ApproveSet(c) \/ RejectSet(c) \/ CreateApproval(c) \/ RecordDecision(c)
        /\ UNCHANGED begun
  /\ UNCHANGED <<workflow, checkpoints, pullRequest, hooks, work, faults, matched, recorded, dropped>>
===============================================================================
