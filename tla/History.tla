------------------------------- MODULE History --------------------------------
(***************************************************************************)
(* Checkpoints, diagnosis and webhooks on the rows of one workflow that    *)
(* moves on meanwhile: what a restore deletes, what is kept to restore,    *)
(* and whether a result that was delivered is recorded.                    *)
(***************************************************************************)
EXTENDS Checkpoints, Diagnosis, Deliveries

(* The engine works on: a transition, a new base, an artifact, a patch set, a *)
(* pull request, a failed run.                                                *)
Advance ==
  /\ work < MaxWork /\ work + faults < MaxEvents /\ work' = work + 1
  /\ \/ \E s \in States : s # workflow.state /\ workflow' = [workflow EXCEPT !.state = s] /\ SameRows /\ UNCHANGED pullRequest
     \/ \E b \in Commits : b # workflow.base /\ workflow' = [workflow EXCEPT !.base = b] /\ SameRows /\ UNCHANGED pullRequest
     \/ Insert("artifact", "none", "") /\ UNCHANGED <<workflow, pullRequest>>
     \/ Insert("patchSet", "proposed", workflow.base) /\ UNCHANGED <<workflow, pullRequest>>
     \/ Insert("run", "failed", "") /\ UNCHANGED <<workflow, pullRequest>>
     \/ pullRequest = "none" /\ pullRequest' = "open" /\ SameRows /\ UNCHANGED workflow
  /\ UNCHANGED <<checkpoints, approvals, proposals, hooks, calls, begun, faults, marked, matched, recorded, dropped>>

(* A database call fails, or the process dies: the call ends where it is.     *)
CallFails(c) ==
  /\ ~ At(c, "idle") /\ faults < MaxFaults /\ work + faults < MaxEvents /\ faults' = faults + 1 /\ Ends(c)
  /\ UNCHANGED <<workflow, rows, checkpoints, pullRequest, approvals, proposals, hooks, clock, begun, work,
                 marked, matched, recorded, dropped>>

Next ==
  \/ Advance
  \/ \E c \in Callers : CheckpointStep(c) \/ DiagnosisStep(c) \/ DeliveryStep(c) \/ CallFails(c)

Spec == Init /\ [][Next]_vars

-----------------------------------------------------------------------------
(* checkpoint-service.ts, "Clean up data created after a checkpoint": a       *)
(* restore deletes none of the rows its checkpoint lists, although they are   *)
(* told apart by time alone and were listed while others were inserted.       *)
RestoreKeepsSnapshot ==
  [][\A c \in Callers : calls'[c] # calls[c] /\ calls[c].pc \in RowKind =>
       \A r \in rows \ rows' : r.at \notin calls[c].target.lists]_vars

(* keepFirstCheckpoint and preserveManualCheckpoints: what is pruned was made *)
(* automatically and is not the oldest, whoever else creates or prunes        *)
(* between the listing and the deletion, unless a caller deletes checkpoints. *)
FirstAndManualKept ==
  [][\A c \in Callers : calls'[c] # calls[c] /\ At(c, "delete") =>
       \A k \in checkpoints \ checkpoints' : k.auto /\ (dropped \/ Older(k) # {})]_vars

(* approveFixProposal: a set is approved, then the approval is recorded.  An  *)
(* approval is of a set that was approved; and an approved set has its        *)
(* approval, unless it is being recorded or a call failed.                    *)
FixApprovalsAgree ==
  /\ approvals \subseteq marked
  /\ \A set \in marked \ approvals : faults > 0 \/ \E c \in Callers : At(c, "approval") /\ calls[c].set = set

(* webhook-service.ts marks a delivery processed last, and a marked one is    *)
(* not looked at again: one that concerned the workflow and is marked, by     *)
(* this or by another call that looked at it before or after, is recorded,    *)
(* unless a call is about to record it or a call failed.                      *)
Recording(c, d) == calls[c].delivery = d /\ calls[c].pc \in {"ciEvent", "merge", "mergeEvent"}

ProcessedIsRecorded ==
  \A d \in matched \ recorded : hooks[d] = "processed" => faults > 0 \/ \E c \in Callers : Recording(c, d)

(* maxCheckpointsPerWorkflow: while no call fails, and once everyone who made *)
(* a checkpoint has pruned from a list read later, the checkpoints made       *)
(* automatically are at most that many beside the oldest one, whatever others *)
(* created, deleted and restored meanwhile.                                   *)
PruningKeepsBound ==
  faults = 0 /\ (\A c \in Callers : calls[c].pc \notin {"created", "prune", "delete"}) =>
    Cardinality({k \in checkpoints : k.auto /\ Older(k) # {}}) <= MaxCheckpoints
===============================================================================
