---------------------------- MODULE PipelineSafety ----------------------------
(***************************************************************************)
(* What the engine does guarantee about a workflow.  Each property names   *)
(* the pieces of state it relates; the runs of PROJECT.json check them on  *)
(* small instances, and GateProofs and PatchProofs prove the starred ones  *)
(* for every value of the constants, or of those a comment there names.    *)
(***************************************************************************)
EXTENDS Pipeline

(* * A workflow stands at a stage only when every stage before it has an      *)
(* approval on record: no interleaving of client requests, whose row updates *)
(* were computed from stale reads, lets it skip a gate (approveStage,        *)
(* regeneratePatchesFromSandbox).                                            *)
StageBehindGates == Before(stage) \subseteq Approvals

(* * An analysis or sandbox processor runs, or has a job waiting, only when   *)
(* the stages before its own are approved, across redelivered events, retried*)
(* jobs and duplicated requests.  (ingest, evaluate and apply are also jobs  *)
(* of the legacy flow, which has no gates.)                                  *)
GatedJob == AnalysisJob \cup {"sandbox_validation"}
WorkBehindGates ==
  \A n \in GatedJob :
    ~ At(n, "idle") \/ jobQ[n] # <<>> => Before(StageName[n]) \subseteq Approvals

(* * Nothing is written to GitHub for a workflow without an Approval row: the *)
(* sandbox branch, the commits and the pull request all pass the WriteGate.  *)
WritesAreApproved ==
  \A i \in PatchSetIds : patchSets[i].branch \/ patchSets[i].prs > 0 => approved

(* * DONE is reached by the two roads the engine has and no other: all eight  *)
(* stages approved, or a pull request of the workflow merged.                *)
DoneIsEarned ==
  state = "DONE" => \/ Approvals = ValidStages
                    \/ \E i \in PatchSetIds : patchSets[i].merged

(* * The legacy flow applies patches, and holds an open PR, only after some   *)
(* approval, although the approval and the state are written by different    *)
(* processes.                                                                *)
ApplyingIsApproved == state \in {"APPLYING_PATCHES", "PR_OPEN"} => approved

(* * A patch set that counts as applied has a recorded pull request, and every *)
(* recorded pull request exists on GitHub (patch-applicator's order of calls *)
(* under faults, crashes and re-runs).                                       *)
AppliedHasPullRequest ==
  \A i \in PatchSetIds :
    /\ patchSets[i].prRows <= patchSets[i].prs
    /\ patchSets[i].status = "applied" /\ ~ SkipPr => patchSets[i].prRows > 0

(* * While no call fails and no job can have stalled once too often, the      *)
(* violation rows of a judged patch set are its verdict, except while its    *)
(* re-evaluation is under way or offered again after a crash: a crash between*)
(* deleteMany and createMany loses nothing for good.                         *)
Reevaluating(i) ==
  \/ worker["evaluate_policy"].patchSet = i
  \/ \E k \in DOMAIN jobQ["evaluate_policy"] : jobQ["evaluate_policy"][k].patchSet = i
ViolationsKept ==
  faults = 0 /\ crashes <= MaxStalledCount =>
    \A i \in PatchSetIds :
      patchSets[i].evaluated /\ patchSets[i].rows # patchSets[i].verdict => Reevaluating(i)

(* * While nothing fails or crashes, no pull request is opened for a patch set*)
(* whose verdict is BLOCK.                                                    *)
NoPrForBlockedPatch ==
  faults + crashes = 0 =>
    \A i \in PatchSetIds : patchSets[i].verdict = "block" => patchSets[i].prs = 0

(* * CONTEXT.md, state machine: WAITING_USER_APPROVAL to APPLYING_PATCHES is  *)
(* "(E_APPROVAL_RECORDED for all PatchSets)": no set is left undecided, by    *)
(* way of the fallback that keeps PATCHES_PROPOSED while any set is proposed. *)
ApplyingMeansAllDecided ==
  state = "APPLYING_PATCHES" => WithStatus("proposed") = {}

(* * workflows.service.ts:575: "For policy stage, verify no blocking          *)
(* violations exist": the policy stage is not approved over a BLOCK verdict.  *)
(* With one repository always, through failing calls and crashes.  With more  *)
(* only until the first of them: the set whose rows a crash left deleted may  *)
(* stand unjudged while another set's job makes the stage ready.              *)
PolicyApprovalIsClean ==
  [][NumRepos = 1 \/ faults + crashes = 0 =>
       \A r \in Requests :
         CreateDecision(r) /\ req[r].stage = "policy" /\ req[r].decision = "approve"
           => \A i \in WithStatus("proposed") : patchSets[i].verdict # "block"]_vars

(* * workflows.service.ts:757: "Sets stageStatus to pending and enqueues the  *)
(* stage job.": a pending stage always has something under way for it.  Holds *)
(* while nothing fails or crashes, in a workflow that is not halted, if the pr*)
(* stage is not retried and no retry overlaps another request.                *)
PendingHasWork == stageStatus = "pending" => ~ Quiescent

(* * The engine implements the ledger of approvals.                           *)
Ledger == INSTANCE StageLedger WITH position <- stage, ledger <- Approvals
LedgerSpec == Ledger!Spec

-----------------------------------------------------------------------------
(* Liveness. *)

(* A stage that has become pending is picked up by its processor, or by a     *)
(* client: it does not stay pending.                                         *)
PendingIsPickedUp == stageStatus = "pending" ~> stageStatus # "pending"

(* Everything in the queues is eventually worked off.                        *)
WorkedOff == <>[]Quiescent
=============================================================================
