------------------------------- MODULE Pipeline -------------------------------
(***************************************************************************)
(* One workflow driven by the whole engine: client requests and webhooks   *)
(* at the API, the orchestrator, and the processors, over the shared       *)
(* store.  The environment (clients, GitHub, faults, crashes) is bounded   *)
(* by three counters and their sum so that instances are finite; the       *)
(* theorems hold for every value of the bounds.                            *)
(***************************************************************************)
EXTENDS ClientActions, Orchestrator, AnalysisProcessors, PatchProcessors

CONSTANTS
  Origin,       \* "gated": made by create; "legacy": a row from before the gates
  StartStage,   \* a gated workflow starts where this stage has just become pending
  Actions,      \* the client actions and webhooks that may happen
  MaxCalls, MaxFaults, MaxCrashes,
  MaxEvents     \* and of these three together

ActionName ==
  {"approveStage", "rejectStage", "requestStageChanges", "retryStage",
   "regeneratePatches", "approve", "reject", "requestChanges", "cancel",
   "mergePr", "closePr", "ci"}

ASSUME PipelineAssumption ==
  /\ Origin \in {"gated", "legacy"}
  /\ StartStage \in ValidStages
  /\ Actions \subseteq ActionName
  /\ MaxCalls \in Nat /\ MaxFaults \in Nat /\ MaxCrashes \in Nat /\ MaxEvents \in Nat

vars == <<state, stage, stageStatus, decisions, artifacts, patchSets, approved,
          orchQ, jobQ, faults, crashes, orch, req, calls, worker>>

-----------------------------------------------------------------------------
(* Initial states. *)

(* The patch sets of a workflow whose StartStage has just become pending: one *)
(* per repository once patches are behind it, judged once policy is.          *)
StartPatchSets ==
  IF "patches" \notin Before(StartStage) THEN {<<>>}
  ELSE IF "policy" \notin Before(StartStage)
    THEN {[i \in 1..NumRepos |-> NewPatchSet(v[i])] : v \in [1..NumRepos -> Verdicts]}
  ELSE {[i \in 1..NumRepos |-> [NewPatchSet(v[i]) EXCEPT !.rows = v[i], !.evaluated = TRUE]] :
          v \in [1..NumRepos -> Verdicts \ {"block"}]}

(* create, or approveStage of the stage before *)
StartEvent ==
  IF StartStage = "feasibility" THEN Plain("E_WORKFLOW_CREATED")
  ELSE OfStage("E_STAGE_APPROVED", CHOOSE s \in ValidStages : NextStage[s] = StartStage)

GatedInit ==
  /\ state = "INTAKE" /\ stage = StartStage /\ stageStatus = "pending"
  /\ decisions = {[stage |-> s, decision |-> "approve"] : s \in Before(StartStage)}
  /\ artifacts = Before(StartStage) \ {"patches", "policy", "sandbox", "pr"}
  /\ patchSets \in StartPatchSets
  /\ orchQ = <<[ev |-> StartEvent, left |-> 1, fresh |-> TRUE, stalls |-> 0]>>
  /\ jobQ = [n \in JobName |-> <<>>]

(* A row written before the gated pipeline existed: ingest_context is queued, *)
(* and the stage columns hold the defaults the migration gave them.           *)
LegacyInit ==
  /\ state = "INGESTED" /\ stage = "feasibility" /\ stageStatus = "pending"
  /\ decisions = {} /\ artifacts = {} /\ patchSets = <<>>
  /\ orchQ = <<>>
  /\ jobQ = [n \in JobName |-> IF n = "ingest_context"
               THEN <<[patchSet |-> NoPatchSet, left |-> JobAttempts, fresh |-> TRUE, stalls |-> 0]>>
               ELSE <<>>]

Init ==
  /\ IF Origin = "gated" THEN GatedInit ELSE LegacyInit
  /\ approved = FALSE
  /\ faults = 0 /\ crashes = 0 /\ calls = 0
  /\ orch = [o \in Orchestrators |-> IdleOrch]
  /\ req = [r \in Requests |-> IdleRequest]
  /\ worker = [n \in JobName |-> IdleWorker]

-----------------------------------------------------------------------------
(* Steps of the engine. *)

OrchestratorStep(o) == HandleEvent(o) /\ UNCHANGED <<req, calls, worker>>

RequestStep(r) == HandleRequest(r) /\ UNCHANGED <<orch, worker>>

WorkerStep ==
  \/ FeasibilityAnalysis \/ ArchitectureAnalysis \/ TimelineAnalysis \/ SummaryAnalysis
  \/ IngestContext \/ EvaluatePolicy \/ SandboxValidation \/ ApplyPatches
  \/ \E n \in JobName : TakeJob(n)

ProcessorStep == WorkerStep /\ UNCHANGED <<orch, req, calls>>

(* Steps of the environment. *)

WithinBounds == calls + faults + crashes < MaxEvents

Client(r) ==
  \/ "approveStage" \in Actions /\ ApproveStage(r)
  \/ "rejectStage" \in Actions /\ RejectStage(r)
  \/ "requestStageChanges" \in Actions /\ RequestStageChanges(r)
  \/ "retryStage" \in Actions /\ RetryStage(r)
  \/ "regeneratePatches" \in Actions /\ RegeneratePatches(r)
  \/ "approve" \in Actions /\ Approve(r)
  \/ "reject" \in Actions /\ Reject(r)
  \/ "requestChanges" \in Actions /\ RequestChanges(r)
  \/ "cancel" \in Actions /\ Cancel(r)

GitHub ==
  \/ \E i \in PatchSetIds :
       \/ "mergePr" \in Actions /\ PullRequestEvent(i, TRUE)
       \/ "closePr" \in Actions /\ PullRequestEvent(i, FALSE)
  \/ "ci" \in Actions /\ \E success \in BOOLEAN : CiEvent(success)

ClientStep ==
  /\ calls < MaxCalls /\ WithinBounds
  /\ \/ \E r \in Requests : Client(r)
     \/ GitHub
  /\ UNCHANGED <<orch, worker>>

WorkerFault ==
  \/ \E n \in AnalysisJob : AnalysisFault(n)
  \/ IngestFault \/ EvaluationFault \/ SandboxFault \/ ApplyFault
  \/ \E n \in JobName : FailBeforeTry(n)

FaultStep ==
  /\ faults < MaxFaults /\ WithinBounds
  /\ \/ (\E o \in Orchestrators : FailEvent(o)) /\ UNCHANGED <<req, calls, worker>>
     \/ WorkerFault /\ UNCHANGED <<orch, req, calls>>

CrashStep ==
  /\ crashes < MaxCrashes /\ WithinBounds
  /\ \/ (\E o \in Orchestrators : CrashOrchestrator(o)) /\ UNCHANGED <<req, calls, worker>>
     \/ (\E n \in JobName : CrashWorker(n)) /\ UNCHANGED <<orch, req, calls>>
     \/ (\E r \in Requests : AbandonRequest(r)) /\ UNCHANGED <<orch, worker>>

Next ==
  \/ \E o \in Orchestrators : OrchestratorStep(o)
  \/ \E r \in Requests : RequestStep(r)
  \/ ProcessorStep
  \/ ClientStep
  \/ FaultStep
  \/ CrashStep

Spec == Init /\ [][Next]_vars

(* Queues hand out their jobs and handlers that began go on: what BullMQ and  *)
(* the event loop do while the processes live.  Clients and GitHub promise    *)
(* nothing, and nothing must fail.                                            *)
Fairness ==
  /\ \A o \in Orchestrators : WF_vars(OrchestratorStep(o))
  /\ \A r \in Requests : WF_vars(RequestStep(r))
  /\ WF_vars(ProcessorStep)

FairSpec == Spec /\ Fairness

-----------------------------------------------------------------------------
(* Nothing is queued and nobody is at work *)
Quiescent ==
  /\ orchQ = <<>>
  /\ \A o \in Orchestrators : orch[o].pc = "idle"
  /\ \A r \in Requests : Idle(r)
  /\ \A n \in JobName : jobQ[n] = <<>> /\ At(n, "idle")

OrchRecord ==
  [pc : {"idle", "decide", "commit", "enqueue"}, ev : Event, left : Nat, stalls : Nat,
   seen : WorkflowState, next : WorkflowState,
   jobs : SUBSET [name : JobName, patchSet : Nat]]

RowRecord == [state : WorkflowState \cup {Keep}, stage : GatedStage \cup {Keep},
              stageStatus : StageStatus \cup {Keep}]

RequestRecord ==
  [todo : SUBSET Steps, stage : ValidStages,
   decision : {"approve", "reject", "request_changes"}, row : RowRecord,
   mark : {"approved", "rejected"}, marked : SUBSET Nat, ev : Event]

WorkerRecord ==
  [pc : ProcessorPc, patchSet : Nat, left : Nat, stalls : Nat, sawStage : GatedStage,
   sawStatus : StageStatus, made : Nat, flag : BOOLEAN]

(* Every column, row, queue entry and handler-local value has its type.        *)
TypeOK ==
  /\ state \in WorkflowState /\ stage \in GatedStage /\ stageStatus \in StageStatus
  /\ decisions \subseteq Decision
  /\ artifacts \subseteq ValidStages
  /\ patchSets \in Seq(PatchSet)
  /\ approved \in BOOLEAN
  /\ orchQ \in Seq(QueuedEvent)
  /\ jobQ \in [JobName -> Seq(QueuedJob)]
  /\ faults \in Nat /\ crashes \in Nat /\ calls \in Nat
  /\ orch \in [Orchestrators -> OrchRecord]
  /\ req \in [Requests -> RequestRecord]
  /\ worker \in [JobName -> WorkerRecord]
=============================================================================
