------------------------------ MODULE GateProofs ------------------------------
(***************************************************************************)
(* Type correctness of the engine and its gates, for every value of the    *)
(* constants: TypeOK, StageBehindGates, WorkBehindGates, LedgerSpec and    *)
(* WritesAreApproved of PipelineSafety.                                    *)
(*                                                                         *)
(* TypeOK comes first, with one lemma per step of a process, after the     *)
(* lemmas on queues and on Transition().                                   *)
(*                                                                         *)
(* None of the first three gate properties is inductive.  What carries a   *)
(* stage forward is not the stage column but the values in flight: the row *)
(* a request will write, the event it will emit, the events in the queue   *)
(* and in the orchestrators' hands, and the jobs they will enqueue.        *)
(* GateInvariant says of each of them which approvals back it, where a     *)
(* request that has yet to record its approval may count on it.            *)
(***************************************************************************)
EXTENDS PipelineSafety, SequenceTheorems, FiniteSetTheorems, TLAPS

-----------------------------------------------------------------------------
(* Queues. *)

(* Taking an element out of a queue leaves a queue of the same elements. *)
LEMMA WithoutType ==
  ASSUME NEW S, NEW q \in Seq(S), NEW i \in DOMAIN q
  PROVE  Without(q, i) \in Seq(S)
<1>1. i \in 1..Len(q) /\ Len(q) \in Nat
  BY LenProperties
<1>2. SubSeq(q, 1, i - 1) \in Seq(S)
  <2>1. \A k \in 1..(i - 1) : q[k] \in S
    BY <1>1, ElementOfSeq
  <2>2. QED BY <1>1, <2>1, SubSeqProperties
<1>3. SubSeq(q, i + 1, Len(q)) \in Seq(S)
  <2>1. \A k \in (i + 1)..Len(q) : q[k] \in S
    BY <1>1, ElementOfSeq
  <2>2. QED BY <1>1, <2>1, SubSeqProperties
<1>4. QED BY <1>2, <1>3, ConcatProperties DEF Without

(* Every element of a queue has the type of the queue. *)
LEMMA QueueElement ==
  ASSUME NEW S, NEW q \in Seq(S), NEW i \in DOMAIN q
  PROVE  q[i] \in S
BY LenProperties, ElementOfSeq

LEMMA TakeableInDomain ==
  ASSUME NEW q, NEW i \in Takeable(q)
  PROVE  i \in DOMAIN q
BY DEF Takeable

-----------------------------------------------------------------------------
(* The transition function. *)

JobRequest == [name : JobName, patchSet : Nat]

(* What loadTransitionContext returns *)
Context ==
  [stage : GatedStage, total : Nat, applied : Nat, latest : Nat,
   needPolicy : SUBSET Nat, needApproval : SUBSET Nat, approved : SUBSET Nat,
   blocking : BOOLEAN, hasApproval : BOOLEAN]

ResultType == [next : WorkflowState, jobs : SUBSET JobRequest]

LEMMA OrLatestType ==
  ASSUME NEW c \in Context, NEW ids \in SUBSET Nat
  PROVE  OrLatest(ids, c) \subseteq Nat
BY DEF Context, OrLatest

LEMMA JobsType ==
  /\ \A n \in JobName : Job(n) \subseteq JobRequest
  /\ \A n \in JobName, ids \in SUBSET Nat : JobsFor(n, ids) \subseteq JobRequest
BY DEF Job, JobsFor, JobRequest, NoPatchSet

LEMMA ResultIsType ==
  ASSUME NEW s \in WorkflowState, NEW jobs \in SUBSET JobRequest
  PROVE  Result(s, jobs) \in ResultType
BY DEF Result, ResultType

LEMMA StageJobsType ==
  ASSUME NEW c \in Context, NEW s
  PROVE  /\ JobsForStage(s) \subseteq JobRequest
         /\ OnStageApproved(s, c) \subseteq JobRequest
         /\ RerunJobs(s, c) \subseteq JobRequest
<1>1. /\ OrLatest(c.needPolicy, c) \subseteq Nat
      /\ OrLatest(c.needApproval, c) \subseteq Nat
  BY OrLatestType DEF Context
<1>2. /\ \A n \in JobName : Job(n) \subseteq JobRequest
      /\ \A n \in PatchJob : JobsFor(n, OrLatest(c.needPolicy, c)) \subseteq JobRequest
      /\ \A n \in PatchJob : JobsFor(n, OrLatest(c.needApproval, c)) \subseteq JobRequest
  BY <1>1, JobsType DEF JobName
<1>3. JobsForStage(s) \subseteq JobRequest
  BY <1>2 DEF JobsForStage, JobName, AnalysisJob
<1>4. QED
  BY <1>2, <1>3 DEF OnStageApproved, RerunJobs, PatchJob

(* transition() answers with a workflow state and jobs, whatever it is asked. *)
LEMMA TransitionType ==
  ASSUME NEW s \in WorkflowState, NEW ev \in Event, NEW c \in Context
  PROVE  Transition(s, ev, c) \in ResultType
<1> DEFINE Policy == JobsFor("evaluate_policy", OrLatest(c.needPolicy, c))
<1>1. Policy \subseteq JobRequest
  BY OrLatestType, JobsType DEF Context, JobName, PatchJob
<1>2. ev.type \in EventType /\ ev.stage \in EventStage /\ ev.flag \in BOOLEAN
  BY DEF Event
<1>3. \A t \in WorkflowState : Result(t, {}) \in ResultType /\ Result(t, Policy) \in ResultType
  BY <1>1, ResultIsType
<1>4. OnCreated(s, c) \in ResultType
  <2>1. /\ Job("feasibility_analysis") \subseteq JobRequest
        /\ Job("ingest_context") \subseteq JobRequest
    BY JobsType DEF JobName, AnalysisJob
  <2>2. QED BY <2>1, ResultIsType DEF OnCreated, WorkflowState
<1>5. OnIngested(ev, c) \in ResultType
  BY <1>3 DEF OnIngested, WorkflowState
<1>6. OnPatchesProposed(ev, c) \in ResultType
  BY <1>3 DEF OnPatchesProposed, Stay, WorkflowState
<1>7. ASSUME ev.type \in ReviewEvents PROVE OnWaiting(ev, c) \in ResultType
  <2>1. OnApprovalRecorded(c) \in ResultType
    <3>1. /\ JobsFor("apply_patches", c.approved) \subseteq JobRequest
          /\ JobsFor("apply_patches", {c.latest}) \subseteq JobRequest
      BY JobsType DEF JobName, PatchJob, Context
    <3>2. /\ Result("APPLYING_PATCHES", JobsFor("apply_patches", c.approved)) \in ResultType
          /\ Result("APPLYING_PATCHES", JobsFor("apply_patches", {c.latest})) \in ResultType
      BY <3>1, ResultIsType DEF WorkflowState
    <3>3. /\ Result("BLOCKED_POLICY", {}) \in ResultType
          /\ Stay("WAITING_USER_APPROVAL") \in ResultType
      BY <1>3 DEF Stay, WorkflowState
    <3>4. QED BY <3>2, <3>3 DEF OnApprovalRecorded
  <2>2. /\ Result("BLOCKED_POLICY", {}) \in ResultType
        /\ Stay("WAITING_USER_APPROVAL") \in ResultType
        /\ Result("NEEDS_HUMAN", {}) \in ResultType
        /\ Result("FAILED", {}) \in ResultType
    BY <1>3 DEF Stay, WorkflowState
  <2>3. QED BY <1>7, <2>1, <2>2 DEF OnWaiting, ReviewEvents
<1>8. OnApplying(ev, c) \in ResultType
  BY <1>3 DEF OnApplying, Stay, WorkflowState
<1>9. ASSUME ev.type \in PrEvents PROVE OnPrOpen(ev) \in ResultType
  BY <1>3, <1>9 DEF OnPrOpen, PrEvents, Stay, WorkflowState
<1>10. OnVerifyingCi(ev) \in ResultType
  BY <1>3 DEF OnVerifyingCi, WorkflowState
<1>11. OnAnyState(s, ev, c) \in ResultType
  <2>1. Result(s, OnStageApproved(NextStage[ev.stage], c)) \in ResultType
    BY StageJobsType, ResultIsType
  <2>2. Result(s, RerunJobs(ev.stage, c)) \in ResultType
    BY StageJobsType, ResultIsType
  <2>3. /\ Result("BLOCKED_POLICY", {}) \in ResultType
        /\ Result("NEEDS_HUMAN", {}) \in ResultType
        /\ Result("REJECTED", {}) \in ResultType
        /\ Stay(s) \in ResultType
    BY <1>3 DEF Stay, WorkflowState
  <2>4. QED BY <2>1, <2>2, <2>3 DEF OnAnyState
<1>12. Stay(s) \in ResultType
  BY <1>3 DEF Stay
<1>13. QED
  BY <1>4, <1>5, <1>6, <1>7, <1>8, <1>9, <1>10, <1>11, <1>12 DEF Transition

-----------------------------------------------------------------------------
(* The context the orchestrator loads has its type. *)
LEMMA ContextType ==
  ASSUME TypeOK
  PROVE  TransitionContext \in Context
<1>1. Len(patchSets) \in Nat /\ PatchSetIds = 1..Len(patchSets)
  BY LenProperties DEF TypeOK, PatchSetIds
<1>2. \A st : WithStatus(st) \subseteq 1..Len(patchSets)
  BY <1>1 DEF WithStatus
<1>3. Cardinality(WithStatus("applied")) \in Nat
  <2>1. IsFiniteSet(1..Len(patchSets))
    BY <1>1, FS_Interval
  <2>2. IsFiniteSet(WithStatus("applied"))
    BY <1>2, <2>1, FS_Subset
  <2>3. QED BY <2>2, FS_CardinalityType
<1>4. /\ PatchSetsNeedingPolicy \in SUBSET Nat
      /\ PatchSetsNeedingApproval \in SUBSET Nat
      /\ WithStatus("approved") \in SUBSET Nat
  BY <1>1, <1>2 DEF PatchSetsNeedingPolicy, Unevaluated, PatchSetsNeedingApproval
<1>5. (Len(patchSets) > 0 /\ HasBlockRow(Len(patchSets))) \in BOOLEAN
  BY DEF HasBlockRow
<1>6. stage \in GatedStage /\ approved \in BOOLEAN
  BY DEF TypeOK
<1>7. QED BY <1>1, <1>3, <1>4, <1>5, <1>6 DEF TransitionContext, Context
-----------------------------------------------------------------------------
(* The orchestrator. *)

LEMMA NoEventType == NoEvent \in Event /\ IdleOrch \in OrchRecord
<1>1. NoEvent \in Event
  BY DEF NoEvent, Plain, Event, EventType, EventStage
<1>2. IdleOrch \in OrchRecord
  BY <1>1 DEF IdleOrch, OrchRecord, WorkflowState
<1>3. QED BY <1>1, <1>2

(* What an orchestrator step leaves alone keeps its type, so that the types of *)
(* the state column, the queues, the counters and orch are what is left.       *)
LEMMA OrchestratorFrame ==
  ASSUME TypeOK,
         UNCHANGED <<stage, stageStatus, decisions, artifacts, patchSets, approved,
                     req, calls, worker>>,
         state' \in WorkflowState, orchQ' \in Seq(QueuedEvent),
         jobQ' \in [JobName -> Seq(QueuedJob)], faults' \in Nat, crashes' \in Nat,
         orch' \in [Orchestrators -> OrchRecord]
  PROVE  TypeOK'
BY DEF TypeOK

LEMMA TakeEventType ==
  ASSUME TypeOK, NEW o \in Orchestrators, TakeEvent(o), UNCHANGED <<req, calls, worker>>
  PROVE  TypeOK'
<1>1. PICK i \in Takeable(orchQ) :
        /\ orchQ' = Without(orchQ, i)
        /\ orch' = [orch EXCEPT ![o] =
             [IdleOrch EXCEPT !.pc = "decide", !.ev = orchQ[i].ev,
                              !.left = orchQ[i].left, !.stalls = orchQ[i].stalls, !.seen = state]]
  BY DEF TakeEvent
<1>2. orchQ[i] \in QueuedEvent /\ orchQ' \in Seq(QueuedEvent)
  BY <1>1, TakeableInDomain, QueueElement, WithoutType DEF TypeOK
<1>3. [IdleOrch EXCEPT !.pc = "decide", !.ev = orchQ[i].ev,
                       !.left = orchQ[i].left, !.stalls = orchQ[i].stalls, !.seen = state] \in OrchRecord
  BY <1>2, NoEventType DEF OrchRecord, QueuedEvent, TypeOK
<1>4. orch' \in [Orchestrators -> OrchRecord]
  BY <1>1, <1>3 DEF TypeOK
<1>5. QED
  BY <1>2, <1>4, OrchestratorFrame DEF TakeEvent, TypeOK, rowVars, boundVars

LEMMA DecideTransitionType ==
  ASSUME TypeOK, NEW o \in Orchestrators, DecideTransition(o), UNCHANGED <<req, calls, worker>>
  PROVE  TypeOK'
<1> DEFINE res == Transition(orch[o].seen, orch[o].ev, TransitionContext)
<1>1. orch[o] \in OrchRecord
  BY DEF TypeOK
<1>2. orch[o].seen \in WorkflowState /\ orch[o].ev \in Event
  BY <1>1 DEF OrchRecord
<1>3. res \in ResultType
  BY <1>2, ContextType, TransitionType
<1>4. [orch[o] EXCEPT !.pc = "commit", !.next = res.next, !.jobs = res.jobs] \in OrchRecord
  <2> HIDE DEF res
  <2> QED BY <1>1, <1>3 DEF OrchRecord, ResultType, JobRequest
<1>5. orch' \in [Orchestrators -> OrchRecord]
  <2>1. orch' = [orch EXCEPT ![o] =
                  [orch[o] EXCEPT !.pc = "commit", !.next = res.next, !.jobs = res.jobs]]
    BY DEF DecideTransition, TypeOK
  <2> HIDE DEF res
  <2>2. QED BY <1>4, <2>1 DEF TypeOK
<1>6. QED
  BY <1>5, OrchestratorFrame DEF DecideTransition, TypeOK, rowVars, boundVars, queueVars

LEMMA WriteTransitionResultType ==
  ASSUME TypeOK, NEW o \in Orchestrators, WriteTransitionResult(o),
         UNCHANGED <<req, calls, worker>>
  PROVE  TypeOK'
<1>1. orch[o] \in OrchRecord
  BY DEF TypeOK
<1>2. state' \in WorkflowState
  BY <1>1 DEF WriteTransitionResult, OrchRecord, TypeOK
<1>3. [orch[o] EXCEPT !.pc = "enqueue"] \in OrchRecord
  BY <1>1 DEF OrchRecord
<1>4. orch' \in [Orchestrators -> OrchRecord]
  BY <1>3 DEF WriteTransitionResult, TypeOK
<1>5. QED
  BY <1>2, <1>4, OrchestratorFrame DEF WriteTransitionResult, TypeOK, boundVars, queueVars

LEMMA EnqueueJobType ==
  ASSUME TypeOK, AttemptsAssumption, NEW o \in Orchestrators, EnqueueJob(o),
         UNCHANGED <<req, calls, worker>>
  PROVE  TypeOK'
<1> DEFINE entry(j) == [patchSet |-> j.patchSet, left |-> JobAttempts, fresh |-> TRUE, stalls |-> 0]
<1>1. PICK j \in orch[o].jobs :
        /\ jobQ' = [jobQ EXCEPT ![j.name] = Append(@, entry(j))]
        /\ orch' = [orch EXCEPT ![o].jobs = @ \ {j}]
  BY DEF EnqueueJob
<1>2. orch[o] \in OrchRecord /\ j.name \in JobName /\ j.patchSet \in Nat
  BY <1>1 DEF TypeOK, OrchRecord
<1>3. entry(j) \in QueuedJob
  BY <1>2 DEF QueuedJob, AttemptsAssumption
<1>4. jobQ' \in [JobName -> Seq(QueuedJob)]
  <2>1. jobQ[j.name] \in Seq(QueuedJob)
    BY <1>2 DEF TypeOK
  <2> HIDE DEF entry
  <2>2. Append(jobQ[j.name], entry(j)) \in Seq(QueuedJob)
    BY <1>3, <2>1
  <2>3. QED BY <1>1, <1>2, <2>2 DEF TypeOK
<1>5. [orch[o] EXCEPT !.jobs = orch[o].jobs \ {j}] \in OrchRecord
  BY <1>2 DEF OrchRecord
<1>6. orch' \in [Orchestrators -> OrchRecord]
  BY <1>1, <1>5 DEF TypeOK
<1>7. QED
  BY <1>4, <1>6, OrchestratorFrame DEF EnqueueJob, TypeOK, rowVars, boundVars

LEMMA LeaveEventType ==
  ASSUME TypeOK, NEW o \in Orchestrators,
         FinishEvent(o) \/ FailEvent(o) \/ CrashOrchestrator(o),
         UNCHANGED <<req, calls, worker>>
  PROVE  TypeOK'
<1>1. orch[o] \in OrchRecord
  BY DEF TypeOK
<1>2. orch' \in [Orchestrators -> OrchRecord]
  BY NoEventType DEF TypeOK, FinishEvent, FailEvent, CrashOrchestrator
<1>3. CASE FinishEvent(o)
  BY <1>2, <1>3, OrchestratorFrame DEF FinishEvent, TypeOK, rowVars, boundVars, queueVars
<1>4. CASE FailEvent(o)
  <2>1. CASE orch[o].left > 1
    <3>1. [ev |-> orch[o].ev, left |-> orch[o].left - 1, fresh |-> FALSE,
           stalls |-> orch[o].stalls] \in QueuedEvent
      BY <1>1, <2>1 DEF OrchRecord, QueuedEvent
    <3>2. orchQ' \in Seq(QueuedEvent)
      BY <1>4, <2>1, <3>1 DEF FailEvent, TypeOK
    <3>3. QED
      BY <1>2, <1>4, <3>2, OrchestratorFrame DEF FailEvent, TypeOK, rowVars
  <2>2. CASE ~ (orch[o].left > 1)
    BY <1>2, <1>4, <2>2, OrchestratorFrame DEF FailEvent, TypeOK, rowVars
  <2>3. QED BY <2>1, <2>2
<1>5. CASE CrashOrchestrator(o)
  <2>1. [ev |-> orch[o].ev, left |-> orch[o].left, fresh |-> FALSE,
         stalls |-> orch[o].stalls + 1] \in QueuedEvent
    BY <1>1 DEF OrchRecord, QueuedEvent
  <2>2. orchQ' \in Seq(QueuedEvent)
    BY <1>5, <2>1 DEF CrashOrchestrator, TypeOK
  <2>3. QED
    BY <1>2, <1>5, <2>2, OrchestratorFrame DEF CrashOrchestrator, TypeOK, rowVars
<1>6. QED BY <1>3, <1>4, <1>5
-----------------------------------------------------------------------------
(* Requests and webhooks. *)

LEMMA RequestFrame ==
  ASSUME TypeOK, UNCHANGED <<artifacts, jobQ, faults, orch, worker>>,
         state' \in WorkflowState, stage' \in GatedStage, stageStatus' \in StageStatus,
         decisions' \subseteq Decision, patchSets' \in Seq(PatchSet),
         approved' \in BOOLEAN, orchQ' \in Seq(QueuedEvent),
         crashes' \in Nat, calls' \in Nat, req' \in [Requests -> RequestRecord]
  PROVE  TypeOK'
BY DEF TypeOK

LEMMA EventTypes ==
  /\ Plain("E_WORKFLOW_CREATED") \in Event
  /\ Plain("E_APPROVAL_RECORDED") \in Event
  /\ Plain("E_CHANGES_REQUESTED") \in Event
  /\ Plain("E_PATCH_SET_REJECTED") \in Event
  /\ Plain("E_PR_MERGED") \in Event
  /\ Plain("E_PR_CLOSED") \in Event
  /\ \A f \in BOOLEAN : /\ Flagged("E_CI_COMPLETED", "none", f) \in Event
                        /\ Flagged("E_POLICY_EVALUATED", "none", f) \in Event
                        /\ Flagged("E_JOB_COMPLETED", "apply_patches", f) \in Event
                        /\ Flagged("E_JOB_FAILED", "apply_patches", f) \in Event
  /\ \A s \in ValidStages : /\ OfStage("E_STAGE_APPROVED", s) \in Event
                            /\ OfStage("E_STAGE_REJECTED", s) \in Event
                            /\ OfStage("E_STAGE_CHANGES_REQUESTED", s) \in Event
                            /\ OfStage("E_STAGE_RETRY", s) \in Event
  /\ \A n \in JobName : /\ OfStage("E_JOB_COMPLETED", StageName[n]) \in Event
                        /\ OfStage("E_JOB_FAILED", StageName[n]) \in Event
<1>1. \A n \in JobName : StageName[n] \in EventStage
  BY DEF JobName, AnalysisJob, PatchJob, StageName, EventStage, ValidStages
<1>2. ValidStages \subseteq EventStage
  BY DEF EventStage
<1>3. QED BY <1>1, <1>2 DEF Plain, Flagged, OfStage, Event, EventType, EventStage

LEMMA IdleRequestType == IdleRequest \in RequestRecord
BY EventTypes DEF IdleRequest, RequestRecord, RowRecord, NoRow, Row, Keep, ValidStages

(* A handler begins with writes of the right types *)
LEMMA BeginType ==
  ASSUME TypeOK, NEW r \in Requests, NEW request \in RequestRecord, Begin(r, request),
         UNCHANGED <<orch, worker>>
  PROVE  TypeOK'
<1>1. req' \in [Requests -> RequestRecord]
  BY DEF Begin, TypeOK
<1>2. QED
  BY <1>1, RequestFrame DEF Begin, TypeOK, rowVars, queueVars, boundVars

LEMMA NextStageType == \A s \in ValidStages : NextStage[s] \in GatedStage
BY DEF ValidStages, NextStage, GatedStage

LEMMA ClientType ==
  ASSUME TypeOK, NEW r \in Requests, Client(r), UNCHANGED <<orch, worker>>
  PROVE  TypeOK'
<1>1. CASE ApproveStage(r)
  <2> DEFINE request == [IdleRequest EXCEPT
       !.todo = {"decide", "update", "emit"} \cup (IF stage = "policy" THEN {"check"} ELSE {}),
       !.stage = stage, !.decision = "approve",
       !.row = ApprovedRow(stage, state),
       !.ev = OfStage("E_STAGE_APPROVED", stage)]
  <2>1. stage \in ValidStages /\ state \in WorkflowState
    BY <1>1 DEF ApproveStage, TypeOK
  <2>2. ApprovedRow(stage, state) \in RowRecord
    BY <2>1, NextStageType DEF ApprovedRow, Row, RowRecord, WorkflowState, GatedStage, StageStatus
  <2>3. request \in RequestRecord
    BY <2>1, <2>2, IdleRequestType, EventTypes DEF RequestRecord, Steps
  <2>4. Begin(r, request)
    BY <1>1 DEF ApproveStage
  <2> HIDE DEF request
  <2>5. QED BY <2>3, <2>4, BeginType
<1>2. CASE RejectStage(r)
  <2> DEFINE request == [IdleRequest EXCEPT
       !.todo = {"decide", "update", "emit"},
       !.stage = stage, !.decision = "reject",
       !.row = Row("REJECTED", Keep, "rejected"),
       !.ev = OfStage("E_STAGE_REJECTED", stage)]
  <2>1. Row("REJECTED", Keep, "rejected") \in RowRecord
    BY DEF Row, RowRecord, WorkflowState, StageStatus
  <2>2. request \in RequestRecord
    BY <1>2, <2>1, IdleRequestType, EventTypes DEF RequestRecord, Steps, RejectStage
  <2>3. Begin(r, request)
    BY <1>2 DEF RejectStage
  <2> HIDE DEF request
  <2>4. QED BY <2>2, <2>3, BeginType
<1>3. CASE RequestStageChanges(r)
  <2> DEFINE request == [IdleRequest EXCEPT
       !.todo = {"decide", "update", "emit"},
       !.stage = stage, !.decision = "request_changes",
       !.row = Row(Keep, Keep, "needs_changes"),
       !.ev = OfStage("E_STAGE_CHANGES_REQUESTED", stage)]
  <2>1. Row(Keep, Keep, "needs_changes") \in RowRecord
    BY DEF Row, RowRecord, StageStatus
  <2>2. request \in RequestRecord
    BY <1>3, <2>1, IdleRequestType, EventTypes DEF RequestRecord, Steps, RequestStageChanges
  <2>3. Begin(r, request)
    BY <1>3 DEF RequestStageChanges
  <2> HIDE DEF request
  <2>4. QED BY <2>2, <2>3, BeginType
<1>4. CASE RetryStage(r)
  <2> DEFINE request == [IdleRequest EXCEPT
       !.todo = {"update", "emit"},
       !.stage = stage,
       !.row = Row(Keep, Keep, "pending"),
       !.ev = OfStage("E_STAGE_RETRY", stage)]
  <2>1. Row(Keep, Keep, "pending") \in RowRecord
    BY DEF Row, RowRecord, StageStatus
  <2>2. request \in RequestRecord
    BY <1>4, <2>1, IdleRequestType, EventTypes DEF RequestRecord, Steps, RetryStage
  <2>3. Begin(r, request)
    BY <1>4 DEF RetryStage
  <2> HIDE DEF request
  <2>4. QED BY <2>2, <2>3, BeginType
<1>5. CASE RegeneratePatches(r)
  <2> DEFINE request == [IdleRequest EXCEPT
       !.todo = {"mark", "decide", "update", "emit"},
       !.stage = "sandbox", !.decision = "request_changes",
       !.mark = "rejected",
       !.row = Row(Keep, "patches", "pending"),
       !.ev = OfStage("E_STAGE_CHANGES_REQUESTED", "patches")]
  <2>1. Row(Keep, "patches", "pending") \in RowRecord
    BY DEF Row, RowRecord, StageStatus, GatedStage, ValidStages
  <2>2. OfStage("E_STAGE_CHANGES_REQUESTED", "patches") \in Event /\ "sandbox" \in ValidStages
    BY EventTypes DEF ValidStages
  <2>3. request \in RequestRecord
    BY <2>1, <2>2, IdleRequestType DEF RequestRecord, Steps
  <2>4. Begin(r, request)
    BY <1>5 DEF RegeneratePatches
  <2> HIDE DEF request
  <2>5. QED BY <2>3, <2>4, BeginType
<1>6. CASE Approve(r)
  <2> DEFINE request(i) == [IdleRequest EXCEPT
      !.todo = {"approval", "mark", "emit"}, !.mark = "approved", !.marked = {i},
      !.ev = Plain("E_APPROVAL_RECORDED")]
  <2>1. PICK i \in PatchSetIds : Begin(r, request(i))
    BY <1>6 DEF Approve
  <2>2. i \in Nat
    BY <2>1, LenProperties DEF PatchSetIds, TypeOK
  <2>3. request(i) \in RequestRecord
    BY <2>2, IdleRequestType, EventTypes DEF RequestRecord, Steps
  <2> HIDE DEF request
  <2>4. QED BY <2>1, <2>3, BeginType
<1>7. CASE Reject(r)
  <2> DEFINE request(i) == [IdleRequest EXCEPT
      !.todo = {"mark", "emit"}, !.mark = "rejected", !.marked = {i},
      !.ev = Plain("E_PATCH_SET_REJECTED")]
  <2>1. PICK i \in PatchSetIds : Begin(r, request(i))
    BY <1>7 DEF Reject
  <2>2. i \in Nat
    BY <2>1, LenProperties DEF PatchSetIds, TypeOK
  <2>3. request(i) \in RequestRecord
    BY <2>2, IdleRequestType, EventTypes DEF RequestRecord, Steps
  <2> HIDE DEF request
  <2>4. QED BY <2>1, <2>3, BeginType
<1>8. CASE RequestChanges(r)
  <2> DEFINE request == [IdleRequest EXCEPT
       !.todo = {"emit"}, !.ev = Plain("E_CHANGES_REQUESTED")]
  <2>1. request \in RequestRecord
    BY IdleRequestType, EventTypes DEF RequestRecord, Steps
  <2>2. Begin(r, request)
    BY <1>8 DEF RequestChanges
  <2> HIDE DEF request
  <2>3. QED BY <2>1, <2>2, BeginType
<1>9. CASE Cancel(r)
  <2> DEFINE request == [IdleRequest EXCEPT
       !.todo = {"update"}, !.row = Row("CANCELLED", Keep, Keep)]
  <2>1. Row("CANCELLED", Keep, Keep) \in RowRecord
    BY DEF Row, RowRecord, WorkflowState
  <2>2. request \in RequestRecord
    BY <2>1, IdleRequestType DEF RequestRecord, Steps
  <2>3. Begin(r, request)
    BY <1>9 DEF Cancel
  <2> HIDE DEF request
  <2>4. QED BY <2>2, <2>3, BeginType
<1>10. QED
  BY <1>1, <1>2, <1>3, <1>4, <1>5, <1>6, <1>7, <1>8, <1>9 DEF Client

(* What is left of a request after one of its writes has its type. *)
LEMMA DoneType ==
  ASSUME TypeOK, NEW r \in Requests, NEW step, Done(r, step)
  PROVE  req' \in [Requests -> RequestRecord]
<1>1. req[r] \in RequestRecord
  BY DEF TypeOK
<1>2. [req[r] EXCEPT !.todo = req[r].todo \ {step}] \in RequestRecord
  BY <1>1 DEF RequestRecord
<1>3. QED
  BY <1>2, IdleRequestType DEF Done, TypeOK

(* Every API handler leaves the types alone, whichever write it makes. *)
LEMMA HandleRequestType ==
  ASSUME TypeOK, NEW r \in Requests, HandleRequest(r), UNCHANGED <<orch, worker>>
  PROVE  TypeOK'
<1>1. req[r] \in RequestRecord
  BY DEF TypeOK
<1>2. CASE CheckViolations(r)
  <2>1. req' \in [Requests -> RequestRecord]
    BY <1>2, DoneType, IdleRequestType DEF CheckViolations, TypeOK
  <2>2. QED
    BY <1>2, <2>1, RequestFrame DEF CheckViolations, TypeOK, rowVars, queueVars, boundVars
<1>3. CASE CreateApproval(r)
  <2>1. req' \in [Requests -> RequestRecord]
    BY <1>3, DoneType DEF CreateApproval
  <2>2. QED
    BY <1>3, <2>1, RequestFrame DEF CreateApproval, TypeOK, rowVars, queueVars, boundVars
<1>4. CASE MarkPatchSets(r)
  <2> DEFINE sets == IF req[r].marked # {} THEN req[r].marked ELSE WithStatus("proposed")
             row(i) == IF i \in sets THEN [patchSets[i] EXCEPT !.status = req[r].mark]
                                     ELSE patchSets[i]
  <2>1. req' \in [Requests -> RequestRecord]
    BY <1>4, DoneType DEF MarkPatchSets
  <2>2. patchSets' = [i \in PatchSetIds |-> row(i)]
    BY <1>4 DEF MarkPatchSets
  <2>3. PatchSetIds = 1..Len(patchSets) /\ Len(patchSets) \in Nat
    BY LenProperties DEF TypeOK, PatchSetIds
  <2>4. ASSUME NEW i \in PatchSetIds PROVE row(i) \in PatchSet
    <3>1. patchSets[i] \in PatchSet
      BY <2>3, ElementOfSeq DEF TypeOK
    <3>2. [patchSets[i] EXCEPT !.status = req[r].mark] \in PatchSet
      BY <1>1, <3>1 DEF PatchSet, RequestRecord
    <3>3. QED BY <3>1, <3>2
  <2> HIDE DEF row
  <2>5. patchSets' \in [1..Len(patchSets) -> PatchSet]
    BY <2>2, <2>3, <2>4
  <2>6. patchSets' \in Seq(PatchSet)
    BY <2>3, <2>5, SeqDef
  <2>7. QED
    BY <1>4, <2>1, <2>6, RequestFrame DEF MarkPatchSets, TypeOK, rowVars, queueVars, boundVars
<1>5. CASE CreateDecision(r)
  <2>1. req' \in [Requests -> RequestRecord]
    BY <1>5, DoneType DEF CreateDecision
  <2>2. decisions' \subseteq Decision
    BY <1>1, <1>5 DEF CreateDecision, TypeOK, Decision, RequestRecord
  <2>3. QED
    BY <1>5, <2>1, <2>2, RequestFrame DEF CreateDecision, TypeOK, rowVars, queueVars, boundVars
<1>6. CASE UpdateWorkflow(r)
  <2>1. req' \in [Requests -> RequestRecord]
    BY <1>6, DoneType DEF UpdateWorkflow
  <2>2. state' \in WorkflowState /\ stage' \in GatedStage /\ stageStatus' \in StageStatus
    BY <1>1, <1>6 DEF UpdateWorkflow, Written, TypeOK, RequestRecord, RowRecord
  <2>3. QED
    BY <1>6, <2>1, <2>2, RequestFrame DEF UpdateWorkflow, TypeOK, queueVars, boundVars
<1>7. CASE EmitEvent(r)
  <2>1. req' \in [Requests -> RequestRecord]
    BY <1>7, DoneType DEF EmitEvent
  <2>2. [ev |-> req[r].ev, left |-> 1, fresh |-> TRUE, stalls |-> 0] \in QueuedEvent
    BY <1>1 DEF RequestRecord, QueuedEvent
  <2>3. orchQ' \in Seq(QueuedEvent)
    BY <1>7, <2>2 DEF EmitEvent, EmitFromApi, TypeOK
  <2>4. QED
    BY <1>7, <2>1, <2>3, RequestFrame DEF EmitEvent, TypeOK, rowVars, boundVars
<1>8. QED
  BY <1>2, <1>3, <1>4, <1>5, <1>6, <1>7 DEF HandleRequest

LEMMA AbandonRequestType ==
  ASSUME TypeOK, NEW r \in Requests, AbandonRequest(r), UNCHANGED <<orch, worker>>
  PROVE  TypeOK'
<1>1. req' \in [Requests -> RequestRecord]
  BY IdleRequestType DEF AbandonRequest, TypeOK
<1>2. QED
  BY <1>1, RequestFrame DEF AbandonRequest, TypeOK, rowVars, queueVars

(* Replacing a row of patchSets by one of the right type; outside the rows   *)
(* that exist the assignment changes nothing.                                *)
LEMMA PatchSetUpdate ==
  ASSUME TypeOK, NEW i, NEW row, i \in PatchSetIds => row \in PatchSet
  PROVE  [patchSets EXCEPT ![i] = row] \in Seq(PatchSet)
<1>1. patchSets \in [1..Len(patchSets) -> PatchSet] /\ Len(patchSets) \in Nat
  BY LenProperties, SeqDef DEF TypeOK
<1>2. PatchSetIds = 1..Len(patchSets)
  BY <1>1 DEF PatchSetIds
<1>3. [patchSets EXCEPT ![i] = row] \in [1..Len(patchSets) -> PatchSet]
  <2>1. CASE i \in PatchSetIds
    BY <1>1, <1>2, <2>1
  <2>2. CASE i \notin PatchSetIds
    BY <1>1, <1>2, <2>2
  <2>3. QED BY <2>1, <2>2
<1>4. QED BY <1>1, <1>3, SeqDef

LEMMA GitHubType ==
  ASSUME TypeOK, GitHub, UNCHANGED <<orch, worker>>
  PROVE  TypeOK'
<1>1. ASSUME NEW i \in PatchSetIds, NEW merged \in BOOLEAN, PullRequestEvent(i, merged)
      PROVE  TypeOK'
  <2> DEFINE event == Plain(IF merged THEN "E_PR_MERGED" ELSE "E_PR_CLOSED")
             row == [patchSets[i] EXCEPT !.pr = "closed", !.merged = patchSets[i].merged \/ merged]
  <2>1. patchSets[i] \in PatchSet
    BY LenProperties, ElementOfSeq DEF TypeOK, PatchSetIds
  <2>2. row \in PatchSet
    BY <2>1 DEF PatchSet
  <2>3. patchSets' = [patchSets EXCEPT ![i] = row]
    BY <1>1 DEF PullRequestEvent, TypeOK, PatchSetIds
  <2>4. patchSets' \in Seq(PatchSet)
    <3> HIDE DEF row
    <3> QED BY <2>2, <2>3, PatchSetUpdate
  <2>5. event \in Event
    BY EventTypes
  <2>6. orchQ' \in Seq(QueuedEvent)
    <3>1. orchQ' = orchQ \/ orchQ' = Append(orchQ, [ev |-> event, left |-> 1, fresh |-> TRUE, stalls |-> 0])
      BY <1>1 DEF PullRequestEvent, EmitFromApi
    <3> HIDE DEF event
    <3>2. [ev |-> event, left |-> 1, fresh |-> TRUE, stalls |-> 0] \in QueuedEvent
      BY <2>5 DEF QueuedEvent
    <3>3. orchQ \in Seq(QueuedEvent)
      BY DEF TypeOK
    <3>4. QED BY <3>1, <3>2, <3>3, AppendProperties
  <2>7. QED
    BY <1>1, <2>4, <2>6, RequestFrame DEF PullRequestEvent, TypeOK, rowVars, boundVars
<1>2. ASSUME NEW success \in BOOLEAN, CiEvent(success)
      PROVE  TypeOK'
  <2>1. [ev |-> Flagged("E_CI_COMPLETED", "none", success), left |-> 1, fresh |-> TRUE, stalls |-> 0]
          \in QueuedEvent
    BY EventTypes DEF QueuedEvent
  <2>2. orchQ' \in Seq(QueuedEvent)
    BY <1>2, <2>1 DEF CiEvent, EmitFromApi, TypeOK
  <2>3. QED
    BY <1>2, <2>2, RequestFrame DEF CiEvent, TypeOK, rowVars, boundVars
<1>3. QED
  BY <1>1, <1>2 DEF GitHub

-----------------------------------------------------------------------------
(* Processors. *)

LEMMA WorkerFrame ==
  ASSUME TypeOK, UNCHANGED <<state, stage, decisions, approved, orch, req, calls>>,
         stageStatus' \in StageStatus, artifacts' \subseteq ValidStages,
         patchSets' \in Seq(PatchSet), orchQ' \in Seq(QueuedEvent),
         jobQ' \in [JobName -> Seq(QueuedJob)], faults' \in Nat, crashes' \in Nat,
         worker' \in [JobName -> WorkerRecord]
  PROVE  TypeOK'
BY DEF TypeOK

LEMMA IdleWorkerType == IdleWorker \in WorkerRecord
BY DEF IdleWorker, WorkerRecord, ProcessorPc, GatedStage, ValidStages, StageStatus, NoPatchSet

LEMMA GotoType ==
  ASSUME TypeOK, NEW n \in JobName, NEW pc \in ProcessorPc, Goto(n, pc)
  PROVE  worker' \in [JobName -> WorkerRecord]
<1>1. worker[n] \in WorkerRecord
  BY DEF TypeOK
<1>2. [worker[n] EXCEPT !.pc = pc] \in WorkerRecord
  BY <1>1 DEF WorkerRecord
<1>3. QED BY <1>2 DEF Goto, TypeOK

(* A step that writes the stage status only *)
LEMMA StatusStep ==
  ASSUME TypeOK, NEW n \in JobName, NEW pc \in ProcessorPc, Goto(n, pc),
         stageStatus' \in StageStatus,
         UNCHANGED <<state, stage, decisions, artifacts, patchSets, approved,
                     queueVars, boundVars>>,
         UNCHANGED <<orch, req, calls>>
  PROVE  TypeOK'
BY GotoType, WorkerFrame DEF TypeOK, queueVars, boundVars

(* A step that writes the job's patch set only *)
LEMMA PatchSetStep ==
  ASSUME TypeOK, worker' \in [JobName -> WorkerRecord],
         NEW i, NEW row, i \in PatchSetIds => row \in PatchSet, SetPatchSet(i, row),
         UNCHANGED <<rowVars, decisions, artifacts, approved, queueVars, boundVars>>,
         UNCHANGED <<orch, req, calls>>
  PROVE  TypeOK'
<1>1. patchSets' \in Seq(PatchSet)
  BY PatchSetUpdate DEF SetPatchSet
<1>2. QED
  BY <1>1, WorkerFrame DEF TypeOK, rowVars, queueVars, boundVars

LEMMA PatchSetElement ==
  ASSUME TypeOK, NEW i \in PatchSetIds
  PROVE  patchSets[i] \in PatchSet
BY LenProperties, ElementOfSeq DEF TypeOK, PatchSetIds

LEMMA EmitAndReturnType ==
  ASSUME TypeOK, AttemptsAssumption, NEW n \in JobName, NEW ev \in Event,
         EmitAndReturn(n, ev), UNCHANGED <<orch, req, calls>>
  PROVE  TypeOK'
<1>1. [ev |-> ev, left |-> OrchAttempts, fresh |-> TRUE, stalls |-> 0] \in QueuedEvent
  BY DEF QueuedEvent, AttemptsAssumption
<1>2. orchQ' \in Seq(QueuedEvent)
  BY <1>1 DEF EmitAndReturn, EmitFromWorker, TypeOK
<1>3. worker' \in [JobName -> WorkerRecord]
  BY IdleWorkerType DEF EmitAndReturn, TypeOK
<1>4. QED
  BY <1>2, <1>3, WorkerFrame DEF EmitAndReturn, TypeOK, rowVars, boundVars

LEMMA OfferAgainType ==
  ASSUME TypeOK, NEW n \in JobName, NEW left \in Nat, NEW stalls \in Nat, OfferAgain(n, left, stalls)
  PROVE  jobQ' \in [JobName -> Seq(QueuedJob)]
<1> DEFINE entry == [patchSet |-> worker[n].patchSet, left |-> left, fresh |-> FALSE, stalls |-> stalls]
<1>1. entry \in QueuedJob
  BY DEF QueuedJob, TypeOK, WorkerRecord
<1>2. jobQ' = [jobQ EXCEPT ![n] = Append(jobQ[n], entry)]
  BY DEF OfferAgain, TypeOK
<1> HIDE DEF entry
<1>3. jobQ[n] \in Seq(QueuedJob)
  BY DEF TypeOK
<1>4. Append(jobQ[n], entry) \in Seq(QueuedJob)
  BY <1>1, <1>3
<1>5. QED BY <1>2, <1>4 DEF TypeOK

LEMMA ThrowType ==
  ASSUME TypeOK, NEW n \in JobName, Throw(n)
  PROVE  /\ jobQ' \in [JobName -> Seq(QueuedJob)]
         /\ worker' \in [JobName -> WorkerRecord]
<1>1. worker[n].left \in Nat /\ worker[n].stalls \in Nat
  BY DEF TypeOK, WorkerRecord
<1>2. worker' \in [JobName -> WorkerRecord]
  BY IdleWorkerType DEF Throw, TypeOK
<1>3. CASE worker[n].left > 1
  <2>1. worker[n].left - 1 \in Nat
    BY <1>1, <1>3
  <2>2. OfferAgain(n, worker[n].left - 1, worker[n].stalls)
    BY <1>3 DEF Throw
  <2>3. QED BY <1>1, <1>2, <2>1, <2>2, OfferAgainType
<1>4. CASE ~ (worker[n].left > 1)
  BY <1>2, <1>4 DEF Throw, TypeOK
<1>5. QED BY <1>3, <1>4

(* Taking a job, and the ways a processor's run ends other than by itself. *)
LEMMA TakeJobType ==
  ASSUME TypeOK, NEW n \in JobName, TakeJob(n), UNCHANGED <<orch, req, calls>>
  PROVE  TypeOK'
<1>1. PICK i \in Takeable(jobQ[n]) :
        /\ jobQ' = [jobQ EXCEPT ![n] = Without(@, i)]
        /\ worker' = [worker EXCEPT ![n] =
             [IdleWorker EXCEPT !.pc = "start", !.patchSet = jobQ[n][i].patchSet,
                                !.left = jobQ[n][i].left, !.stalls = jobQ[n][i].stalls,
                                !.sawStage = stage, !.sawStatus = stageStatus]]
  BY DEF TakeJob
<1>2. jobQ[n] \in Seq(QueuedJob)
  BY DEF TypeOK
<1>3. jobQ[n][i] \in QueuedJob /\ Without(jobQ[n], i) \in Seq(QueuedJob)
  BY <1>1, <1>2, TakeableInDomain, QueueElement, WithoutType
<1>4. jobQ' \in [JobName -> Seq(QueuedJob)]
  BY <1>1, <1>3 DEF TypeOK
<1>5. [IdleWorker EXCEPT !.pc = "start", !.patchSet = jobQ[n][i].patchSet,
                         !.left = jobQ[n][i].left, !.stalls = jobQ[n][i].stalls,
                         !.sawStage = stage, !.sawStatus = stageStatus] \in WorkerRecord
  BY <1>3, IdleWorkerType DEF WorkerRecord, QueuedJob, ProcessorPc, TypeOK
<1>6. worker' \in [JobName -> WorkerRecord]
  BY <1>1, <1>5 DEF TypeOK
<1>7. QED
  BY <1>4, <1>6, WorkerFrame DEF TakeJob, TypeOK, rowVars, boundVars

LEMMA EmitFailureAndThrowType ==
  ASSUME TypeOK, AttemptsAssumption, NEW n \in JobName, EmitFailureAndThrow(n),
         UNCHANGED <<orch, req, calls>>
  PROVE  TypeOK'
<1>1. /\ jobQ' \in [JobName -> Seq(QueuedJob)]
      /\ worker' \in [JobName -> WorkerRecord]
  BY ThrowType DEF EmitFailureAndThrow
<1>2. [ev |-> OfStage("E_JOB_FAILED", StageName[n]), left |-> OrchAttempts, fresh |-> TRUE, stalls |-> 0]
        \in QueuedEvent
  BY EventTypes DEF QueuedEvent, AttemptsAssumption
<1>3. orchQ' \in Seq(QueuedEvent)
  BY <1>2 DEF EmitFailureAndThrow, EmitFromWorker, TypeOK
<1>4. QED
  BY <1>1, <1>3, WorkerFrame DEF EmitFailureAndThrow, TypeOK, rowVars, boundVars

LEMMA FailBeforeTryType ==
  ASSUME TypeOK, NEW n \in JobName, FailBeforeTry(n), UNCHANGED <<orch, req, calls>>
  PROVE  TypeOK'
<1>1. /\ jobQ' \in [JobName -> Seq(QueuedJob)]
      /\ worker' \in [JobName -> WorkerRecord]
  BY ThrowType DEF FailBeforeTry
<1>2. QED
  BY <1>1, WorkerFrame DEF FailBeforeTry, TypeOK, rowVars

LEMMA CrashWorkerType ==
  ASSUME TypeOK, NEW n \in JobName, CrashWorker(n), UNCHANGED <<orch, req, calls>>
  PROVE  TypeOK'
<1>1. worker[n].left \in Nat /\ worker[n].stalls \in Nat
  BY DEF TypeOK, WorkerRecord
<1>2. jobQ' \in [JobName -> Seq(QueuedJob)]
  <2>1. CASE OfferAgain(n, worker[n].left, worker[n].stalls + 1)
    <3>1. worker[n].stalls + 1 \in Nat BY <1>1
    <3>2. QED BY <1>1, <2>1, <3>1, OfferAgainType
  <2>2. CASE UNCHANGED jobQ BY <2>2 DEF TypeOK
  <2>3. QED BY <2>1, <2>2 DEF CrashWorker
<1>3. worker' \in [JobName -> WorkerRecord]
  BY IdleWorkerType DEF CrashWorker, TypeOK
<1>4. QED
  BY <1>2, <1>3, WorkerFrame DEF CrashWorker, TypeOK, rowVars

LEMMA CallFailsType ==
  ASSUME TypeOK, NEW n \in JobName, NEW pcs, NEW handler \in {"caught", "fail"},
         CallFails(n, pcs, handler), UNCHANGED <<orch, req, calls>>
  PROVE  TypeOK'
<1>1. worker' \in [JobName -> WorkerRecord]
  BY GotoType DEF CallFails, ProcessorPc
<1>2. QED
  BY <1>1, WorkerFrame DEF CallFails, TypeOK, rowVars, queueVars

LEMMA AnalysisType ==
  ASSUME TypeOK, AttemptsAssumption, NEW n \in AnalysisJob, ProcessAnalysis(n),
         UNCHANGED <<orch, req, calls>>
  PROVE  TypeOK'
<1>1. n \in JobName
  BY DEF JobName
<1>2. CASE StartAnalysis(n)
  BY <1>1, <1>2, StatusStep DEF StartAnalysis, ProcessorPc, StageStatus
<1>3. CASE SaveArtifact(n)
  <2>1. StageName[n] \in ValidStages
    BY DEF AnalysisJob, StageName, ValidStages
  <2>2. artifacts' \subseteq ValidStages
    BY <1>3, <2>1 DEF SaveArtifact, TypeOK
  <2>3. worker' \in [JobName -> WorkerRecord]
    BY <1>1, <1>3, GotoType DEF SaveArtifact, ProcessorPc
  <2>4. QED
    BY <1>3, <2>2, <2>3, WorkerFrame DEF SaveArtifact, TypeOK, rowVars, queueVars, boundVars
<1>4. CASE AnalysisReady(n)
  BY <1>1, <1>4, StatusStep DEF AnalysisReady, ProcessorPc, StageStatus
<1>5. CASE AnalysisCompleted(n)
  BY <1>1, <1>5, EmitAndReturnType, EventTypes DEF AnalysisCompleted
<1>6. CASE AnalysisCaught(n)
  BY <1>1, <1>6, StatusStep DEF AnalysisCaught, ProcessorPc, StageStatus
<1>7. CASE EmitFailureAndThrow(n)
  BY <1>1, <1>7, EmitFailureAndThrowType
<1>8. QED
  BY <1>2, <1>3, <1>4, <1>5, <1>6, <1>7 DEF ProcessAnalysis

(* pending becomes processing, or the status stays *)
LEMMA BeginStageType ==
  ASSUME TypeOK, NEW n \in JobName, NEW s, NEW pc \in ProcessorPc, BeginStage(n, s, pc),
         UNCHANGED <<orch, req, calls>>
  PROVE  TypeOK'
<1>1. stageStatus' \in StageStatus
  BY DEF BeginStage, StageStatus, TypeOK
<1>2. QED BY <1>1, StatusStep DEF BeginStage

LEMMA NewPatchSetType == \A v \in Verdict : NewPatchSet(v) \in PatchSet
BY DEF NewPatchSet, PatchSet, Verdict

LEMMA IngestType ==
  ASSUME TypeOK, AttemptsAssumption, PatchAssumption, IngestContext,
         UNCHANGED <<orch, req, calls>>
  PROVE  TypeOK'
<1> DEFINE n == "ingest_context"
<1>1. n \in JobName
  BY DEF JobName
<1>2. CASE StartIngest
  BY <1>1, <1>2, StatusStep DEF StartIngest, ProcessorPc, StageStatus, TypeOK
<1>3. CASE GeneratePatchSet
  <2>1. PICK v \in Verdicts : patchSets' = Append(patchSets, NewPatchSet(v))
    BY <1>3 DEF GeneratePatchSet
  <2>2. NewPatchSet(v) \in PatchSet
    BY NewPatchSetType DEF PatchAssumption
  <2>3. patchSets' \in Seq(PatchSet)
    BY <2>1, <2>2 DEF TypeOK
  <2> DEFINE made == worker[n].made + 1
             pc == IF worker[n].made + 1 = NumRepos THEN "ready" ELSE "run"
             row == [worker[n] EXCEPT !.made = made, !.pc = pc]
  <2>4. worker[n] \in WorkerRecord
    BY <1>1 DEF TypeOK
  <2>5. row \in WorkerRecord
    <3>1. pc \in ProcessorPc
      BY DEF ProcessorPc
    <3>2. made \in Nat
      BY <2>4 DEF WorkerRecord
    <3> HIDE DEF pc, made
    <3>3. QED BY <2>4, <3>1, <3>2 DEF WorkerRecord
  <2>6. worker' = [worker EXCEPT ![n] = row]
    BY <1>1, <1>3 DEF GeneratePatchSet, TypeOK
  <2>7. worker' \in [JobName -> WorkerRecord]
    <3> HIDE DEF row
    <3> QED BY <2>5, <2>6 DEF TypeOK
  <2>8. QED
    BY <1>3, <2>3, <2>7, WorkerFrame DEF GeneratePatchSet, TypeOK, rowVars, queueVars, boundVars
<1>4. CASE IngestReady
  BY <1>1, <1>4, StatusStep DEF IngestReady, ProcessorPc, StageStatus, TypeOK
<1>5. CASE IngestCompleted
  <2>1. StageName[n] = "ingest_context"
    BY DEF StageName
  <2>2. QED BY <1>1, <1>5, <2>1, EmitAndReturnType, EventTypes DEF IngestCompleted
<1>6. CASE IngestCaught
  BY <1>1, <1>6, StatusStep DEF IngestCaught, ProcessorPc, StageStatus, TypeOK
<1>7. CASE EmitFailureAndThrow(n)
  BY <1>1, <1>7, EmitFailureAndThrowType
<1>8. QED
  BY <1>2, <1>3, <1>4, <1>5, <1>6, <1>7 DEF IngestContext

LEMMA EvaluateType ==
  ASSUME TypeOK, AttemptsAssumption, EvaluatePolicy, UNCHANGED <<orch, req, calls>>
  PROVE  TypeOK'
<1> DEFINE n == "evaluate_policy"
           ps == patchSets[Current(n)]
<1>1. n \in JobName
  BY DEF JobName, PatchJob
<1>2. Current(n) \in PatchSetIds => ps \in PatchSet
  BY PatchSetElement
<1>3. CASE StartEvaluation
  BY <1>1, <1>3, BeginStageType DEF StartEvaluation, ProcessorPc
<1>4. CASE ClearViolations
  <2>1. worker' \in [JobName -> WorkerRecord]
    BY <1>1, <1>4, GotoType DEF ClearViolations, ProcessorPc
  <2>2. Current(n) \in PatchSetIds => [ps EXCEPT !.rows = "none"] \in PatchSet
    BY <1>2 DEF PatchSet, Verdict
  <2>3. SetPatchSet(Current(n), [ps EXCEPT !.rows = "none"])
    BY <1>4 DEF ClearViolations
  <2>4. QED
    BY <1>4, <2>1, <2>2, <2>3, PatchSetStep DEF ClearViolations
<1>5. CASE RecordViolations
  <2>1. worker' \in [JobName -> WorkerRecord]
    BY <1>1, <1>5, GotoType DEF RecordViolations, ProcessorPc
  <2>2. Current(n) \in PatchSetIds => [ps EXCEPT !.rows = ps.verdict] \in PatchSet
    BY <1>2 DEF PatchSet
  <2>3. SetPatchSet(Current(n), [ps EXCEPT !.rows = ps.verdict])
    BY <1>5 DEF RecordViolations
  <2>4. QED
    BY <1>5, <2>1, <2>2, <2>3, PatchSetStep DEF RecordViolations
<1>6. CASE RecordEvaluation
  <2>1. worker' \in [JobName -> WorkerRecord]
    BY <1>1, <1>6, GotoType DEF RecordEvaluation, ProcessorPc
  <2>2. Current(n) \in PatchSetIds => [ps EXCEPT !.evaluated = TRUE] \in PatchSet
    BY <1>2 DEF PatchSet
  <2>3. SetPatchSet(Current(n), [ps EXCEPT !.evaluated = TRUE])
    BY <1>6 DEF RecordEvaluation
  <2>4. QED
    BY <1>6, <2>1, <2>2, <2>3, PatchSetStep DEF RecordEvaluation
<1>7. CASE ConcludePolicyStage
  BY <1>1, <1>7, StatusStep DEF ConcludePolicyStage, ProcessorPc, StageStatus, TypeOK
<1>8. CASE EvaluationCompleted
  <2>1. Flagged("E_POLICY_EVALUATED", "none", ps.verdict = "block") \in Event
    BY EventTypes
  <2>2. QED BY <1>1, <1>8, <2>1, EmitAndReturnType DEF EvaluationCompleted
<1>9. CASE EvaluationFailed
  BY <1>1, <1>9, EmitAndReturnType, EventTypes DEF EvaluationFailed
<1>10. QED
  BY <1>3, <1>4, <1>5, <1>6, <1>7, <1>8, <1>9 DEF EvaluatePolicy

LEMMA SandboxType ==
  ASSUME TypeOK, AttemptsAssumption, PatchAssumption, SandboxValidation,
         UNCHANGED <<orch, req, calls>>
  PROVE  TypeOK'
<1> DEFINE n == "sandbox_validation"
           ps == patchSets[Current(n)]
<1>1. n \in JobName
  BY DEF JobName, PatchJob
<1>2. Current(n) \in PatchSetIds => ps \in PatchSet
  BY PatchSetElement
<1>3. CASE StartSandbox
  BY <1>1, <1>3, BeginStageType DEF StartSandbox, ProcessorPc
<1>4. CASE SkipSandbox
  BY <1>1, <1>4, StatusStep DEF SkipSandbox, ProcessorPc, StageStatus
<1>5. CASE SandboxUnset
  BY <1>1, <1>5, ThrowType, WorkerFrame DEF SandboxUnset, TypeOK, rowVars, boundVars
<1>6. CASE ValidatePatches
  <2>1. PICK pc \in {"caught", "push"} : Goto(n, pc)
    BY <1>6 DEF ValidatePatches
  <2>2. pc \in ProcessorPc
    BY DEF ProcessorPc
  <2>3. stageStatus' \in StageStatus
    BY <1>6 DEF ValidatePatches, StageStatus, TypeOK
  <2>4. QED BY <1>1, <1>6, <2>1, <2>2, <2>3, StatusStep DEF ValidatePatches
<1>7. CASE PushSandboxBranch
  <2>1. worker' \in [JobName -> WorkerRecord]
    BY <1>1, <1>7, GotoType DEF PushSandboxBranch, Gate, ProcessorPc
  <2> DEFINE row == [ps EXCEPT !.branch = Gate(TRUE, ps.branch)]
  <2>2. Current(n) \in PatchSetIds => row \in PatchSet
    BY <1>2 DEF PatchSet, Gate
  <2>3. SetPatchSet(Current(n), row)
    BY <1>7 DEF PushSandboxBranch
  <2> HIDE DEF row
  <2>4. QED
    BY <1>7, <2>1, <2>2, <2>3, PatchSetStep DEF PushSandboxBranch
<1>8. CASE RecordSandboxRun
  <2>1. worker' \in [JobName -> WorkerRecord]
    BY <1>1, <1>8, GotoType DEF RecordSandboxRun, ProcessorPc
  <2> DEFINE row(result) == [ps EXCEPT !.sandbox = ps.sandbox \cup {result}]
  <2>2. PICK result \in SandboxRuns \ {"invalid"} : SetPatchSet(Current(n), row(result))
    BY <1>8 DEF RecordSandboxRun
  <2>3. Current(n) \in PatchSetIds => row(result) \in PatchSet
    BY <1>2 DEF PatchSet, PatchAssumption
  <2> HIDE DEF row
  <2>4. QED
    BY <1>8, <2>1, <2>2, <2>3, PatchSetStep DEF RecordSandboxRun
<1>9. CASE ConcludeSandboxStage
  <2>1. stageStatus' \in StageStatus
    BY <1>9 DEF ConcludeSandboxStage, StageStatus, TypeOK
  <2>2. QED BY <1>1, <1>9, <2>1, StatusStep DEF ConcludeSandboxStage, ProcessorPc
<1>10. CASE SandboxCompleted
  <2>1. StageName[n] = "sandbox"
    BY DEF StageName
  <2>2. QED BY <1>1, <1>10, <2>1, EmitAndReturnType, EventTypes DEF SandboxCompleted
<1>11. CASE SandboxCaught
  BY <1>1, <1>11, StatusStep DEF SandboxCaught, ProcessorPc, StageStatus
<1>12. CASE EmitFailureAndThrow(n)
  BY <1>1, <1>12, EmitFailureAndThrowType
<1>13. QED
  BY <1>3, <1>4, <1>5, <1>6, <1>7, <1>8, <1>9, <1>10, <1>11, <1>12 DEF SandboxValidation

(* A write of apply_patches goes on, or is refused and fails the job *)
LEMMA RefusedType ==
  ASSUME TypeOK, NEW n \in JobName, Refused(n)
  PROVE  worker' \in [JobName -> WorkerRecord]
<1> DEFINE row == [worker[n] EXCEPT !.pc = "fail", !.flag = TRUE]
<1>1. row \in WorkerRecord
  BY ZenonT(40) DEF TypeOK, WorkerRecord, ProcessorPc
<1>2. worker' = [worker EXCEPT ![n] = row]
  BY DEF Refused, TypeOK
<1> HIDE DEF row
<1>3. QED BY <1>1, <1>2 DEF TypeOK

LEMMA ApplyType ==
  ASSUME TypeOK, AttemptsAssumption, PatchAssumption, ApplyPatches,
         UNCHANGED <<orch, req, calls>>
  PROVE  TypeOK'
<1> DEFINE n == "apply_patches"
           ps == patchSets[Current(n)]
<1>1. n \in JobName
  BY DEF JobName, PatchJob
<1>2. Current(n) \in PatchSetIds => ps \in PatchSet
  BY PatchSetElement
<1>3. CASE StartApply
  BY <1>1, <1>3, BeginStageType DEF StartApply, ProcessorPc
<1>4. CASE SkipApply \/ MarkApplied
  <2>1. worker' \in [JobName -> WorkerRecord]
    BY <1>1, <1>4, GotoType DEF SkipApply, MarkApplied, ProcessorPc
  <2> DEFINE row == [ps EXCEPT !.status = "applied"]
  <2>2. Current(n) \in PatchSetIds => row \in PatchSet
    BY <1>2 DEF PatchSet
  <2>3. SetPatchSet(Current(n), row)
    BY <1>4 DEF SkipApply, MarkApplied
  <2> HIDE DEF row
  <2>4. QED
    BY <1>4, <2>1, <2>2, <2>3, PatchSetStep DEF SkipApply, MarkApplied
<1>5. CASE SkipApplyReady
  BY <1>1, <1>5, StatusStep DEF SkipApplyReady, ProcessorPc, StageStatus
<1>6. CASE PushPrBranch
  <2>1. worker' \in [JobName -> WorkerRecord]
    BY <1>1, <1>6, GotoType, RefusedType DEF PushPrBranch, Gate, ProcessorPc
  <2> DEFINE row == [ps EXCEPT !.branch = Gate(TRUE, ps.branch)]
  <2>2. Current(n) \in PatchSetIds => row \in PatchSet
    BY <1>2 DEF PatchSet, Gate
  <2>3. SetPatchSet(Current(n), row)
    BY <1>6 DEF PushPrBranch
  <2> HIDE DEF row
  <2>4. QED
    BY <1>6, <2>1, <2>2, <2>3, PatchSetStep DEF PushPrBranch
<1>7. CASE OpenPullRequest
  <2>1. worker' \in [JobName -> WorkerRecord]
    BY <1>1, <1>7, GotoType, RefusedType DEF OpenPullRequest, Gate, ProcessorPc
  <2> DEFINE count == ps.prs + 1
             opened == [ps EXCEPT !.prs = count, !.pr = "open"]
             row == Gate(opened, ps)
  <2>2. Current(n) \in PatchSetIds => row \in PatchSet
    <3>1. Current(n) \in PatchSetIds => opened \in PatchSet
      <4>1. Current(n) \in PatchSetIds => count \in Nat
        BY <1>2 DEF PatchSet
      <4> HIDE DEF count
      <4>2. QED BY <1>2, <4>1 DEF PatchSet
    <3> HIDE DEF opened
    <3>2. row = opened \/ row = ps
      BY DEF Gate
    <3> HIDE DEF row
    <3>3. QED BY <1>2, <3>1, <3>2
  <2>3. SetPatchSet(Current(n), row)
    BY <1>7 DEF OpenPullRequest
  <2> HIDE DEF row
  <2>4. QED
    BY <1>7, <2>1, <2>2, <2>3, PatchSetStep DEF OpenPullRequest
<1>8. CASE RecordPullRequest
  <2>1. worker' \in [JobName -> WorkerRecord]
    BY <1>1, <1>8, GotoType DEF RecordPullRequest, ProcessorPc
  <2> DEFINE row == [ps EXCEPT !.prRows = ps.prRows + 1]
  <2>2. Current(n) \in PatchSetIds => row \in PatchSet
    BY <1>2 DEF PatchSet
  <2>3. SetPatchSet(Current(n), row)
    BY <1>8 DEF RecordPullRequest
  <2> HIDE DEF row
  <2>4. QED
    BY <1>8, <2>1, <2>2, <2>3, PatchSetStep DEF RecordPullRequest
<1>9. CASE ConcludePrStage
  BY <1>1, <1>9, StatusStep DEF ConcludePrStage, ProcessorPc, StageStatus, TypeOK
<1>10. CASE ApplyCompleted
  <2>1. (~ SkipPr) \in BOOLEAN
    BY DEF PatchAssumption
  <2>2. Flagged("E_JOB_COMPLETED", "apply_patches", ~ SkipPr) \in Event
    BY <2>1, EventTypes
  <2>3. QED BY <1>1, <1>10, <2>2, EmitAndReturnType DEF ApplyCompleted
<1>11. CASE ApplyFailed
  <2>1. worker[n].flag \in BOOLEAN
    BY <1>1 DEF TypeOK, WorkerRecord
  <2>2. Flagged("E_JOB_FAILED", "apply_patches", worker[n].flag) \in Event
    BY <2>1, EventTypes
  <2>3. QED BY <1>1, <1>11, <2>2, EmitAndReturnType DEF ApplyFailed
<1>12. QED
  BY <1>3, <1>4, <1>5, <1>6, <1>7, <1>8, <1>9, <1>10, <1>11 DEF ApplyPatches

LEMMA WorkerFaultType ==
  ASSUME TypeOK, WorkerFault, UNCHANGED <<orch, req, calls>>
  PROVE  TypeOK'
<1>1. CASE \E n \in AnalysisJob : AnalysisFault(n)
  BY <1>1, CallFailsType DEF AnalysisFault, JobName
<1>2. CASE IngestFault
  BY <1>2, CallFailsType DEF IngestFault, JobName
<1>3. CASE EvaluationFault
  BY <1>3, CallFailsType DEF EvaluationFault, JobName, PatchJob
<1>4. CASE SandboxFault
  BY <1>4, CallFailsType DEF SandboxFault, JobName, PatchJob
<1>5. CASE ApplyFault
  BY <1>5, CallFailsType DEF ApplyFault, JobName, PatchJob
<1>6. CASE \E n \in JobName : FailBeforeTry(n)
  BY <1>6, FailBeforeTryType
<1>7. QED
  BY <1>1, <1>2, <1>3, <1>4, <1>5, <1>6 DEF WorkerFault

-----------------------------------------------------------------------------
(* The engine. *)

LEMMA BeforeType == \A s : Before(s) \subseteq ValidStages
BY DEF Before, ValidStages

LEMMA StartPatchSetsType ==
  ASSUME PatchAssumption, NEW sets \in StartPatchSets
  PROVE  sets \in Seq(PatchSet)
<1>1. NumRepos \in Nat /\ Verdicts \subseteq Verdict
  BY DEF PatchAssumption
<1>2. CASE sets = <<>>
  BY <1>2
<1>3. CASE sets \in [1..NumRepos -> PatchSet]
  BY <1>1, <1>3, SeqDef
<1>4. ASSUME NEW v \in [1..NumRepos -> Verdicts],
             sets = [i \in 1..NumRepos |-> NewPatchSet(v[i])]
      PROVE  sets \in [1..NumRepos -> PatchSet]
  BY <1>1, <1>4, NewPatchSetType
<1>5. ASSUME NEW v \in [1..NumRepos -> Verdicts \ {"block"}],
             sets = [i \in 1..NumRepos |->
                      [NewPatchSet(v[i]) EXCEPT !.rows = v[i], !.evaluated = TRUE]]
      PROVE  sets \in [1..NumRepos -> PatchSet]
  <2>1. ASSUME NEW w \in Verdict
        PROVE  [NewPatchSet(w) EXCEPT !.rows = w, !.evaluated = TRUE] \in PatchSet
    BY DEF NewPatchSet, PatchSet, Verdict
  <2>2. QED BY <1>1, <1>5, <2>1
<1>6. QED
  BY <1>2, <1>3, <1>4, <1>5 DEF StartPatchSets

LEMMA StartEventType ==
  ASSUME PipelineAssumption
  PROVE  StartEvent \in Event
<1>1. CASE StartStage = "feasibility"
  BY <1>1, EventTypes DEF StartEvent
<1>2. CASE StartStage # "feasibility"
  <2>1. \E s \in ValidStages : NextStage[s] = StartStage
    BY <1>2 DEF PipelineAssumption, ValidStages, NextStage
  <2>2. (CHOOSE s \in ValidStages : NextStage[s] = StartStage) \in ValidStages
    BY <2>1
  <2>3. QED BY <1>2, <2>2, EventTypes DEF StartEvent
<1>3. QED BY <1>1, <1>2

LEMMA InitType ==
  ASSUME Init, AttemptsAssumption, PatchAssumption, PipelineAssumption
  PROVE  TypeOK
<1>1. /\ approved \in BOOLEAN
      /\ faults \in Nat /\ crashes \in Nat /\ calls \in Nat
      /\ orch \in [Orchestrators -> OrchRecord]
      /\ req \in [Requests -> RequestRecord]
      /\ worker \in [JobName -> WorkerRecord]
  BY NoEventType, IdleRequestType, IdleWorkerType DEF Init
<1>2. CASE Origin = "gated"
  <2>1. GatedInit
    BY <1>2 DEF Init
  <2>2. /\ state \in WorkflowState /\ stage \in GatedStage /\ stageStatus \in StageStatus
    BY <2>1 DEF GatedInit, WorkflowState, GatedStage, StageStatus, PipelineAssumption
  <2>3. decisions \subseteq Decision /\ artifacts \subseteq ValidStages
    BY <2>1, BeforeType DEF GatedInit, Decision
  <2>4. patchSets \in Seq(PatchSet)
    BY <2>1, StartPatchSetsType DEF GatedInit
  <2>5. orchQ \in Seq(QueuedEvent)
    <3>1. [ev |-> StartEvent, left |-> 1, fresh |-> TRUE, stalls |-> 0] \in QueuedEvent
      BY StartEventType DEF QueuedEvent
    <3> DEFINE entry == [ev |-> StartEvent, left |-> 1, fresh |-> TRUE, stalls |-> 0]
    <3>2. orchQ = <<entry>>
      BY <2>1 DEF GatedInit
    <3> HIDE DEF entry
    <3>3. QED BY <3>1, <3>2 DEF entry
  <2>6. jobQ \in [JobName -> Seq(QueuedJob)]
    BY <2>1 DEF GatedInit
  <2>7. QED BY <1>1, <2>2, <2>3, <2>4, <2>5, <2>6 DEF TypeOK
<1>3. CASE Origin # "gated"
  <2>1. LegacyInit
    BY <1>3 DEF Init
  <2>2. /\ state \in WorkflowState /\ stage \in GatedStage /\ stageStatus \in StageStatus
    BY <2>1 DEF LegacyInit, WorkflowState, GatedStage, ValidStages, StageStatus
  <2>3. decisions \subseteq Decision /\ artifacts \subseteq ValidStages
    BY <2>1 DEF LegacyInit
  <2>4. patchSets \in Seq(PatchSet) /\ orchQ \in Seq(QueuedEvent)
    BY <2>1 DEF LegacyInit
  <2>5. jobQ \in [JobName -> Seq(QueuedJob)]
    <3> DEFINE entry == [patchSet |-> NoPatchSet, left |-> JobAttempts, fresh |-> TRUE, stalls |-> 0]
    <3>1. entry \in QueuedJob
      BY DEF QueuedJob, NoPatchSet, AttemptsAssumption
    <3>2. jobQ = [n \in JobName |-> IF n = "ingest_context" THEN <<entry>> ELSE <<>>]
      BY <2>1 DEF LegacyInit
    <3> HIDE DEF entry
    <3>3. <<entry>> \in Seq(QueuedJob) /\ <<>> \in Seq(QueuedJob)
      BY <3>1
    <3>4. QED BY <3>2, <3>3
  <2>6. QED BY <1>1, <2>2, <2>3, <2>4, <2>5 DEF TypeOK
<1>4. QED BY <1>2, <1>3

(* No step of the engine breaks the types. *)
LEMMA NextType ==
  ASSUME TypeOK, [Next]_vars, AttemptsAssumption, PatchAssumption
  PROVE  TypeOK'
<1>1. ASSUME NEW o \in Orchestrators, OrchestratorStep(o) PROVE TypeOK'
  BY <1>1, TakeEventType, DecideTransitionType, WriteTransitionResultType,
     EnqueueJobType, LeaveEventType DEF OrchestratorStep, HandleEvent
<1>2. ASSUME NEW r \in Requests, RequestStep(r) PROVE TypeOK'
  BY <1>2, HandleRequestType DEF RequestStep
<1>3. CASE ProcessorStep
  BY <1>3, AnalysisType, IngestType, EvaluateType, SandboxType, ApplyType, TakeJobType
  DEF ProcessorStep, WorkerStep, FeasibilityAnalysis, ArchitectureAnalysis,
      TimelineAnalysis, SummaryAnalysis, AnalysisJob
<1>4. CASE ClientStep
  BY <1>4, ClientType, GitHubType DEF ClientStep
<1>5. CASE FaultStep
  BY <1>5, LeaveEventType, WorkerFaultType DEF FaultStep
<1>6. CASE CrashStep
  BY <1>6, LeaveEventType, CrashWorkerType, AbandonRequestType DEF CrashStep
<1>7. CASE UNCHANGED vars
  BY <1>7 DEF TypeOK, vars
<1>8. QED
  BY <1>1, <1>2, <1>3, <1>4, <1>5, <1>6, <1>7 DEF Next

(* In every reachable state every row, queue entry and handler-local value    *)
(* has its type, whatever the clients, the faults and the crashes.            *)
THEOREM TypeCorrect == Spec => []TypeOK
<1>1. Init => TypeOK
  BY InitType, AttemptsAssumption, PatchAssumption, PipelineAssumption
<1>2. TypeOK /\ [Next]_vars => TypeOK'
  BY NextType, AttemptsAssumption, PatchAssumption
<1>3. QED BY <1>1, <1>2, PTL DEF Spec
-----------------------------------------------------------------------------
(* The gates. *)

StageEvents == {"E_STAGE_APPROVED", "E_STAGE_CHANGES_REQUESTED", "E_STAGE_RETRY"}

(* The stages in have are the approvals event ev speaks for *)
Backed(ev, have) ==
  ev.type \in StageEvents =>
    /\ ev.stage \in ValidStages
    /\ Before(ev.stage) \subseteq have
    /\ ev.type = "E_STAGE_APPROVED" => ev.stage \in have

JobBacked(n, have) == n \in GatedJob => Before(StageName[n]) \subseteq have

BackedEvents == {q \in QueuedEvent : Backed(q.ev, Approvals)}
QueueBacked == orchQ \in Seq(BackedEvents)

OrchestratorsBacked ==
  \A o \in Orchestrators :
    /\ Backed(orch[o].ev, Approvals)
    /\ \A j \in orch[o].jobs : JobBacked(j.name, Approvals)

(* The approval that a request is about to record *)
Pending(q) ==
  IF "decide" \in q.todo /\ q.decision = "approve" THEN {q.stage} ELSE {}

RequestBacked(q, have) ==
  /\ Before(q.stage) \subseteq have
  /\ "update" \in q.todo /\ q.row.stage # Keep => Before(q.row.stage) \subseteq have \cup Pending(q)
  /\ "emit" \in q.todo => Backed(q.ev, have \cup Pending(q))

RequestsBacked == \A r \in Requests : RequestBacked(req[r], Approvals)

GateInvariant ==
  /\ StageBehindGates
  /\ WorkBehindGates
  /\ QueueBacked
  /\ OrchestratorsBacked
  /\ RequestsBacked

-----------------------------------------------------------------------------
(* Approvals only grow, and what is backed stays backed. *)

LEMMA ApprovalsGrow ==
  ASSUME decisions \subseteq decisions'
  PROVE  Approvals \subseteq Approvals'
BY DEF Approvals

LEMMA BackedGrows ==
  ASSUME NEW have, NEW more, have \subseteq more
  PROVE  /\ \A ev : Backed(ev, have) => Backed(ev, more)
         /\ \A n : JobBacked(n, have) => JobBacked(n, more)
         /\ \A q : RequestBacked(q, have) => RequestBacked(q, more)
<1>1. \A ev : Backed(ev, have) => Backed(ev, more)
  BY DEF Backed
<1>2. \A n : JobBacked(n, have) => JobBacked(n, more)
  BY DEF JobBacked
<1>3. ASSUME NEW q, RequestBacked(q, have)
      PROVE  RequestBacked(q, more)
  <2>1. have \cup Pending(q) \subseteq more \cup Pending(q)
    OBVIOUS
  <2>2. Backed(q.ev, have \cup Pending(q)) => Backed(q.ev, more \cup Pending(q))
    BY <2>1 DEF Backed
  <2>3. QED BY <1>3, <2>1, <2>2 DEF RequestBacked
<1>4. QED BY <1>1, <1>2, <1>3

(* The stage before NextStage[s] is s. *)
LEMMA BeforeNext ==
  \A s \in ValidStages : Before(NextStage[s]) = Before(s) \cup {s}
BY DEF Before, NextStage, ValidStages

(* What each gated job needs is what the event that asks for it brings. *)
LEMMA ReRunBacked ==
  ASSUME NEW ev, NEW c, NEW have, Backed(ev, have), ev.type \in StageEvents
  PROVE  \A j \in RerunJobs(ev.stage, c) : JobBacked(j.name, have)
<1>1. ev.stage \in ValidStages /\ Before(ev.stage) \subseteq have
  BY DEF Backed
<1>2. \A j \in RerunJobs(ev.stage, c) :
        j.name \in GatedJob => StageName[j.name] = ev.stage
  BY <1>1 DEF RerunJobs, JobsForStage, Job, JobsFor, GatedJob, AnalysisJob, StageName,
              ValidStages
<1>3. QED BY <1>1, <1>2 DEF JobBacked

LEMMA ApprovedBacked ==
  ASSUME NEW ev, NEW c, NEW have, Backed(ev, have), ev.type = "E_STAGE_APPROVED"
  PROVE  \A j \in OnStageApproved(NextStage[ev.stage], c) : JobBacked(j.name, have)
<1>1. /\ ev.stage \in ValidStages /\ Before(ev.stage) \subseteq have /\ ev.stage \in have
  BY DEF Backed, StageEvents
<1>2. Before(NextStage[ev.stage]) \subseteq have
  BY <1>1, BeforeNext
<1>3. \A s \in GatedStage : \A j \in OnStageApproved(s, c) :
        j.name \in GatedJob => StageName[j.name] = s
  BY DEF OnStageApproved, JobsForStage, Job, JobsFor, GatedJob, AnalysisJob, StageName,
         GatedStage, ValidStages
<1>4. QED BY <1>1, <1>2, <1>3, NextStageType DEF JobBacked

(* transition() enqueues a gated job only for an event that is backed. *)
LEMMA TransitionBacked ==
  ASSUME NEW s, NEW ev, NEW c, NEW have, Backed(ev, have)
  PROVE  \A j \in Transition(s, ev, c).jobs : JobBacked(j.name, have)
<1> DEFINE Ok(res) == \A j \in res.jobs : JobBacked(j.name, have)
<1>1. \A t : Ok(Result(t, {})) /\ Ok(Stay(t))
  BY DEF Result, Stay
<1>2. \A t, ids : Ok(Result(t, JobsFor("evaluate_policy", ids)))
  BY DEF Result, JobsFor, JobBacked, GatedJob, AnalysisJob
<1>3. \A t, ids : Ok(Result(t, JobsFor("apply_patches", ids)))
  BY DEF Result, JobsFor, JobBacked, GatedJob, AnalysisJob
<1>4. \A t : Ok(Result(t, Job("feasibility_analysis"))) /\ Ok(Result(t, Job("ingest_context")))
  BY DEF Result, Job, JobBacked, GatedJob, AnalysisJob, StageName, Before
<1>5. ev.type = "E_STAGE_APPROVED" =>
        Ok(Result(s, OnStageApproved(NextStage[ev.stage], c)))
  BY ApprovedBacked DEF Result
<1>6. ev.type \in {"E_STAGE_CHANGES_REQUESTED", "E_STAGE_RETRY"} =>
        Ok(Result(s, RerunJobs(ev.stage, c)))
  BY ReRunBacked DEF Result, StageEvents
<1> HIDE DEF Ok
<1>7. Ok(OnCreated(s, c))
  BY <1>4 DEF OnCreated
<1>8. Ok(OnIngested(ev, c)) /\ Ok(OnPatchesProposed(ev, c))
  BY <1>1, <1>2 DEF OnIngested, OnPatchesProposed
<1>9. ev.type \in ReviewEvents => Ok(OnWaiting(ev, c))
  BY <1>1, <1>3 DEF OnWaiting, OnApprovalRecorded, ReviewEvents
<1>10. Ok(OnApplying(ev, c)) /\ Ok(OnVerifyingCi(ev))
  BY <1>1 DEF OnApplying, OnVerifyingCi
<1>11. ev.type \in PrEvents => Ok(OnPrOpen(ev))
  BY <1>1 DEF OnPrOpen, PrEvents
<1>12. Ok(OnAnyState(s, ev, c))
  BY <1>1, <1>5, <1>6 DEF OnAnyState
<1>13. Ok(Transition(s, ev, c))
  BY <1>1, <1>7, <1>8, <1>9, <1>10, <1>11, <1>12 DEF Transition
<1>14. QED BY <1>13 DEF Ok

-----------------------------------------------------------------------------
(* What each process holds stays backed when approvals are only added. *)

LEMMA QueueStays ==
  ASSUME QueueBacked, Approvals \subseteq Approvals'
  PROVE  /\ orchQ \in Seq(BackedEvents')
         /\ BackedEvents \subseteq BackedEvents'
<1>1. BackedEvents \subseteq BackedEvents'
  BY BackedGrows DEF BackedEvents
<1>2. orchQ \in [1..Len(orchQ) -> BackedEvents] /\ Len(orchQ) \in Nat
  BY LenProperties, SeqDef DEF QueueBacked
<1>3. orchQ \in [1..Len(orchQ) -> BackedEvents']
  BY <1>1, <1>2
<1>4. QED BY <1>1, <1>2, <1>3, SeqDef

(* What an orchestrator that lets go of its event leaves in the queue. *)
LEMMA EventOfferedAgain ==
  ASSUME TypeOK, NEW o \in Orchestrators,
         FinishEvent(o) \/ FailEvent(o) \/ CrashOrchestrator(o)
  PROVE  \/ orchQ' = orchQ
         \/ \E left, stalls \in Nat :
              orchQ' = Append(orchQ, [ev |-> orch[o].ev, left |-> left, fresh |-> FALSE, stalls |-> stalls])
<1>1. orch[o].left \in Nat /\ orch[o].stalls \in Nat
  BY DEF TypeOK, OrchRecord
<1>2. CASE orchQ' = orchQ BY <1>2
<1>3. CASE FailEvent(o) /\ orch[o].left > 1
  <2>1. orch[o].left - 1 \in Nat BY <1>1, <1>3
  <2>2. orchQ' = Append(orchQ, [ev |-> orch[o].ev, left |-> orch[o].left - 1, fresh |-> FALSE,
                                stalls |-> orch[o].stalls])
    BY <1>3 DEF FailEvent
  <2>3. QED BY <1>1, <2>1, <2>2
<1>4. CASE CrashOrchestrator(o) /\ orch[o].stalls < MaxStalledCount
  <2>1. orch[o].stalls + 1 \in Nat BY <1>1
  <2>2. orchQ' = Append(orchQ, [ev |-> orch[o].ev, left |-> orch[o].left, fresh |-> FALSE,
                                stalls |-> orch[o].stalls + 1])
    BY <1>4 DEF CrashOrchestrator
  <2>3. QED BY <1>1, <2>1, <2>2
<1>5. QED BY <1>2, <1>3, <1>4 DEF FinishEvent, FailEvent, CrashOrchestrator, queueVars

(* Adding an event that is backed, or of a kind that needs no backing. *)
LEMMA QueueGrows ==
  ASSUME QueueBacked, Approvals \subseteq Approvals',
         NEW ev \in Event, NEW left \in Nat, NEW stalls \in Nat, NEW fresh \in BOOLEAN,
         Backed(ev, Approvals'),
         orchQ' = Append(orchQ, [ev |-> ev, left |-> left, fresh |-> fresh, stalls |-> stalls])
  PROVE  QueueBacked'
<1> DEFINE entry == [ev |-> ev, left |-> left, fresh |-> fresh, stalls |-> stalls]
<1>1. entry \in BackedEvents'
  BY DEF BackedEvents, QueuedEvent
<1>2. orchQ' = Append(orchQ, entry)
  OBVIOUS
<1>3. orchQ \in Seq(BackedEvents')
  BY QueueStays
<1> HIDE DEF entry
<1>4. orchQ' \in Seq(BackedEvents')
  BY <1>1, <1>2, <1>3, AppendProperties
<1>5. QED BY <1>4 DEF QueueBacked

LEMMA OrchestratorsStay ==
  ASSUME OrchestratorsBacked, Approvals \subseteq Approvals', UNCHANGED orch
  PROVE  OrchestratorsBacked'
BY BackedGrows DEF OrchestratorsBacked

LEMMA RequestsStay ==
  ASSUME RequestsBacked, Approvals \subseteq Approvals', UNCHANGED req
  PROVE  RequestsBacked'
BY BackedGrows DEF RequestsBacked

LEMMA StageStays ==
  ASSUME StageBehindGates, Approvals \subseteq Approvals', UNCHANGED stage
  PROVE  StageBehindGates'
BY DEF StageBehindGates

(* A gated job is at work or waiting *)
Busy(n) == ~ At(n, "idle") \/ jobQ[n] # <<>>

LEMMA WorkStays ==
  ASSUME WorkBehindGates, Approvals \subseteq Approvals',
         \A n \in GatedJob : Busy(n)' => Busy(n) \/ JobBacked(n, Approvals')
  PROVE  WorkBehindGates'
BY DEF WorkBehindGates, Busy, JobBacked

LEMMA WorkUnchanged ==
  ASSUME WorkBehindGates, Approvals \subseteq Approvals', UNCHANGED <<jobQ, worker>>
  PROVE  WorkBehindGates'
BY WorkStays DEF Busy, At

-----------------------------------------------------------------------------
(* Processors: whatever a processor of job n does, it had the job, it touches *)
(* neither the stage nor the decisions, and the events it emits need no      *)
(* backing.                                                                  *)
ProcessorEvents == {"E_JOB_COMPLETED", "E_JOB_FAILED", "E_POLICY_EVALUATED"}

ProcessorEffect(n) ==
  /\ Busy(n)
  /\ \A m \in JobName \ {n} : worker'[m] = worker[m] /\ jobQ'[m] = jobQ[m]
  /\ \/ orchQ' = orchQ
     \/ \E ev \in Event : /\ ev.type \in ProcessorEvents
                          /\ orchQ' = Append(orchQ, [ev |-> ev, left |-> OrchAttempts,
                                                     fresh |-> TRUE, stalls |-> 0])
  /\ UNCHANGED <<state, stage, decisions, approved>>

LEMMA EmitEffect ==
  ASSUME TypeOK, NEW n \in JobName, ~ At(n, "idle"), NEW ev \in Event,
         ev.type \in ProcessorEvents, EmitAndReturn(n, ev)
  PROVE  ProcessorEffect(n)
BY DEF TypeOK, EmitAndReturn, EmitFromWorker, ProcessorEffect, Busy, rowVars

(* A step of the processor of n that leaves the queues alone *)
LEMMA LocalEffect ==
  ASSUME TypeOK, NEW n \in JobName, ~ At(n, "idle"),
         \A m \in JobName \ {n} : worker'[m] = worker[m],
         UNCHANGED <<state, stage, decisions, approved, queueVars>>
  PROVE  ProcessorEffect(n)
BY DEF TypeOK, ProcessorEffect, Busy, queueVars

LEMMA GotoEffect ==
  ASSUME TypeOK, NEW n \in JobName, NEW pc, Goto(n, pc)
  PROVE  \A m \in JobName \ {n} : worker'[m] = worker[m]
BY DEF TypeOK, Goto

LEMMA ThrowEffect ==
  ASSUME TypeOK, NEW n \in JobName, Throw(n)
  PROVE  \A m \in JobName \ {n} : worker'[m] = worker[m] /\ jobQ'[m] = jobQ[m]
BY DEF TypeOK, Throw, OfferAgain

LEMMA EventKinds ==
  /\ \A t, s : OfStage(t, s).type = t
  /\ \A t, s, f : Flagged(t, s, f).type = t
  /\ \A t : Plain(t).type = t
BY DEF OfStage, Flagged, Plain

LEMMA EmitFailureEffect ==
  ASSUME TypeOK, NEW n \in JobName, EmitFailureAndThrow(n)
  PROVE  ProcessorEffect(n)
<1>1. OfStage("E_JOB_FAILED", StageName[n]) \in Event
  BY EventTypes
<1>2. OfStage("E_JOB_FAILED", StageName[n]).type \in ProcessorEvents
  BY EventKinds DEF ProcessorEvents
<1>3. ~ At(n, "idle")
  BY DEF EmitFailureAndThrow, At
<1>4. QED
  BY <1>1, <1>2, <1>3, ThrowEffect
  DEF EmitFailureAndThrow, EmitFromWorker, ProcessorEffect, Busy, rowVars

LEMMA AnalysisEffect ==
  ASSUME TypeOK, NEW n \in AnalysisJob, ProcessAnalysis(n)
  PROVE  ProcessorEffect(n)
<1>1. n \in JobName
  BY DEF JobName
<1>2. CASE StartAnalysis(n) \/ SaveArtifact(n) \/ AnalysisReady(n) \/ AnalysisCaught(n)
  BY <1>1, <1>2, LocalEffect, GotoEffect
  DEF StartAnalysis, SaveArtifact, AnalysisReady, AnalysisCaught, At, rowVars
<1>3. CASE AnalysisCompleted(n)
  <2>1. OfStage("E_JOB_COMPLETED", StageName[n]) \in Event
    BY <1>1, EventTypes
  <2>2. OfStage("E_JOB_COMPLETED", StageName[n]).type \in ProcessorEvents
    BY EventKinds DEF ProcessorEvents
  <2>3. ~ At(n, "idle")
    BY <1>3 DEF AnalysisCompleted, At
  <2>4. QED BY <1>1, <1>3, <2>1, <2>2, <2>3, EmitEffect DEF AnalysisCompleted
<1>4. CASE EmitFailureAndThrow(n)
  BY <1>1, <1>4, EmitFailureEffect
<1>5. QED BY <1>2, <1>3, <1>4 DEF ProcessAnalysis

LEMMA IngestEffect ==
  ASSUME TypeOK, IngestContext
  PROVE  ProcessorEffect("ingest_context")
<1> DEFINE n == "ingest_context"
<1>1. n \in JobName
  BY DEF JobName
<1>2. CASE StartIngest \/ IngestReady \/ IngestCaught
  BY <1>1, <1>2, LocalEffect, GotoEffect DEF StartIngest, IngestReady, IngestCaught, At
<1>3. CASE GeneratePatchSet
  <2>1. \A m \in JobName \ {n} : worker'[m] = worker[m]
    BY <1>3 DEF GeneratePatchSet, TypeOK
  <2>2. QED BY <1>1, <1>3, <2>1, LocalEffect DEF GeneratePatchSet, At, rowVars
<1>4. CASE IngestCompleted
  <2>1. StageName[n] = "ingest_context"
    BY DEF StageName
  <2>2. OfStage("E_JOB_COMPLETED", n) \in Event
    BY <1>1, <2>1, EventTypes
  <2>3. OfStage("E_JOB_COMPLETED", n).type \in ProcessorEvents
    BY EventKinds DEF ProcessorEvents
  <2>4. ~ At(n, "idle")
    BY <1>4 DEF IngestCompleted, At
  <2>5. QED BY <1>1, <1>4, <2>2, <2>3, <2>4, EmitEffect DEF IngestCompleted
<1>5. CASE EmitFailureAndThrow(n)
  BY <1>1, <1>5, EmitFailureEffect
<1>6. QED BY <1>2, <1>3, <1>4, <1>5 DEF IngestContext

LEMMA EvaluateEffect ==
  ASSUME TypeOK, EvaluatePolicy
  PROVE  ProcessorEffect("evaluate_policy")
<1> DEFINE n == "evaluate_policy"
<1>1. n \in JobName
  BY DEF JobName, PatchJob
<1>2. CASE StartEvaluation \/ ClearViolations \/ RecordViolations \/ RecordEvaluation
           \/ ConcludePolicyStage
  BY <1>1, <1>2, LocalEffect, GotoEffect
  DEF StartEvaluation, BeginStage, ClearViolations, RecordViolations, RecordEvaluation,
      ConcludePolicyStage, At, rowVars
<1>3. CASE EvaluationCompleted \/ EvaluationFailed
  <2>1. \A f \in BOOLEAN : /\ Flagged("E_POLICY_EVALUATED", "none", f) \in Event
                           /\ Flagged("E_POLICY_EVALUATED", "none", f).type \in ProcessorEvents
    BY EventTypes, EventKinds DEF ProcessorEvents
  <2>2. ~ At(n, "idle")
    BY <1>3 DEF EvaluationCompleted, EvaluationFailed, At
  <2>3. \E f \in BOOLEAN : EmitAndReturn(n, Flagged("E_POLICY_EVALUATED", "none", f))
    BY <1>3 DEF EvaluationCompleted, EvaluationFailed
  <2>4. QED BY <1>1, <2>1, <2>2, <2>3, EmitEffect
<1>4. QED BY <1>2, <1>3 DEF EvaluatePolicy

LEMMA SandboxEffect ==
  ASSUME TypeOK, SandboxValidation
  PROVE  ProcessorEffect("sandbox_validation")
<1> DEFINE n == "sandbox_validation"
<1>1. n \in JobName
  BY DEF JobName, PatchJob
<1>2. CASE StartSandbox \/ SkipSandbox \/ ValidatePatches \/ PushSandboxBranch
           \/ RecordSandboxRun \/ ConcludeSandboxStage \/ SandboxCaught
  <2>1. ~ At(n, "idle") /\ UNCHANGED <<state, stage, decisions, approved, queueVars>>
    BY <1>2 DEF StartSandbox, BeginStage, SkipSandbox, ValidatePatches, PushSandboxBranch,
                RecordSandboxRun, ConcludeSandboxStage, SandboxCaught, At, rowVars
  <2>2. \E pc \in ProcessorPc : Goto(n, pc)
    BY <1>2 DEF StartSandbox, BeginStage, SkipSandbox, ValidatePatches, PushSandboxBranch,
                RecordSandboxRun, ConcludeSandboxStage, SandboxCaught, Gate, ProcessorPc
  <2>3. QED BY <1>1, <2>1, <2>2, LocalEffect, GotoEffect
<1>3. CASE SandboxUnset
  BY <1>1, <1>3, ThrowEffect DEF SandboxUnset, ProcessorEffect, Busy, At, rowVars
<1>4. CASE SandboxCompleted
  <2>1. StageName[n] = "sandbox"
    BY DEF StageName
  <2>2. OfStage("E_JOB_COMPLETED", "sandbox") \in Event
    BY <1>1, <2>1, EventTypes
  <2>3. OfStage("E_JOB_COMPLETED", "sandbox").type \in ProcessorEvents
    BY EventKinds DEF ProcessorEvents
  <2>4. ~ At(n, "idle")
    BY <1>4 DEF SandboxCompleted, At
  <2>5. QED BY <1>1, <1>4, <2>2, <2>3, <2>4, EmitEffect DEF SandboxCompleted
<1>5. CASE EmitFailureAndThrow(n)
  BY <1>1, <1>5, EmitFailureEffect
<1>6. QED BY <1>2, <1>3, <1>4, <1>5 DEF SandboxValidation

LEMMA ApplyEffect ==
  ASSUME TypeOK, PatchAssumption, ApplyPatches
  PROVE  ProcessorEffect("apply_patches")
<1> DEFINE n == "apply_patches"
<1>1. n \in JobName
  BY DEF JobName, PatchJob
<1>2. CASE StartApply \/ SkipApply \/ SkipApplyReady \/ PushPrBranch \/ OpenPullRequest
           \/ RecordPullRequest \/ MarkApplied \/ ConcludePrStage
  <2>1. ~ At(n, "idle") /\ UNCHANGED <<state, stage, decisions, approved, queueVars>>
    BY <1>2 DEF StartApply, BeginStage, SkipApply, SkipApplyReady, PushPrBranch,
                OpenPullRequest, RecordPullRequest, MarkApplied, ConcludePrStage, At, rowVars
  <2>2. Refused(n) \/ \E pc \in ProcessorPc : Goto(n, pc)
    BY <1>2 DEF StartApply, BeginStage, SkipApply, SkipApplyReady, PushPrBranch,
                OpenPullRequest, RecordPullRequest, MarkApplied, ConcludePrStage, Gate,
                ProcessorPc
  <2>3. \A m \in JobName \ {n} : worker'[m] = worker[m]
    BY <1>1, <2>2, GotoEffect DEF Refused, TypeOK
  <2>4. QED BY <1>1, <2>1, <2>3, LocalEffect
<1>3. CASE ApplyCompleted \/ ApplyFailed
  <2>1. (~ SkipPr) \in BOOLEAN /\ worker[n].flag \in BOOLEAN
    BY <1>1 DEF PatchAssumption, TypeOK, WorkerRecord
  <2>2. \A f \in BOOLEAN, t \in {"E_JOB_COMPLETED", "E_JOB_FAILED"} :
          /\ Flagged(t, "apply_patches", f) \in Event
          /\ Flagged(t, "apply_patches", f).type \in ProcessorEvents
    BY EventTypes, EventKinds DEF ProcessorEvents
  <2>3. ~ At(n, "idle")
    BY <1>3 DEF ApplyCompleted, ApplyFailed, At
  <2>4. \E f \in BOOLEAN, t \in {"E_JOB_COMPLETED", "E_JOB_FAILED"} :
          EmitAndReturn(n, Flagged(t, "apply_patches", f))
    BY <1>3, <2>1 DEF ApplyCompleted, ApplyFailed
  <2>5. QED BY <1>1, <2>2, <2>3, <2>4, EmitEffect
<1>4. QED BY <1>2, <1>3 DEF ApplyPatches

LEMMA TakeJobEffect ==
  ASSUME TypeOK, NEW n \in JobName, TakeJob(n)
  PROVE  ProcessorEffect(n)
<1>1. PICK i \in Takeable(jobQ[n]) : jobQ' = [jobQ EXCEPT ![n] = Without(@, i)]
  BY DEF TakeJob
<1>2. jobQ[n] # <<>>
  BY <1>1 DEF Takeable
<1>3. \A m \in JobName \ {n} : worker'[m] = worker[m] /\ jobQ'[m] = jobQ[m]
  BY DEF TakeJob, TypeOK
<1>4. QED BY <1>2, <1>3 DEF TakeJob, ProcessorEffect, Busy, rowVars

LEMMA WorkerFaultEffect ==
  ASSUME TypeOK, WorkerFault
  PROVE  \E n \in JobName : ProcessorEffect(n)
<1>1. ASSUME NEW n \in JobName, NEW pcs, NEW handler, CallFails(n, pcs, handler),
             "idle" \notin pcs
      PROVE  ProcessorEffect(n)
  BY <1>1, LocalEffect, GotoEffect DEF CallFails, At, rowVars
<1>2. CASE \E n \in AnalysisJob : AnalysisFault(n)
  BY <1>1, <1>2 DEF AnalysisFault, JobName
<1>3. CASE IngestFault \/ EvaluationFault \/ SandboxFault \/ ApplyFault
  BY <1>1, <1>3 DEF IngestFault, EvaluationFault, SandboxFault, ApplyFault, JobName, PatchJob
<1>4. CASE \E n \in JobName : FailBeforeTry(n)
  BY <1>4, ThrowEffect DEF FailBeforeTry, ProcessorEffect, Busy, At, rowVars
<1>5. QED BY <1>2, <1>3, <1>4 DEF WorkerFault

LEMMA CrashWorkerEffect ==
  ASSUME TypeOK, NEW n \in JobName, CrashWorker(n)
  PROVE  ProcessorEffect(n)
BY DEF CrashWorker, OfferAgain, ProcessorEffect, Busy, TypeOK, rowVars

(* Every step of a processor, failures and crashes included *)
LEMMA ProcessorSteps ==
  ASSUME TypeOK, PatchAssumption,
         WorkerStep \/ WorkerFault \/ (\E n \in JobName : CrashWorker(n))
  PROVE  \E n \in JobName : ProcessorEffect(n)
<1>1. CASE WorkerStep
  BY <1>1, AnalysisEffect, IngestEffect, EvaluateEffect, SandboxEffect, ApplyEffect,
     TakeJobEffect
  DEF WorkerStep, FeasibilityAnalysis, ArchitectureAnalysis, TimelineAnalysis,
      SummaryAnalysis, JobName, AnalysisJob, PatchJob
<1>2. CASE WorkerFault
  BY <1>2, WorkerFaultEffect
<1>3. CASE \E n \in JobName : CrashWorker(n)
  BY <1>3, CrashWorkerEffect
<1>4. QED BY <1>1, <1>2, <1>3

LEMMA ProcessorGates ==
  ASSUME TypeOK, AttemptsAssumption, GateInvariant, UNCHANGED <<orch, req>>,
         NEW n \in JobName, ProcessorEffect(n)
  PROVE  GateInvariant'
<1>1. Approvals \subseteq Approvals' /\ stage' = stage
  BY ApprovalsGrow DEF ProcessorEffect
<1>2. WorkBehindGates'
  <2>1. \A m \in GatedJob : Busy(m)' => Busy(m)
    BY DEF ProcessorEffect, Busy, At, GatedJob, JobName, PatchJob
  <2>2. QED BY <1>1, <2>1, WorkStays DEF GateInvariant
<1>3. QueueBacked'
  <2>1. CASE orchQ' = orchQ
    BY <1>1, <2>1, QueueStays DEF QueueBacked, GateInvariant
  <2>2. CASE orchQ' # orchQ
    <3>1. PICK ev \in Event :
            /\ ev.type \in ProcessorEvents
            /\ orchQ' = Append(orchQ, [ev |-> ev, left |-> OrchAttempts, fresh |-> TRUE, stalls |-> 0])
      BY <2>2 DEF ProcessorEffect
    <3>2. Backed(ev, Approvals')
      BY <3>1 DEF Backed, StageEvents, ProcessorEvents
    <3>3. QED BY <1>1, <3>1, <3>2, QueueGrows DEF AttemptsAssumption, GateInvariant
  <2>3. QED BY <2>1, <2>2
<1>4. QED
  BY <1>1, <1>2, <1>3, StageStays, OrchestratorsStay, RequestsStay DEF GateInvariant

-----------------------------------------------------------------------------
(* The orchestrator. *)

LEMMA IdleOrchBacked ==
  /\ Backed(IdleOrch.ev, Approvals)
  /\ IdleOrch.jobs = {}
BY EventKinds DEF IdleOrch, NoEvent, Backed, StageEvents

LEMMA TakeEventGates ==
  ASSUME TypeOK, GateInvariant, NEW o \in Orchestrators, TakeEvent(o),
         UNCHANGED <<req, calls, worker>>
  PROVE  GateInvariant'
<1>1. PICK i \in Takeable(orchQ) :
        /\ orchQ' = Without(orchQ, i)
        /\ orch' = [orch EXCEPT ![o] =
             [IdleOrch EXCEPT !.pc = "decide", !.ev = orchQ[i].ev,
                              !.left = orchQ[i].left, !.stalls = orchQ[i].stalls, !.seen = state]]
  BY DEF TakeEvent
<1>2. Approvals \subseteq Approvals' /\ UNCHANGED <<stage, jobQ>>
  BY ApprovalsGrow DEF TakeEvent, rowVars
<1>3. orchQ[i] \in BackedEvents /\ Without(orchQ, i) \in Seq(BackedEvents)
  BY <1>1, TakeableInDomain, QueueElement, WithoutType DEF GateInvariant, QueueBacked
<1>4. QueueBacked'
  <2>1. BackedEvents' = BackedEvents
    BY DEF BackedEvents, Approvals, TakeEvent
  <2>2. QED BY <1>1, <1>3, <2>1 DEF QueueBacked
<1>5. OrchestratorsBacked'
  <2> DEFINE taken == [IdleOrch EXCEPT !.pc = "decide", !.ev = orchQ[i].ev,
                                       !.left = orchQ[i].left, !.stalls = orchQ[i].stalls, !.seen = state]
  <2>1. taken.ev = orchQ[i].ev /\ taken.jobs = {}
    BY DEF IdleOrch
  <2>2. Backed(taken.ev, Approvals')
    BY <1>2, <1>3, <2>1, BackedGrows DEF BackedEvents
  <2>3. orch' = [orch EXCEPT ![o] = taken]
    BY <1>1
  <2> HIDE DEF taken
  <2>4. \A p \in Orchestrators : orch'[p] = IF p = o THEN taken ELSE orch[p]
    BY <2>3 DEF TypeOK
  <2>5. QED BY <1>2, <2>1, <2>2, <2>4, BackedGrows DEF GateInvariant, OrchestratorsBacked
<1>6. QED
  BY <1>2, <1>4, <1>5, StageStays, RequestsStay, WorkUnchanged DEF GateInvariant

LEMMA DecideTransitionGates ==
  ASSUME TypeOK, GateInvariant, NEW o \in Orchestrators, DecideTransition(o),
         UNCHANGED <<req, calls, worker>>
  PROVE  GateInvariant'
<1> DEFINE res == Transition(orch[o].seen, orch[o].ev, TransitionContext)
           decided == [orch[o] EXCEPT !.pc = "commit", !.next = res.next, !.jobs = res.jobs]
<1>1. Approvals \subseteq Approvals' /\ UNCHANGED <<stage, orchQ, jobQ>>
  BY ApprovalsGrow DEF DecideTransition, rowVars, queueVars
<1>2. Backed(orch[o].ev, Approvals)
  BY DEF GateInvariant, OrchestratorsBacked
<1>3. \A j \in res.jobs : JobBacked(j.name, Approvals)
  BY <1>2, TransitionBacked
<1>4. decided.ev = orch[o].ev /\ decided.jobs = res.jobs
  <2> HIDE DEF res
  <2> QED BY DEF TypeOK, OrchRecord
<1>5. \A p \in Orchestrators : orch'[p] = IF p = o THEN decided ELSE orch[p]
  <2>1. orch' = [orch EXCEPT ![o] = decided]
    BY DEF DecideTransition, TypeOK
  <2> HIDE DEF decided
  <2>2. QED BY <2>1 DEF TypeOK
<1> HIDE DEF decided, res
<1>6. OrchestratorsBacked'
  BY <1>1, <1>2, <1>3, <1>4, <1>5, BackedGrows DEF GateInvariant, OrchestratorsBacked
<1>7. QueueBacked'
  BY <1>1, QueueStays DEF GateInvariant, QueueBacked
<1>8. QED
  BY <1>1, <1>6, <1>7, StageStays, RequestsStay, WorkUnchanged DEF GateInvariant

LEMMA WriteTransitionResultGates ==
  ASSUME TypeOK, GateInvariant, NEW o \in Orchestrators, WriteTransitionResult(o),
         UNCHANGED <<req, calls, worker>>
  PROVE  GateInvariant'
<1>1. Approvals \subseteq Approvals' /\ UNCHANGED <<stage, orchQ, jobQ>>
  BY ApprovalsGrow DEF WriteTransitionResult, queueVars
<1>2. \A p \in Orchestrators : orch'[p].ev = orch[p].ev /\ orch'[p].jobs = orch[p].jobs
  BY DEF WriteTransitionResult, TypeOK, OrchRecord
<1>3. OrchestratorsBacked'
  BY <1>1, <1>2, BackedGrows DEF GateInvariant, OrchestratorsBacked
<1>4. QueueBacked'
  BY <1>1, QueueStays DEF GateInvariant, QueueBacked
<1>5. QED
  BY <1>1, <1>3, <1>4, StageStays, RequestsStay, WorkUnchanged DEF GateInvariant

LEMMA EnqueueJobGates ==
  ASSUME TypeOK, GateInvariant, NEW o \in Orchestrators, EnqueueJob(o),
         UNCHANGED <<req, calls, worker>>
  PROVE  GateInvariant'
<1> DEFINE entry(j) == [patchSet |-> j.patchSet, left |-> JobAttempts, fresh |-> TRUE, stalls |-> 0]
<1>1. PICK j \in orch[o].jobs :
        /\ jobQ' = [jobQ EXCEPT ![j.name] = Append(@, entry(j))]
        /\ orch' = [orch EXCEPT ![o].jobs = @ \ {j}]
  BY DEF EnqueueJob
<1>2. Approvals \subseteq Approvals' /\ UNCHANGED <<stage, orchQ>>
  BY ApprovalsGrow DEF EnqueueJob, rowVars
<1>3. JobBacked(j.name, Approvals')
  BY <1>1, <1>2, BackedGrows DEF GateInvariant, OrchestratorsBacked
<1>4. \A n \in JobName \ {j.name} : jobQ'[n] = jobQ[n]
  BY <1>1 DEF TypeOK
<1>5. WorkBehindGates'
  <2>1. \A n \in GatedJob : n # j.name => (Busy(n)' => Busy(n))
    BY <1>4 DEF Busy, At, GatedJob, JobName, PatchJob
  <2>2. QED BY <1>2, <1>3, <2>1, WorkStays DEF GateInvariant
<1>6. \A p \in Orchestrators :
        orch'[p].ev = orch[p].ev /\ orch'[p].jobs \subseteq orch[p].jobs
  BY <1>1 DEF TypeOK, OrchRecord
<1>7. OrchestratorsBacked'
  BY <1>2, <1>6, BackedGrows DEF GateInvariant, OrchestratorsBacked
<1>8. QueueBacked'
  BY <1>2, QueueStays DEF GateInvariant, QueueBacked
<1>9. QED
  BY <1>2, <1>5, <1>7, <1>8, StageStays, RequestsStay DEF GateInvariant

LEMMA LeaveEventGates ==
  ASSUME TypeOK, GateInvariant, NEW o \in Orchestrators,
         FinishEvent(o) \/ FailEvent(o) \/ CrashOrchestrator(o),
         UNCHANGED <<req, calls, worker>>
  PROVE  GateInvariant'
<1>1. Approvals \subseteq Approvals' /\ UNCHANGED <<stage, jobQ>>
  BY ApprovalsGrow DEF FinishEvent, FailEvent, CrashOrchestrator, rowVars, queueVars
<1>2. OrchestratorsBacked'
  <2>1. \A p \in Orchestrators : orch'[p] = IF p = o THEN IdleOrch ELSE orch[p]
    BY DEF FinishEvent, FailEvent, CrashOrchestrator, TypeOK
  <2>2. QED
    BY <1>1, <2>1, IdleOrchBacked, BackedGrows DEF GateInvariant, OrchestratorsBacked
<1>3. QueueBacked'
  <2>1. Backed(orch[o].ev, Approvals')
    BY <1>1, BackedGrows DEF GateInvariant, OrchestratorsBacked
  <2>2. orch[o].ev \in Event /\ orch[o].left \in Nat /\ orch[o].stalls \in Nat
    BY DEF TypeOK, OrchRecord
  <2>3. CASE orchQ' = orchQ
    BY <1>1, <2>3, QueueStays DEF GateInvariant, QueueBacked
  <2>4. ASSUME NEW left \in Nat, NEW stalls \in Nat,
               orchQ' = Append(orchQ, [ev |-> orch[o].ev, left |-> left, fresh |-> FALSE, stalls |-> stalls])
        PROVE  QueueBacked'
    BY <1>1, <2>1, <2>2, <2>4, QueueGrows DEF GateInvariant
  <2>5. \/ orchQ' = orchQ
        \/ \E left, stalls \in Nat :
             orchQ' = Append(orchQ, [ev |-> orch[o].ev, left |-> left, fresh |-> FALSE, stalls |-> stalls])
    BY EventOfferedAgain
  <2>6. QED BY <2>3, <2>4, <2>5
<1>4. QED
  BY <1>1, <1>2, <1>3, StageStays, RequestsStay, WorkUnchanged DEF GateInvariant

-----------------------------------------------------------------------------
(* Requests and webhooks. *)

LEMMA IdleRequestBacked == \A have : RequestBacked(IdleRequest, have)
BY DEF RequestBacked, IdleRequest, Before

LEMMA BeginGates ==
  ASSUME TypeOK, GateInvariant, NEW r \in Requests, NEW request, Begin(r, request),
         RequestBacked(request, Approvals), UNCHANGED <<orch, worker>>
  PROVE  GateInvariant'
<1>1. Approvals \subseteq Approvals' /\ UNCHANGED <<stage, orchQ, jobQ>>
  BY ApprovalsGrow DEF Begin, rowVars, queueVars
<1>2. RequestsBacked'
  <2>1. \A q \in Requests : req'[q] = IF q = r THEN request ELSE req[q]
    BY DEF Begin, TypeOK
  <2>2. QED BY <1>1, <2>1, BackedGrows DEF GateInvariant, RequestsBacked
<1>3. QueueBacked'
  BY <1>1, QueueStays DEF GateInvariant, QueueBacked
<1>4. QED
  BY <1>1, <1>2, <1>3, StageStays, OrchestratorsStay, WorkUnchanged DEF GateInvariant

(* A request of a stage the workflow has reached is backed: its own approval *)
(* covers the stage it moves to.                                             *)
LEMMA ClientGates ==
  ASSUME TypeOK, GateInvariant, NEW r \in Requests, Client(r), UNCHANGED <<orch, worker>>
  PROVE  GateInvariant'
<1>1. Before(stage) \subseteq Approvals
  BY DEF GateInvariant, StageBehindGates
<1>2. CASE ApproveStage(r)
  <2> DEFINE request == [IdleRequest EXCEPT
       !.todo = {"decide", "update", "emit"} \cup (IF stage = "policy" THEN {"check"} ELSE {}),
       !.stage = stage, !.decision = "approve",
       !.row = ApprovedRow(stage, state),
       !.ev = OfStage("E_STAGE_APPROVED", stage)]
  <2>1. stage \in ValidStages
    BY <1>2 DEF ApproveStage
  <2>2. request.stage = stage /\ Pending(request) = {stage}
    BY DEF IdleRequest, Pending
  <2>3. request.row.stage = NextStage[stage]
    BY DEF IdleRequest, ApprovedRow, Row
  <2>4. Before(NextStage[stage]) \subseteq Approvals \cup {stage}
    BY <1>1, <2>1, BeforeNext
  <2>5. Backed(request.ev, Approvals \cup {stage})
    BY <1>1, <2>1 DEF IdleRequest, Backed, OfStage
  <2>6. RequestBacked(request, Approvals)
    <3> HIDE DEF request
    <3> QED BY <1>1, <2>2, <2>3, <2>4, <2>5 DEF RequestBacked
  <2>7. Begin(r, request)
    BY <1>2 DEF ApproveStage
  <2> HIDE DEF request
  <2>8. QED BY <2>6, <2>7, BeginGates
<1>3. CASE RejectStage(r)
  <2> DEFINE request == [IdleRequest EXCEPT
       !.todo = {"decide", "update", "emit"},
       !.stage = stage, !.decision = "reject",
       !.row = Row("REJECTED", Keep, "rejected"),
       !.ev = OfStage("E_STAGE_REJECTED", stage)]
  <2>1. RequestBacked(request, Approvals)
    BY <1>1 DEF IdleRequest, RequestBacked, Backed, OfStage, Row, StageEvents
  <2>2. Begin(r, request)
    BY <1>3 DEF RejectStage
  <2> HIDE DEF request
  <2>3. QED BY <2>1, <2>2, BeginGates
<1>4. CASE RequestStageChanges(r)
  <2> DEFINE request == [IdleRequest EXCEPT
       !.todo = {"decide", "update", "emit"},
       !.stage = stage, !.decision = "request_changes",
       !.row = Row(Keep, Keep, "needs_changes"),
       !.ev = OfStage("E_STAGE_CHANGES_REQUESTED", stage)]
  <2>1. RequestBacked(request, Approvals)
    BY <1>1, <1>4 DEF RequestStageChanges, IdleRequest, RequestBacked, Backed, OfStage, Row
  <2>2. Begin(r, request)
    BY <1>4 DEF RequestStageChanges
  <2> HIDE DEF request
  <2>3. QED BY <2>1, <2>2, BeginGates
<1>5. CASE RetryStage(r)
  <2> DEFINE request == [IdleRequest EXCEPT
       !.todo = {"update", "emit"},
       !.stage = stage,
       !.row = Row(Keep, Keep, "pending"),
       !.ev = OfStage("E_STAGE_RETRY", stage)]
  <2>1. RequestBacked(request, Approvals)
    BY <1>1, <1>5 DEF RetryStage, IdleRequest, RequestBacked, Backed, OfStage, Row
  <2>2. Begin(r, request)
    BY <1>5 DEF RetryStage
  <2> HIDE DEF request
  <2>3. QED BY <2>1, <2>2, BeginGates
<1>6. CASE RegeneratePatches(r)
  <2> DEFINE request == [IdleRequest EXCEPT
       !.todo = {"mark", "decide", "update", "emit"},
       !.stage = "sandbox", !.decision = "request_changes",
       !.mark = "rejected",
       !.row = Row(Keep, "patches", "pending"),
       !.ev = OfStage("E_STAGE_CHANGES_REQUESTED", "patches")]
  <2>1. Before("sandbox") \subseteq Approvals
    BY <1>1, <1>6 DEF RegeneratePatches
  <2>2. Before("patches") \subseteq Before("sandbox") /\ "patches" \in ValidStages
    BY DEF Before, ValidStages
  <2>3. RequestBacked(request, Approvals)
    BY <2>1, <2>2 DEF IdleRequest, RequestBacked, Backed, OfStage, Row
  <2>4. Begin(r, request)
    BY <1>6 DEF RegeneratePatches
  <2> HIDE DEF request
  <2>5. QED BY <2>3, <2>4, BeginGates
<1>7. ASSUME NEW request, Begin(r, request), request.stage = IdleRequest.stage,
             request.row.stage = Keep, request.ev.type \notin StageEvents
      PROVE  GateInvariant'
  <2>1. RequestBacked(request, Approvals)
    BY <1>7 DEF RequestBacked, Backed, IdleRequest, Before
  <2>2. QED BY <1>7, <2>1, BeginGates
<1>8. CASE Approve(r)
  <2> DEFINE request(i) == [IdleRequest EXCEPT
      !.todo = {"approval", "mark", "emit"}, !.mark = "approved", !.marked = {i},
      !.ev = Plain("E_APPROVAL_RECORDED")]
  <2>1. PICK i \in PatchSetIds : Begin(r, request(i))
    BY <1>8 DEF Approve
  <2>2. /\ request(i).stage = IdleRequest.stage /\ request(i).row.stage = Keep
        /\ request(i).ev.type \notin StageEvents
    BY EventKinds DEF IdleRequest, NoRow, Row, StageEvents
  <2> HIDE DEF request
  <2>3. QED BY <1>7, <2>1, <2>2
<1>9. CASE Reject(r)
  <2> DEFINE request(i) == [IdleRequest EXCEPT
      !.todo = {"mark", "emit"}, !.mark = "rejected", !.marked = {i},
      !.ev = Plain("E_PATCH_SET_REJECTED")]
  <2>1. PICK i \in PatchSetIds : Begin(r, request(i))
    BY <1>9 DEF Reject
  <2>2. /\ request(i).stage = IdleRequest.stage /\ request(i).row.stage = Keep
        /\ request(i).ev.type \notin StageEvents
    BY EventKinds DEF IdleRequest, NoRow, Row, StageEvents
  <2> HIDE DEF request
  <2>3. QED BY <1>7, <2>1, <2>2
<1>10. CASE RequestChanges(r)
  <2> DEFINE request == [IdleRequest EXCEPT
       !.todo = {"emit"}, !.ev = Plain("E_CHANGES_REQUESTED")]
  <2>1. /\ request.stage = IdleRequest.stage /\ request.row.stage = Keep
        /\ request.ev.type \notin StageEvents
    BY EventKinds DEF IdleRequest, NoRow, Row, StageEvents
  <2>2. Begin(r, request)
    BY <1>10 DEF RequestChanges
  <2> HIDE DEF request
  <2>3. QED BY <1>7, <2>1, <2>2
<1>11. CASE Cancel(r)
  <2> DEFINE request == [IdleRequest EXCEPT
       !.todo = {"update"}, !.row = Row("CANCELLED", Keep, Keep)]
  <2>1. /\ request.stage = IdleRequest.stage /\ request.row.stage = Keep
        /\ request.ev.type \notin StageEvents
    BY EventKinds DEF IdleRequest, Row, StageEvents
  <2>2. Begin(r, request)
    BY <1>11 DEF Cancel
  <2> HIDE DEF request
  <2>3. QED BY <1>7, <2>1, <2>2
<1>12. QED
  BY <1>2, <1>3, <1>4, <1>5, <1>6, <1>8, <1>9, <1>10, <1>11 DEF Client

(* Making a write other than the decision leaves a request backed; the        *)
(* decision moves its stage from the pending approvals to the recorded ones. *)
LEMMA DoneBacked ==
  ASSUME TypeOK, GateInvariant, NEW r \in Requests, NEW step,
         step # "decide" \/ Pending(req[r]) \subseteq Approvals',
         Approvals \subseteq Approvals', Done(r, step)
  PROVE  RequestsBacked'
<1> DEFINE left == [req[r] EXCEPT !.todo = req[r].todo \ {step}]
<1>1. \A q \in Requests : q # r => req'[q] = req[q]
  BY DEF Done, TypeOK
<1>2. req'[r] = IdleRequest \/ req'[r] = left
  BY DEF Done, TypeOK
<1>3. RequestBacked(req[r], Approvals')
  BY BackedGrows DEF GateInvariant, RequestsBacked
<1>4. /\ left.todo = req[r].todo \ {step} /\ left.stage = req[r].stage
      /\ left.decision = req[r].decision /\ left.row = req[r].row /\ left.ev = req[r].ev
  BY DEF TypeOK, RequestRecord
<1> HIDE DEF left
<1>5. Approvals' \cup Pending(req[r]) \subseteq Approvals' \cup Pending(left)
  BY <1>4 DEF Pending
<1>6. RequestBacked(left, Approvals')
  <2>1. Backed(req[r].ev, Approvals' \cup Pending(req[r])) =>
          Backed(left.ev, Approvals' \cup Pending(left))
    BY <1>4, <1>5, BackedGrows
  <2>2. QED BY <1>3, <1>4, <1>5, <2>1 DEF RequestBacked
<1>7. QED
  BY <1>1, <1>2, <1>6, IdleRequestBacked, BackedGrows DEF GateInvariant, RequestsBacked

(* The writes before the update have been made when the update runs. *)
LEMMA NothingPending ==
  ASSUME NEW r, NEW step \in {"update", "emit"}, NextStep(r, step)
  PROVE  Pending(req[r]) = {}
BY DEF NextStep, Order, Pending

LEMMA HandleRequestGates ==
  ASSUME TypeOK, GateInvariant, NEW r \in Requests, HandleRequest(r),
         UNCHANGED <<orch, worker>>
  PROVE  GateInvariant'
<1>1. req[r] \in RequestRecord /\ RequestBacked(req[r], Approvals)
  BY DEF TypeOK, GateInvariant, RequestsBacked
<1>2. CASE CheckViolations(r) \/ CreateApproval(r) \/ MarkPatchSets(r)
  <2>1. Approvals \subseteq Approvals' /\ UNCHANGED <<stage, orchQ, jobQ>>
    BY <1>2, ApprovalsGrow DEF CheckViolations, CreateApproval, MarkPatchSets, rowVars, queueVars
  <2>2. \/ \E step \in {"check", "approval", "mark"} : Done(r, step)
        \/ req' = [req EXCEPT ![r] = IdleRequest]
    BY <1>2 DEF CheckViolations, CreateApproval, MarkPatchSets
  <2>3. RequestsBacked'
    <3>1. CASE \E step \in {"check", "approval", "mark"} : Done(r, step)
      BY <2>1, <3>1, DoneBacked
    <3>2. CASE req' = [req EXCEPT ![r] = IdleRequest]
      BY <2>1, <3>2, IdleRequestBacked, BackedGrows DEF GateInvariant, RequestsBacked, TypeOK
    <3>3. QED BY <2>2, <3>1, <3>2
  <2>4. QueueBacked'
    BY <2>1, QueueStays DEF GateInvariant, QueueBacked
  <2>5. QED
    BY <2>1, <2>3, <2>4, StageStays, OrchestratorsStay, WorkUnchanged DEF GateInvariant
<1>3. CASE CreateDecision(r)
  <2>1. Approvals \subseteq Approvals' /\ UNCHANGED <<stage, orchQ, jobQ>>
    BY <1>3, ApprovalsGrow DEF CreateDecision, rowVars, queueVars
  <2>2. Pending(req[r]) \subseteq Approvals'
    BY <1>1, <1>3 DEF CreateDecision, Pending, Approvals, RequestRecord
  <2>3. RequestsBacked'
    BY <1>3, <2>1, <2>2, DoneBacked DEF CreateDecision
  <2>4. QueueBacked'
    BY <2>1, QueueStays DEF GateInvariant, QueueBacked
  <2>5. QED
    BY <2>1, <2>3, <2>4, StageStays, OrchestratorsStay, WorkUnchanged DEF GateInvariant
<1>4. CASE UpdateWorkflow(r)
  <2>1. Approvals \subseteq Approvals' /\ UNCHANGED <<orchQ, jobQ>>
    BY <1>4, ApprovalsGrow DEF UpdateWorkflow, queueVars
  <2>2. StageBehindGates'
    <3>1. Pending(req[r]) = {} /\ "update" \in req[r].todo
      BY <1>4, NothingPending DEF UpdateWorkflow, NextStep
    <3>2. CASE req[r].row.stage = Keep
      BY <1>4, <2>1, <3>2, StageStays DEF UpdateWorkflow, Written, GateInvariant
    <3>3. CASE req[r].row.stage # Keep
      <4>1. Before(req[r].row.stage) \subseteq Approvals
        BY <1>1, <3>1, <3>3 DEF RequestBacked
      <4>2. stage' = req[r].row.stage
        BY <1>4, <3>3 DEF UpdateWorkflow, Written
      <4>3. QED BY <2>1, <4>1, <4>2 DEF StageBehindGates
    <3>4. QED BY <3>2, <3>3
  <2>3. RequestsBacked'
    BY <1>4, <2>1, DoneBacked DEF UpdateWorkflow
  <2>4. QueueBacked'
    BY <2>1, QueueStays DEF GateInvariant, QueueBacked
  <2>5. QED
    BY <2>1, <2>2, <2>3, <2>4, OrchestratorsStay, WorkUnchanged DEF GateInvariant
<1>5. CASE EmitEvent(r)
  <2>1. Approvals \subseteq Approvals' /\ UNCHANGED <<stage, jobQ>>
    BY <1>5, ApprovalsGrow DEF EmitEvent, rowVars
  <2>2. QueueBacked'
    <3>1. Pending(req[r]) = {} /\ "emit" \in req[r].todo
      BY <1>5, NothingPending DEF EmitEvent, NextStep
    <3>2. Backed(req[r].ev, Approvals)
      BY <1>1, <3>1 DEF RequestBacked
    <3>3. Backed(req[r].ev, Approvals')
      BY <2>1, <3>2, BackedGrows
    <3>4. req[r].ev \in Event
      BY <1>1 DEF RequestRecord
    <3>5. QED
      BY <1>5, <2>1, <3>3, <3>4, QueueGrows DEF EmitEvent, EmitFromApi, GateInvariant
  <2>3. RequestsBacked'
    BY <1>5, <2>1, DoneBacked DEF EmitEvent
  <2>4. QED
    BY <2>1, <2>2, <2>3, StageStays, OrchestratorsStay, WorkUnchanged DEF GateInvariant
<1>6. QED BY <1>2, <1>3, <1>4, <1>5 DEF HandleRequest

LEMMA AbandonRequestGates ==
  ASSUME TypeOK, GateInvariant, NEW r \in Requests, AbandonRequest(r),
         UNCHANGED <<orch, worker>>
  PROVE  GateInvariant'
<1>1. Approvals \subseteq Approvals' /\ UNCHANGED <<stage, orchQ, jobQ>>
  BY ApprovalsGrow DEF AbandonRequest, rowVars, queueVars
<1>2. \A q \in Requests : req'[q] = IF q = r THEN IdleRequest ELSE req[q]
  BY DEF AbandonRequest, TypeOK
<1>3. RequestsBacked'
  BY <1>1, <1>2, IdleRequestBacked, BackedGrows DEF GateInvariant, RequestsBacked
<1>4. QueueBacked'
  BY <1>1, QueueStays DEF GateInvariant, QueueBacked
<1>5. QED
  BY <1>1, <1>3, <1>4, StageStays, OrchestratorsStay, WorkUnchanged DEF GateInvariant

LEMMA GitHubGates ==
  ASSUME TypeOK, GateInvariant, GitHub, UNCHANGED <<orch, worker>>
  PROVE  GateInvariant'
<1>1. Approvals \subseteq Approvals' /\ UNCHANGED <<stage, jobQ, req>>
  BY ApprovalsGrow DEF GitHub, PullRequestEvent, CiEvent, rowVars
<1>2. \/ orchQ' = orchQ
      \/ \E ev \in Event : /\ ev.type \notin StageEvents
                           /\ orchQ' = Append(orchQ, [ev |-> ev, left |-> 1, fresh |-> TRUE, stalls |-> 0])
  <2>1. \A f \in BOOLEAN :
          /\ Plain(IF f THEN "E_PR_MERGED" ELSE "E_PR_CLOSED") \in Event
          /\ Plain(IF f THEN "E_PR_MERGED" ELSE "E_PR_CLOSED").type \notin StageEvents
          /\ Flagged("E_CI_COMPLETED", "none", f) \in Event
          /\ Flagged("E_CI_COMPLETED", "none", f).type \notin StageEvents
    BY EventTypes, EventKinds DEF StageEvents
  <2>2. QED BY <2>1 DEF GitHub, PullRequestEvent, CiEvent, EmitFromApi
<1>3. QueueBacked'
  <2>1. CASE orchQ' = orchQ
    BY <1>1, <2>1, QueueStays DEF QueueBacked, GateInvariant
  <2>2. CASE orchQ' # orchQ
    <3>1. PICK ev \in Event :
            /\ ev.type \notin StageEvents
            /\ orchQ' = Append(orchQ, [ev |-> ev, left |-> 1, fresh |-> TRUE, stalls |-> 0])
      BY <1>2, <2>2
    <3>2. Backed(ev, Approvals')
      BY <3>1 DEF Backed
    <3>3. QED BY <1>1, <3>1, <3>2, QueueGrows DEF GateInvariant
  <2>3. QED BY <2>1, <2>2
<1>4. QED
  BY <1>1, <1>3, StageStays, OrchestratorsStay, RequestsStay, WorkUnchanged DEF GateInvariant

-----------------------------------------------------------------------------
(* The engine. *)

(* A workflow starts with the approvals of the stages before its own, and the *)
(* event that brought it there is the one of the last of them.               *)
LEMMA InitApprovals ==
  ASSUME Init, PipelineAssumption
  PROVE  Approvals = Before(stage)
<1>1. CASE Origin = "gated"
  <2>1. GatedInit
    BY <1>1 DEF Init
  <2>2. QED BY <2>1, BeforeType DEF GatedInit, Approvals
<1>2. CASE Origin # "gated"
  BY <1>2 DEF Init, LegacyInit, Approvals, Before
<1>3. QED BY <1>1, <1>2

LEMMA StartEventBacked ==
  ASSUME PipelineAssumption
  PROVE  Backed(StartEvent, Before(StartStage))
<1>1. CASE StartStage = "feasibility"
  BY <1>1, EventKinds DEF StartEvent, Backed, StageEvents
<1>2. CASE StartStage # "feasibility"
  <2> DEFINE s == CHOOSE s \in ValidStages : NextStage[s] = StartStage
  <2>1. \E t \in ValidStages : NextStage[t] = StartStage
    BY <1>2 DEF PipelineAssumption, ValidStages, NextStage
  <2>2. s \in ValidStages /\ NextStage[s] = StartStage
    BY <2>1
  <2>3. StartEvent = OfStage("E_STAGE_APPROVED", s)
    BY <1>2 DEF StartEvent
  <2> HIDE DEF s
  <2>4. Before(StartStage) = Before(s) \cup {s}
    BY <2>2, BeforeNext
  <2>5. QED BY <2>2, <2>3, <2>4 DEF Backed, OfStage
<1>3. QED BY <1>1, <1>2

LEMMA InitGates ==
  ASSUME Init, PipelineAssumption
  PROVE  GateInvariant
<1>1. Approvals = Before(stage)
  BY InitApprovals
<1>2. StageBehindGates
  BY <1>1 DEF StageBehindGates
<1>3. WorkBehindGates
  BY DEF Init, GatedInit, LegacyInit, WorkBehindGates, At, IdleWorker, GatedJob, JobName,
         AnalysisJob, PatchJob
<1>4. OrchestratorsBacked
  BY IdleOrchBacked DEF Init, OrchestratorsBacked
<1>5. RequestsBacked
  BY IdleRequestBacked DEF Init, RequestsBacked
<1>6. QueueBacked
  <2>1. CASE Origin = "gated"
    <3> DEFINE entry == [ev |-> StartEvent, left |-> 1, fresh |-> TRUE, stalls |-> 0]
    <3>1. orchQ = <<entry>> /\ stage = StartStage
      BY <2>1 DEF Init, GatedInit
    <3>2. Backed(StartEvent, Approvals) /\ StartEvent \in Event
      BY <1>1, <3>1, StartEventBacked, StartEventType
    <3>3. entry \in BackedEvents
      BY <3>2 DEF BackedEvents, QueuedEvent
    <3> HIDE DEF entry
    <3>4. QED BY <3>1, <3>3 DEF QueueBacked
  <2>2. CASE Origin # "gated"
    BY <2>2 DEF Init, LegacyInit, QueueBacked
  <2>3. QED BY <2>1, <2>2
<1>7. QED BY <1>2, <1>3, <1>4, <1>5, <1>6 DEF GateInvariant

LEMMA NextGates ==
  ASSUME TypeOK, GateInvariant, [Next]_vars, AttemptsAssumption, PatchAssumption
  PROVE  GateInvariant'
<1>1. ASSUME NEW o \in Orchestrators, OrchestratorStep(o) PROVE GateInvariant'
  BY <1>1, TakeEventGates, DecideTransitionGates, WriteTransitionResultGates,
     EnqueueJobGates, LeaveEventGates DEF OrchestratorStep, HandleEvent
<1>2. ASSUME NEW r \in Requests, RequestStep(r) PROVE GateInvariant'
  BY <1>2, HandleRequestGates DEF RequestStep
<1>3. CASE ProcessorStep
  BY <1>3, ProcessorSteps, ProcessorGates DEF ProcessorStep
<1>4. CASE ClientStep
  BY <1>4, ClientGates, GitHubGates DEF ClientStep
<1>5. CASE FaultStep
  BY <1>5, LeaveEventGates, ProcessorSteps, ProcessorGates DEF FaultStep
<1>6. CASE CrashStep
  BY <1>6, LeaveEventGates, ProcessorSteps, ProcessorGates, AbandonRequestGates DEF CrashStep
<1>7. CASE UNCHANGED vars
  <2>1. Approvals \subseteq Approvals' /\ UNCHANGED <<stage, orchQ, jobQ, orch, req, worker>>
    BY <1>7, ApprovalsGrow DEF vars
  <2>2. QueueBacked'
    BY <2>1, QueueStays DEF QueueBacked, GateInvariant
  <2>3. QED
    BY <2>1, <2>2, StageStays, OrchestratorsStay, RequestsStay, WorkUnchanged
    DEF GateInvariant
<1>8. QED
  BY <1>1, <1>2, <1>3, <1>4, <1>5, <1>6, <1>7 DEF Next

(* Whatever stage, event or job a workflow has in flight, the approvals it    *)
(* speaks for are recorded, or will be before it takes effect.               *)
THEOREM GateInvariance == Spec => []GateInvariant
<1>1. Init => GateInvariant
  BY InitGates, PipelineAssumption
<1>2. TypeOK /\ GateInvariant /\ [Next]_vars => GateInvariant'
  BY NextGates, AttemptsAssumption, PatchAssumption
<1>3. QED BY <1>1, <1>2, TypeCorrect, PTL DEF Spec

(* approveStage, retryStage, regeneratePatchesFromSandbox and the others never *)
(* put a workflow at a stage whose predecessors are not all approved.        *)
THEOREM StageBehindGatesHolds == Spec => []StageBehindGates
<1>1. GateInvariant => StageBehindGates
  BY DEF GateInvariant
<1>2. QED BY <1>1, GateInvariance, PTL

(* No analysis or sandbox job is waiting or running ahead of the gates, however *)
(* often its event or the job itself is delivered.                           *)
THEOREM WorkBehindGatesHolds == Spec => []WorkBehindGates
<1>1. GateInvariant => WorkBehindGates
  BY DEF GateInvariant
<1>2. QED BY <1>1, GateInvariance, PTL

-----------------------------------------------------------------------------
(* The ledger. *)

(* Who writes the stage or the decisions *)
LEMMA StageOrDecisionWrites ==
  ASSUME TypeOK, PatchAssumption, [Next]_vars
  PROVE  \/ UNCHANGED <<stage, decisions>>
         \/ \E r \in Requests : CreateDecision(r) \/ UpdateWorkflow(r)
<1>1. ASSUME NEW o \in Orchestrators, OrchestratorStep(o)
      PROVE  UNCHANGED <<stage, decisions>>
  BY <1>1 DEF OrchestratorStep, HandleEvent, TakeEvent, DecideTransition,
              WriteTransitionResult, EnqueueJob, FinishEvent, rowVars
<1>2. CASE ProcessorStep
  BY <1>2, ProcessorSteps DEF ProcessorStep, ProcessorEffect
<1>3. ASSUME NEW r \in Requests, HandleRequest(r)
      PROVE  UNCHANGED <<stage, decisions>> \/ CreateDecision(r) \/ UpdateWorkflow(r)
  BY <1>3 DEF HandleRequest, CheckViolations, CreateApproval, MarkPatchSets, EmitEvent, rowVars
<1>4. CASE ClientStep
  <2>1. ASSUME NEW r \in Requests, NEW request, Begin(r, request)
        PROVE  UNCHANGED <<stage, decisions>>
    BY <2>1 DEF Begin, rowVars
  <2>2. ASSUME NEW r \in Requests, Client(r)
        PROVE  UNCHANGED <<stage, decisions>>
    BY <2>1, <2>2 DEF Client, ApproveStage, RejectStage, RequestStageChanges, RetryStage,
                      RegeneratePatches, Approve, Reject, RequestChanges, Cancel
  <2>3. CASE GitHub
    BY <2>3 DEF GitHub, PullRequestEvent, CiEvent, rowVars
  <2>4. QED BY <1>4, <2>2, <2>3 DEF ClientStep
<1>5. CASE FaultStep
  BY <1>5, ProcessorSteps DEF FaultStep, FailEvent, ProcessorEffect, rowVars
<1>6. CASE CrashStep
  BY <1>6, ProcessorSteps
  DEF CrashStep, CrashOrchestrator, AbandonRequest, ProcessorEffect, rowVars
<1>7. CASE UNCHANGED vars
  BY <1>7 DEF vars
<1>8. QED
  BY <1>1, <1>2, <1>3, <1>4, <1>5, <1>6, <1>7 DEF Next, RequestStep

(* The ledger's stages are the engine's. *)
LEMMA LedgerStages ==
  /\ Ledger!ValidStages = ValidStages /\ Ledger!GatedStage = GatedStage
  /\ \A s : Ledger!Before(s) = Before(s)
BY DEF Ledger!ValidStages, ValidStages, Ledger!GatedStage, GatedStage, Ledger!Before, Before

(* The engine implements the ledger of approvals: every step signs a stage    *)
(* whose predecessors are signed, or moves to a stage the ledger allows, or   *)
(* leaves both alone.                                                        *)
THEOREM ImplementsLedger == Spec => LedgerSpec
<1>1. Init => Ledger!Init
  <2> SUFFICES ASSUME Init PROVE Ledger!Init
    OBVIOUS
  <2>1. stage \in GatedStage
    BY InitType, AttemptsAssumption, PatchAssumption, PipelineAssumption DEF TypeOK
  <2>2. QED BY <2>1, InitApprovals, LedgerStages, PipelineAssumption DEF Ledger!Init
<1>2. TypeOK /\ GateInvariant /\ TypeOK' /\ GateInvariant' /\ [Next]_vars
        => [Ledger!Next]_<<stage, Approvals>>
  <2> SUFFICES ASSUME TypeOK, GateInvariant, TypeOK', GateInvariant', [Next]_vars
               PROVE  [Ledger!Next]_<<stage, Approvals>>
    OBVIOUS
  <2>1. CASE UNCHANGED <<stage, decisions>>
    BY <2>1 DEF Approvals
  <2>2. ASSUME NEW r \in Requests, CreateDecision(r)
        PROVE  [Ledger!Next]_<<stage, Approvals>>
    <3>1. stage' = stage /\ req[r] \in RequestRecord
      BY <2>2 DEF CreateDecision, rowVars, TypeOK
    <3>2. req[r].stage \in ValidStages /\ Before(req[r].stage) \subseteq Approvals
      BY <3>1 DEF GateInvariant, RequestsBacked, RequestBacked, RequestRecord
    <3>3. CASE req[r].decision = "approve"
      <4>1. Approvals' = Approvals \cup {req[r].stage}
        BY <2>2, <3>2, <3>3 DEF CreateDecision, Approvals
      <4>2. Ledger!Sign(req[r].stage)
        BY <3>1, <3>2, <4>1, LedgerStages DEF Ledger!Sign
      <4>3. QED BY <3>2, <4>2, LedgerStages DEF Ledger!Next
    <3>4. CASE req[r].decision # "approve"
      <4>1. Approvals' = Approvals
        BY <2>2, <3>4 DEF CreateDecision, Approvals
      <4>2. QED BY <3>1, <4>1
    <3>5. QED BY <3>3, <3>4
  <2>3. ASSUME NEW r \in Requests, UpdateWorkflow(r)
        PROVE  [Ledger!Next]_<<stage, Approvals>>
    <3>1. Approvals' = Approvals
      BY <2>3 DEF UpdateWorkflow, Approvals
    <3>2. stage' \in GatedStage /\ Before(stage') \subseteq Approvals
      BY <3>1 DEF TypeOK, GateInvariant, StageBehindGates
    <3>3. Ledger!Move(stage')
      BY <3>1, <3>2, LedgerStages DEF Ledger!Move
    <3>4. QED BY <3>2, <3>3, LedgerStages DEF Ledger!Next
  <2>4. QED BY <2>1, <2>2, <2>3, StageOrDecisionWrites, PatchAssumption
<1>3. QED
  BY <1>1, <1>2, TypeCorrect, GateInvariance, PTL DEF Spec, LedgerSpec, Ledger!Spec

-----------------------------------------------------------------------------
(* The write gate.  WritesAreApproved is inductive: an Approval row is never  *)
(* deleted, so that only the steps that push or open something matter, and    *)
(* each of them asks the WriteGate in the same step as it writes.             *)

(* The row of a patch set speaks of a write *)
Wrote(p) == p.branch \/ p.prs > 0

(* A step by which no row comes to speak of a write unless there is approval, *)
(* and by which no approval is lost.                                         *)
GuardedWrites ==
  /\ approved => approved'
  /\ \A i \in PatchSetIds' :
       Wrote(patchSets'[i]) => approved' \/ (i \in PatchSetIds /\ Wrote(patchSets[i]))

LEMMA GuardedKeeps ==
  ASSUME WritesAreApproved, GuardedWrites
  PROVE  WritesAreApproved'
BY DEF WritesAreApproved, GuardedWrites, Wrote

LEMMA UnchangedGuarded ==
  ASSUME UNCHANGED patchSets, approved => approved'
  PROVE  GuardedWrites
BY DEF GuardedWrites, PatchSetIds

(* A row is replaced by one that wrote no more, or under an approval. *)
LEMMA SetPatchSetGuarded ==
  ASSUME TypeOK, NEW i, NEW row, SetPatchSet(i, row), approved' = approved,
         i \in PatchSetIds /\ Wrote(row) => approved \/ Wrote(patchSets[i])
  PROVE  GuardedWrites
<1>1. /\ PatchSetIds' = PatchSetIds
      /\ \A k \in PatchSetIds : patchSets'[k] = IF k = i THEN row ELSE patchSets[k]
  BY LenProperties, SeqDef DEF SetPatchSet, PatchSetIds, TypeOK
<1>2. QED BY <1>1 DEF GuardedWrites

LEMMA NewNotWritten == \A v : ~ Wrote(NewPatchSet(v))
BY DEF Wrote, NewPatchSet

(* The processors that write patch sets. *)
LEMMA IngestGuarded ==
  ASSUME TypeOK, IngestContext
  PROVE  GuardedWrites
<1>1. CASE GeneratePatchSet
  <2>1. PICK v \in Verdicts : patchSets' = Append(patchSets, NewPatchSet(v))
    BY <1>1 DEF GeneratePatchSet
  <2> DEFINE new == NewPatchSet(v)
  <2>2. ~ Wrote(new) /\ patchSets' = Append(patchSets, new)
    BY <2>1, NewNotWritten
  <2> HIDE DEF new
  <2>3. \A i \in PatchSetIds' : patchSets'[i] = new \/ (i \in PatchSetIds /\ patchSets'[i] = patchSets[i])
    BY <2>2, LenProperties DEF PatchSetIds, TypeOK
  <2>4. QED BY <1>1, <2>2, <2>3 DEF GuardedWrites, GeneratePatchSet
<1>2. CASE StartIngest \/ IngestReady \/ IngestCompleted \/ IngestCaught
           \/ EmitFailureAndThrow("ingest_context")
  BY <1>2, UnchangedGuarded
  DEF StartIngest, IngestReady, IngestCompleted, IngestCaught, EmitAndReturn,
      EmitFailureAndThrow
<1>3. QED BY <1>1, <1>2 DEF IngestContext

LEMMA EvaluateGuarded ==
  ASSUME TypeOK, EvaluatePolicy
  PROVE  GuardedWrites
<1> DEFINE ps == patchSets[Current("evaluate_policy")]
<1>1. ASSUME NEW row, SetPatchSet(Current("evaluate_policy"), row), approved' = approved,
             Current("evaluate_policy") \in PatchSetIds =>
               row.branch = ps.branch /\ row.prs = ps.prs
      PROVE  GuardedWrites
  BY <1>1, SetPatchSetGuarded DEF Wrote
<1>2. Current("evaluate_policy") \in PatchSetIds => ps \in PatchSet
  BY PatchSetElement
<1>3. CASE ClearViolations
  <2> DEFINE row == [ps EXCEPT !.rows = "none"]
  <2>1. Current("evaluate_policy") \in PatchSetIds =>
          row.branch = ps.branch /\ row.prs = ps.prs
    BY <1>2 DEF PatchSet
  <2>2. SetPatchSet(Current("evaluate_policy"), row) /\ approved' = approved
    BY <1>3 DEF ClearViolations
  <2> HIDE DEF row
  <2>3. QED BY <1>1, <2>1, <2>2
<1>4. CASE RecordViolations
  <2> DEFINE row == [ps EXCEPT !.rows = ps.verdict]
  <2>1. Current("evaluate_policy") \in PatchSetIds =>
          row.branch = ps.branch /\ row.prs = ps.prs
    BY <1>2 DEF PatchSet
  <2>2. SetPatchSet(Current("evaluate_policy"), row) /\ approved' = approved
    BY <1>4 DEF RecordViolations
  <2> HIDE DEF row
  <2>3. QED BY <1>1, <2>1, <2>2
<1>5. CASE RecordEvaluation
  <2> DEFINE row == [ps EXCEPT !.evaluated = TRUE]
  <2>1. Current("evaluate_policy") \in PatchSetIds =>
          row.branch = ps.branch /\ row.prs = ps.prs
    BY <1>2 DEF PatchSet
  <2>2. SetPatchSet(Current("evaluate_policy"), row) /\ approved' = approved
    BY <1>5 DEF RecordEvaluation
  <2> HIDE DEF row
  <2>3. QED BY <1>1, <2>1, <2>2
<1>6. CASE StartEvaluation \/ ConcludePolicyStage \/ EvaluationCompleted \/ EvaluationFailed
  <2>1. \A n, ev : EmitAndReturn(n, ev) => UNCHANGED <<patchSets, approved>>
    BY DEF EmitAndReturn
  <2>2. UNCHANGED <<patchSets, approved>>
    BY <1>6, <2>1 DEF StartEvaluation, BeginStage, ConcludePolicyStage, EvaluationCompleted,
                      EvaluationFailed
  <2>3. QED BY <2>2, UnchangedGuarded
<1>7. QED BY <1>3, <1>4, <1>5, <1>6 DEF EvaluatePolicy

(* The pushes and the pull request ask the gate. *)
LEMMA SandboxGuarded ==
  ASSUME TypeOK, SandboxValidation
  PROVE  GuardedWrites
<1> DEFINE i == Current("sandbox_validation")
           ps == patchSets[i]
<1>1. i \in PatchSetIds => ps \in PatchSet
  BY PatchSetElement
<1>2. CASE PushSandboxBranch
  <2> DEFINE row == [ps EXCEPT !.branch = Gate(TRUE, ps.branch)]
  <2>1. i \in PatchSetIds /\ Wrote(row) => approved \/ Wrote(ps)
    BY <1>1 DEF PatchSet, Wrote, Gate
  <2>2. SetPatchSet(i, row) /\ approved' = approved
    BY <1>2 DEF PushSandboxBranch
  <2> HIDE DEF row
  <2>3. QED BY <2>1, <2>2, SetPatchSetGuarded
<1>3. CASE RecordSandboxRun
  <2> DEFINE row(result) == [ps EXCEPT !.sandbox = ps.sandbox \cup {result}]
  <2>1. PICK result \in SandboxRuns \ {"invalid"} : SetPatchSet(i, row(result))
    BY <1>3 DEF RecordSandboxRun
  <2>2. i \in PatchSetIds /\ Wrote(row(result)) => Wrote(ps)
    BY <1>1 DEF PatchSet, Wrote
  <2> HIDE DEF row
  <2>3. QED BY <1>3, <2>1, <2>2, SetPatchSetGuarded DEF RecordSandboxRun
<1>4. CASE StartSandbox \/ SkipSandbox \/ SandboxUnset \/ ValidatePatches
           \/ ConcludeSandboxStage \/ SandboxCompleted \/ SandboxCaught
           \/ EmitFailureAndThrow("sandbox_validation")
  BY <1>4, UnchangedGuarded
  DEF StartSandbox, BeginStage, SkipSandbox, SandboxUnset, ValidatePatches,
      ConcludeSandboxStage, SandboxCompleted, SandboxCaught, EmitAndReturn,
      EmitFailureAndThrow
<1>5. QED BY <1>2, <1>3, <1>4 DEF SandboxValidation

LEMMA ApplyGuarded ==
  ASSUME TypeOK, ApplyPatches
  PROVE  GuardedWrites
<1> DEFINE i == Current("apply_patches")
           ps == patchSets[i]
<1>1. i \in PatchSetIds => ps \in PatchSet
  BY PatchSetElement
<1>2. CASE SkipApply \/ MarkApplied
  <2> DEFINE row == [ps EXCEPT !.status = "applied"]
  <2>1. i \in PatchSetIds /\ Wrote(row) => Wrote(ps)
    BY <1>1 DEF PatchSet, Wrote
  <2>2. SetPatchSet(i, row) /\ approved' = approved
    BY <1>2 DEF SkipApply, MarkApplied
  <2> HIDE DEF row
  <2>3. QED BY <2>1, <2>2, SetPatchSetGuarded
<1>3. CASE PushPrBranch
  <2> DEFINE row == [ps EXCEPT !.branch = Gate(TRUE, ps.branch)]
  <2>1. i \in PatchSetIds /\ Wrote(row) => approved \/ Wrote(ps)
    BY <1>1 DEF PatchSet, Wrote, Gate
  <2>2. SetPatchSet(i, row) /\ approved' = approved
    BY <1>3 DEF PushPrBranch
  <2> HIDE DEF row
  <2>3. QED BY <2>1, <2>2, SetPatchSetGuarded
<1>4. CASE OpenPullRequest
  <2> DEFINE opened == [ps EXCEPT !.prs = ps.prs + 1, !.pr = "open"]
             row == Gate(opened, ps)
  <2>1. Wrote(row) => approved \/ Wrote(ps)
    <3> HIDE DEF opened
    <3> QED BY DEF Gate
  <2>2. SetPatchSet(i, row) /\ approved' = approved
    BY <1>4 DEF OpenPullRequest
  <2> HIDE DEF row
  <2>3. QED BY <2>1, <2>2, SetPatchSetGuarded
<1>5. CASE RecordPullRequest
  <2> DEFINE row == [ps EXCEPT !.prRows = ps.prRows + 1]
  <2>1. i \in PatchSetIds /\ Wrote(row) => Wrote(ps)
    BY <1>1 DEF PatchSet, Wrote
  <2>2. SetPatchSet(i, row) /\ approved' = approved
    BY <1>5 DEF RecordPullRequest
  <2> HIDE DEF row
  <2>3. QED BY <2>1, <2>2, SetPatchSetGuarded
<1>6. CASE StartApply \/ SkipApplyReady \/ ConcludePrStage \/ ApplyCompleted \/ ApplyFailed
  BY <1>6, UnchangedGuarded
  DEF StartApply, BeginStage, SkipApplyReady, ConcludePrStage, ApplyCompleted, ApplyFailed,
      EmitAndReturn
<1>7. QED BY <1>2, <1>3, <1>4, <1>5, <1>6 DEF ApplyPatches

LEMMA MarkGuarded ==
  ASSUME TypeOK, NEW r \in Requests, MarkPatchSets(r)
  PROVE  GuardedWrites
<1> DEFINE sets == IF req[r].marked # {} THEN req[r].marked ELSE WithStatus("proposed")
           row(i) == IF i \in sets THEN [patchSets[i] EXCEPT !.status = req[r].mark]
                                   ELSE patchSets[i]
<1>1. patchSets' = [i \in PatchSetIds |-> row(i)] /\ approved' = approved
  BY DEF MarkPatchSets
<1>2. \A i \in PatchSetIds : Wrote(row(i)) => Wrote(patchSets[i])
  BY PatchSetElement DEF PatchSet, Wrote
<1> HIDE DEF row
<1>3. QED BY <1>1, <1>2 DEF GuardedWrites, PatchSetIds

LEMMA GitHubGuarded ==
  ASSUME TypeOK, GitHub
  PROVE  GuardedWrites
<1>1. ASSUME NEW i \in PatchSetIds, NEW merged \in BOOLEAN, PullRequestEvent(i, merged)
      PROVE  GuardedWrites
  <2> DEFINE ps == patchSets[i]
             row == [ps EXCEPT !.pr = "closed", !.merged = ps.merged \/ merged]
  <2>1. ps \in PatchSet
    BY PatchSetElement
  <2>2. Wrote(row) => Wrote(ps)
    BY <2>1 DEF PatchSet, Wrote
  <2>3. SetPatchSet(i, row) /\ approved' = approved
    BY <1>1 DEF PullRequestEvent, SetPatchSet, TypeOK, PatchSetIds
  <2> HIDE DEF row
  <2>4. QED BY <2>2, <2>3, SetPatchSetGuarded
<1>2. ASSUME NEW success \in BOOLEAN, CiEvent(success)
      PROVE  GuardedWrites
  BY <1>2, UnchangedGuarded DEF CiEvent
<1>3. QED BY <1>1, <1>2 DEF GitHub

(* Every step of the engine is guarded. *)
LEMMA NextGuarded ==
  ASSUME TypeOK, [Next]_vars
  PROVE  GuardedWrites
<1>1. ASSUME NEW o \in Orchestrators,
             HandleEvent(o) \/ FailEvent(o) \/ CrashOrchestrator(o)
      PROVE  GuardedWrites
  <2>1. UNCHANGED <<patchSets, approved>>
    BY <1>1 DEF HandleEvent, TakeEvent, DecideTransition, WriteTransitionResult, EnqueueJob,
                FinishEvent, FailEvent, CrashOrchestrator
  <2>2. QED BY <2>1, UnchangedGuarded
<1>2. ASSUME NEW r \in Requests, HandleRequest(r) \/ AbandonRequest(r)
      PROVE  GuardedWrites
  <2>1. MarkPatchSets(r) \/ (UNCHANGED patchSets /\ (approved => approved'))
    BY <1>2 DEF HandleRequest, CheckViolations, CreateApproval, CreateDecision,
                UpdateWorkflow, EmitEvent, AbandonRequest
  <2>2. QED BY <2>1, MarkGuarded, UnchangedGuarded
<1>3. ASSUME NEW n \in JobName,
             TakeJob(n) \/ FailBeforeTry(n) \/ CrashWorker(n)
               \/ (\E pcs, handler : CallFails(n, pcs, handler))
      PROVE  GuardedWrites
  <2>1. UNCHANGED <<patchSets, approved>>
    BY <1>3 DEF TakeJob, FailBeforeTry, CrashWorker, CallFails
  <2>2. QED BY <2>1, UnchangedGuarded
<1>4. ASSUME NEW n \in AnalysisJob, ProcessAnalysis(n)
      PROVE  GuardedWrites
  <2>1. \A ev : EmitAndReturn(n, ev) => UNCHANGED <<patchSets, approved>>
    BY DEF EmitAndReturn
  <2>2. UNCHANGED <<patchSets, approved>>
    BY <1>4, <2>1 DEF ProcessAnalysis, StartAnalysis, SaveArtifact, AnalysisReady,
                      AnalysisCompleted, AnalysisCaught, EmitFailureAndThrow
  <2>3. QED BY <2>2, UnchangedGuarded
<1>5. CASE WorkerStep
  BY <1>3, <1>4, <1>5, IngestGuarded, EvaluateGuarded, SandboxGuarded, ApplyGuarded
  DEF WorkerStep, FeasibilityAnalysis, ArchitectureAnalysis, TimelineAnalysis,
      SummaryAnalysis, AnalysisJob
<1>6. CASE WorkerFault
  BY <1>3, <1>6 DEF WorkerFault, AnalysisFault, IngestFault, EvaluationFault, SandboxFault,
                    ApplyFault, JobName, PatchJob
<1>7. ASSUME NEW r \in Requests, Client(r)
      PROVE  GuardedWrites
  <2>1. ASSUME NEW request, Begin(r, request)
        PROVE  GuardedWrites
    BY <2>1, UnchangedGuarded DEF Begin
  <2>2. QED
    BY <1>7, <2>1 DEF Client, ApproveStage, RejectStage, RequestStageChanges, RetryStage,
                      RegeneratePatches, Approve, Reject, RequestChanges, Cancel
<1>8. CASE UNCHANGED vars
  BY <1>8, UnchangedGuarded DEF vars
<1>9. QED
  BY <1>1, <1>2, <1>3, <1>5, <1>6, <1>7, <1>8, GitHubGuarded
  DEF Next, OrchestratorStep, RequestStep, ProcessorStep, ClientStep, FaultStep, CrashStep

LEMMA InitUnwritten ==
  ASSUME Init, PatchAssumption
  PROVE  WritesAreApproved
<1>1. \A v : /\ ~ Wrote(NewPatchSet(v))
             /\ ~ Wrote([NewPatchSet(v) EXCEPT !.rows = v, !.evaluated = TRUE])
  BY DEF Wrote, NewPatchSet
<1>2. \A i \in PatchSetIds : ~ Wrote(patchSets[i])
  <2>1. CASE Origin = "gated"
    <3>1. patchSets \in StartPatchSets
      BY <2>1 DEF Init, GatedInit
    <3>2. CASE patchSets = <<>>
      BY <3>2 DEF PatchSetIds
    <3>3. ASSUME NEW v, patchSets = [i \in 1..NumRepos |-> NewPatchSet(v[i])]
          PROVE  \A i \in PatchSetIds : ~ Wrote(patchSets[i])
      BY <1>1, <3>3 DEF PatchSetIds
    <3>4. ASSUME NEW v,
                 patchSets = [i \in 1..NumRepos |->
                               [NewPatchSet(v[i]) EXCEPT !.rows = v[i], !.evaluated = TRUE]]
          PROVE  \A i \in PatchSetIds : ~ Wrote(patchSets[i])
      BY <1>1, <3>4 DEF PatchSetIds
    <3>5. QED BY <3>1, <3>2, <3>3, <3>4 DEF StartPatchSets
  <2>2. CASE Origin # "gated"
    BY <2>2 DEF Init, LegacyInit, PatchSetIds
  <2>3. QED BY <2>1, <2>2
<1>3. QED BY <1>2 DEF WritesAreApproved, Wrote

(* No branch is pushed and no pull request opened for a workflow without an   *)
(* Approval row, whatever is retried, redelivered or interrupted.            *)
THEOREM WritesAreApprovedHolds == Spec => []WritesAreApproved
<1>1. Init => WritesAreApproved
  BY InitUnwritten, PatchAssumption
<1>2. TypeOK /\ WritesAreApproved /\ [Next]_vars => WritesAreApproved'
  BY NextGuarded, GuardedKeeps
<1>3. QED BY <1>1, <1>2, TypeCorrect, PTL DEF Spec
=============================================================================
