------------------------------ MODULE PatchProofs ------------------------------
(***************************************************************************)
(* What the engine guarantees about patch sets, about the states they take *)
(* a workflow through and about the work that is under way, for every      *)
(* value of the constants: ApplyingIsApproved, DoneIsEarned,               *)
(* AppliedHasPullRequest, ViolationsKept, ApplyingMeansAllDecided,         *)
(* NoPrForBlockedPatch, PolicyApprovalIsClean and PendingHasWork of        *)
(* PipelineSafety.                                                         *)
(*                                                                         *)
(* A state is reached by way of values in flight, read earlier: what an    *)
(* orchestrator saw and decided, the row a request will write, the event   *)
(* it will emit, the events in the queue.  RoadInvariant says of each what *)
(* stands behind it.  What a patch set's row says depends on how far the   *)
(* processor got that works on it, and on the processor's job naming a set *)
(* that exists: JobsNameSets, ApplyInHand and JudgedInHand.                *)
(*                                                                         *)
(* What a verdict decides depends on how far the workflow is: Flow says    *)
(* which events, states and jobs are on their way.  LegacyInvariant and    *)
(* LateInvariant are it for the legacy flow and for a gated workflow from  *)
(* the policy stage on, with what the verdicts are worth there, and        *)
(* PendingInvariant follows the work that a pending stage waits for.       *)
(***************************************************************************)
EXTENDS GateProofs

(* What is behind a state, and behind an event that leads to one.             *)
SomeMerged == \E i \in PatchSetIds : patchSets[i].merged
Earned == Approvals = ValidStages \/ SomeMerged
StateBehind(s) ==
  /\ s \in {"APPLYING_PATCHES", "PR_OPEN"} => approved
  /\ s = "DONE" => Earned
  /\ s # "VERIFYING_CI"
EventBehind(ev) ==
  /\ ev.type = "E_APPROVAL_RECORDED" => approved
  /\ ev.type = "E_PR_MERGED" => SomeMerged

BehindEvents == {q \in QueuedEvent : EventBehind(q.ev)}
QueueBehind == orchQ \in Seq(BehindEvents)
OrchestratorBehind(m) == StateBehind(m.seen) /\ StateBehind(m.next) /\ EventBehind(m.ev)

(* The row of a request that completes the workflow is written after its      *)
(* decision; the approval it announces is created before it is announced.     *)
RequestBehind(q) ==
  /\ q.row.stage = "done" \/ StateBehind(q.row.state)
  /\ q.row.stage = "done" => q.row.state = "DONE"
  /\ q.ev.type # "E_PR_MERGED"
  /\ q.ev.type = "E_APPROVAL_RECORDED" => approved \/ "approval" \in q.todo

RoadInvariant ==
  /\ StateBehind(state) /\ QueueBehind
  /\ \A o \in Orchestrators : OrchestratorBehind(orch[o])
  /\ \A r \in Requests : RequestBehind(req[r])

(* Jobs on patch sets name sets that exist.                                   *)
Naming(jobs) == \A j \in jobs : j.name \in PatchJob => j.patchSet \in PatchSetIds
NamingJobs == {q \in QueuedJob : q.patchSet \in PatchSetIds}
JobsNameSets ==
  /\ \A n \in PatchJob : jobQ[n] \in Seq(NamingJobs) /\ (At(n, "idle") \/ Current(n) \in PatchSetIds)
  /\ \A o \in Orchestrators : Naming(orch[o].jobs)

(* What the apply processor holds.                                            *)
ApplyInHand ==
  LET n == "apply_patches" set == patchSets[Current(n)] IN
  /\ At(n, "record") => set.prRows < set.prs
  /\ At(n, "applied") => set.prRows > 0
  /\ worker[n].pc \in {"skip", "skipReady"} => SkipPr
ApplyInvariant == JobsNameSets /\ ApplyInHand /\ AppliedHasPullRequest

(* How often the evaluation jobs have stalled.                                *)
StalledJobs == {q \in QueuedJob : q.stalls <= crashes}
StallsCounted ==
  LET n == "evaluate_policy" IN worker[n].stalls <= crashes /\ jobQ[n] \in Seq(StalledJobs)

(* What the evaluation processor holds, while no call failed and no job can   *)
(* have stalled once too often.                                               *)
Unstalled == faults = 0 /\ crashes <= MaxStalledCount
JudgedInHand ==
  LET n == "evaluate_policy" set == patchSets[Current(n)] IN
  /\ worker[n].pc \in {"event", "conclude", "emit"} => set.rows = set.verdict
  /\ At(n, "idle") => Current(n) = NoPatchSet
  /\ ~ At(n, "fail")
RowsKeptOrRedone ==
  \A i \in PatchSetIds :
    patchSets[i].evaluated /\ patchSets[i].rows # patchSets[i].verdict => Reevaluating(i)
VerdictInvariant ==
  JobsNameSets /\ StallsCounted /\ (Unstalled => JudgedInHand /\ RowsKeptOrRedone)

-----------------------------------------------------------------------------
(* Who writes patch sets, and what *)

EvaluationWrites == ClearViolations \/ RecordViolations \/ RecordEvaluation
SandboxWrites == PushSandboxBranch \/ RecordSandboxRun
ApplyWrites == SkipApply \/ MarkApplied \/ PushPrBranch \/ OpenPullRequest \/ RecordPullRequest

LEMMA PatchSetWriters ==
  ASSUME [Next]_vars
  PROVE  \/ UNCHANGED patchSets \/ GeneratePatchSet
         \/ EvaluationWrites \/ SandboxWrites \/ ApplyWrites
         \/ \E r \in Requests : MarkPatchSets(r)
         \/ \E i \in PatchSetIds, merged \in BOOLEAN : PullRequestEvent(i, merged)
<1>a. \A n, ev : EmitAndReturn(n, ev) => UNCHANGED patchSets BY DEF EmitAndReturn
<1>b. \A n : EmitFailureAndThrow(n) => UNCHANGED patchSets BY DEF EmitFailureAndThrow
<1>c. \A n, pcs, handler : CallFails(n, pcs, handler) => UNCHANGED patchSets BY DEF CallFails
<1>1. CASE \E o \in Orchestrators : HandleEvent(o) \/ FailEvent(o) \/ CrashOrchestrator(o)
  BY <1>1 DEF HandleEvent, TakeEvent, DecideTransition, WriteTransitionResult, EnqueueJob,
              FinishEvent, FailEvent, CrashOrchestrator
<1>2. CASE \E r \in Requests : HandleRequest(r) \/ AbandonRequest(r)
  BY <1>2 DEF HandleRequest, CheckViolations, CreateApproval, CreateDecision, UpdateWorkflow,
              EmitEvent, AbandonRequest
<1>3. CASE \E n \in JobName : TakeJob(n) \/ FailBeforeTry(n) \/ CrashWorker(n)
  BY <1>3 DEF TakeJob, FailBeforeTry, CrashWorker
<1>4. CASE \E n \in AnalysisJob : ProcessAnalysis(n)
  BY <1>4, <1>a, <1>b DEF ProcessAnalysis, StartAnalysis, SaveArtifact, AnalysisReady,
                          AnalysisCompleted, AnalysisCaught
<1>5. CASE IngestContext
  BY <1>5, <1>a, <1>b DEF IngestContext, StartIngest, IngestReady, IngestCompleted, IngestCaught
<1>6. CASE EvaluatePolicy
  BY <1>6, <1>a DEF EvaluatePolicy, EvaluationWrites, StartEvaluation, BeginStage, ConcludePolicyStage,
                    EvaluationCompleted, EvaluationFailed
<1>7. CASE SandboxValidation
  BY <1>7, <1>a, <1>b DEF SandboxValidation, SandboxWrites, StartSandbox, BeginStage, SkipSandbox, SandboxUnset,
                          ValidatePatches, ConcludeSandboxStage, SandboxCompleted, SandboxCaught
<1>8. CASE ApplyPatches
  BY <1>8, <1>a DEF ApplyPatches, ApplyWrites, StartApply, BeginStage, SkipApplyReady, ConcludePrStage,
                    ApplyCompleted, ApplyFailed
<1>9. CASE WorkerStep
  BY <1>9, <1>3, <1>4, <1>5, <1>6, <1>7, <1>8
  DEF WorkerStep, FeasibilityAnalysis, ArchitectureAnalysis, TimelineAnalysis, SummaryAnalysis, AnalysisJob
<1>10. CASE WorkerFault
  BY <1>10, <1>3, <1>c DEF WorkerFault, AnalysisFault, IngestFault, EvaluationFault, SandboxFault, ApplyFault
<1>11. CASE \E r \in Requests : Client(r)
  <2>1. \A r, request : Begin(r, request) => UNCHANGED patchSets BY DEF Begin
  <2> QED BY <1>11, <2>1 DEF Client, ApproveStage, RejectStage, RequestStageChanges, RetryStage,
                             RegeneratePatches, Approve, Reject, RequestChanges, Cancel
<1>12. CASE GitHub BY <1>12 DEF GitHub, CiEvent
<1>13. CASE UNCHANGED vars BY <1>13 DEF vars
<1> QED
  BY <1>1, <1>2, <1>3, <1>9, <1>10, <1>11, <1>12, <1>13
  DEF Next, OrchestratorStep, RequestStep, ProcessorStep, ClientStep, FaultStep, CrashStep

LEMMA SetPatchSetRow ==
  ASSUME TypeOK, NEW i, NEW row, SetPatchSet(i, row)
  PROVE  /\ PatchSetIds' = PatchSetIds
         /\ \A k \in PatchSetIds : patchSets'[k] = IF k = i THEN row ELSE patchSets[k]
BY LenProperties, SeqDef DEF SetPatchSet, PatchSetIds, TypeOK

(* A row as far as policy is concerned, and as far as pull requests are.      *)
SameJudgement(new, old) == new.verdict = old.verdict /\ new.rows = old.rows /\ new.evaluated = old.evaluated
SamePullRequests(new, old) ==
  new.prs = old.prs /\ new.prRows = old.prRows /\ (new.status = "applied" => old.status = "applied")
SameWords(new, old) == new.merged = old.merged /\ SameJudgement(new, old) /\ SamePullRequests(new, old)

(* Rows are never deleted, new ones are blank, a merge and a verdict stay,    *)
(* only the evaluation writes judgements, and only the apply job applies.     *)
RowsKept ==
  /\ PatchSetIds \subseteq PatchSetIds'
  /\ \A i \in PatchSetIds' \ PatchSetIds : \E v : patchSets'[i] = NewPatchSet(v)
  /\ \A i \in PatchSetIds :
       /\ patchSets[i].merged => patchSets'[i].merged
       /\ EvaluationWrites \/ SameJudgement(patchSets'[i], patchSets[i])
       /\ ApplyWrites \/ SamePullRequests(patchSets'[i], patchSets[i])

LEMMA SetRowKept ==
  ASSUME TypeOK, NEW i, NEW row, SetPatchSet(i, row),
         i \in PatchSetIds =>
           /\ patchSets[i].merged => row.merged
           /\ EvaluationWrites \/ SameJudgement(row, patchSets[i])
           /\ ApplyWrites \/ SamePullRequests(row, patchSets[i])
  PROVE  RowsKept
BY SetPatchSetRow DEF RowsKept, SameJudgement, SamePullRequests

LEMMA NextKeepsRows ==
  ASSUME TypeOK, [Next]_vars
  PROVE  RowsKept
<1>a. \A i \in PatchSetIds : patchSets[i] \in PatchSet BY PatchSetElement
<1>b. req \in [Requests -> RequestRecord] BY DEF TypeOK
<1>1. CASE UNCHANGED patchSets
  BY <1>1 DEF RowsKept, PatchSetIds, SameJudgement, SamePullRequests
<1>2. CASE GeneratePatchSet
  <2>1. PICK v \in Verdicts : patchSets' = Append(patchSets, NewPatchSet(v)) BY <1>2 DEF GeneratePatchSet
  <2> DEFINE new == NewPatchSet(v)
  <2>2. patchSets' = Append(patchSets, new) BY <2>1
  <2> HIDE DEF new
  <2>3. PatchSetIds \subseteq PatchSetIds' /\ \A i \in PatchSetIds : patchSets'[i] = patchSets[i]
    BY <2>2, LenProperties DEF PatchSetIds, TypeOK
  <2>4. \A i \in PatchSetIds' \ PatchSetIds : patchSets'[i] = new
    BY <2>2, LenProperties DEF PatchSetIds, TypeOK
  <2> QED BY <2>3, <2>4 DEF new, RowsKept, SameJudgement, SamePullRequests
<1>3. CASE EvaluationWrites
  <2> DEFINE i == Current("evaluate_policy")
  <2>1. CASE ClearViolations
    <3> DEFINE row == [patchSets[i] EXCEPT !.rows = "none"]
    <3>1. i \in PatchSetIds => row.merged = patchSets[i].merged /\ SamePullRequests(row, patchSets[i])
      BY <1>a DEF PatchSet, SamePullRequests
    <3>2. SetPatchSet(i, row) BY <2>1 DEF ClearViolations
    <3> HIDE DEF row
    <3> QED BY <1>3, <3>1, <3>2, SetRowKept
  <2>2. CASE RecordViolations
    <3> DEFINE row == [patchSets[i] EXCEPT !.rows = patchSets[i].verdict]
    <3>1. i \in PatchSetIds => row.merged = patchSets[i].merged /\ SamePullRequests(row, patchSets[i])
      BY <1>a DEF PatchSet, SamePullRequests
    <3>2. SetPatchSet(i, row) BY <2>2 DEF RecordViolations
    <3> HIDE DEF row
    <3> QED BY <1>3, <3>1, <3>2, SetRowKept
  <2>3. CASE RecordEvaluation
    <3> DEFINE row == [patchSets[i] EXCEPT !.evaluated = TRUE]
    <3>1. i \in PatchSetIds => row.merged = patchSets[i].merged /\ SamePullRequests(row, patchSets[i])
      BY <1>a DEF PatchSet, SamePullRequests
    <3>2. SetPatchSet(i, row) BY <2>3 DEF RecordEvaluation
    <3> HIDE DEF row
    <3> QED BY <1>3, <3>1, <3>2, SetRowKept
  <2> QED BY <1>3, <2>1, <2>2, <2>3 DEF EvaluationWrites
<1>4. CASE SandboxWrites
  <2> DEFINE i == Current("sandbox_validation")
  <2>1. CASE PushSandboxBranch
    <3> DEFINE row == [patchSets[i] EXCEPT !.branch = Gate(TRUE, patchSets[i].branch)]
    <3>1. i \in PatchSetIds => SameWords(row, patchSets[i])
      BY <1>a DEF PatchSet, SameWords, SamePullRequests, SameJudgement
    <3>2. SetPatchSet(i, row) BY <2>1 DEF PushSandboxBranch
    <3> HIDE DEF row
    <3> QED BY <3>1, <3>2, SetRowKept DEF SameWords
  <2>2. CASE RecordSandboxRun
    <3> DEFINE row(result) == [patchSets[i] EXCEPT !.sandbox = patchSets[i].sandbox \cup {result}]
    <3>1. PICK result \in SandboxRuns \ {"invalid"} : SetPatchSet(i, row(result)) BY <2>2 DEF RecordSandboxRun
    <3>2. i \in PatchSetIds => SameWords(row(result), patchSets[i])
      BY <1>a DEF PatchSet, SameWords, SamePullRequests, SameJudgement
    <3> HIDE DEF row
    <3> QED BY <3>1, <3>2, SetRowKept DEF SameWords
  <2> QED BY <1>4, <2>1, <2>2 DEF SandboxWrites
<1>5. CASE ApplyWrites
  <2> DEFINE i == Current("apply_patches")
  <2>1. CASE SkipApply \/ MarkApplied
    <3> DEFINE row == [patchSets[i] EXCEPT !.status = "applied"]
    <3>1. i \in PatchSetIds => row.merged = patchSets[i].merged /\ SameJudgement(row, patchSets[i])
      BY <1>a DEF PatchSet, SameJudgement
    <3>2. SetPatchSet(i, row) BY <2>1 DEF SkipApply, MarkApplied
    <3> HIDE DEF row
    <3> QED BY <1>5, <3>1, <3>2, SetRowKept
  <2>2. CASE PushPrBranch
    <3> DEFINE row == [patchSets[i] EXCEPT !.branch = Gate(TRUE, patchSets[i].branch)]
    <3>1. i \in PatchSetIds => row.merged = patchSets[i].merged /\ SameJudgement(row, patchSets[i])
      BY <1>a DEF PatchSet, SameJudgement
    <3>2. SetPatchSet(i, row) BY <2>2 DEF PushPrBranch
    <3> HIDE DEF row
    <3> QED BY <1>5, <3>1, <3>2, SetRowKept
  <2>3. CASE OpenPullRequest
    <3> DEFINE opened == [patchSets[i] EXCEPT !.prs = patchSets[i].prs + 1, !.pr = "open"]
               row == Gate(opened, patchSets[i])
    <3>1. i \in PatchSetIds => opened.merged = patchSets[i].merged /\ SameJudgement(opened, patchSets[i])
      BY <1>a DEF PatchSet, SameJudgement
    <3>2. SetPatchSet(i, row) BY <2>3 DEF OpenPullRequest
    <3>3. row = opened \/ row = patchSets[i] BY DEF Gate
    <3> HIDE DEF row, opened
    <3> QED BY <1>5, <3>1, <3>2, <3>3, SetRowKept DEF SameJudgement
  <2>4. CASE RecordPullRequest
    <3> DEFINE row == [patchSets[i] EXCEPT !.prRows = patchSets[i].prRows + 1]
    <3>1. i \in PatchSetIds => row.merged = patchSets[i].merged /\ SameJudgement(row, patchSets[i])
      BY <1>a DEF PatchSet, SameJudgement
    <3>2. SetPatchSet(i, row) BY <2>4 DEF RecordPullRequest
    <3> HIDE DEF row
    <3> QED BY <1>5, <3>1, <3>2, SetRowKept
  <2> QED BY <1>5, <2>1, <2>2, <2>3, <2>4 DEF ApplyWrites
<1>6. ASSUME NEW r \in Requests, MarkPatchSets(r) PROVE RowsKept
  <2> DEFINE sets == IF req[r].marked # {} THEN req[r].marked ELSE WithStatus("proposed")
             row(i) == IF i \in sets THEN [patchSets[i] EXCEPT !.status = req[r].mark] ELSE patchSets[i]
  <2>1. patchSets' = [i \in PatchSetIds |-> row(i)] BY <1>6 DEF MarkPatchSets
  <2>2. req[r].mark # "applied" BY <1>b DEF RequestRecord
  <2>3. \A i \in PatchSetIds : SameWords(row(i), patchSets[i])
    BY <1>a, <2>2 DEF PatchSet, SameWords, SamePullRequests, SameJudgement
  <2> HIDE DEF row
  <2> QED BY <2>1, <2>3 DEF RowsKept, PatchSetIds, SameWords
<1>7. ASSUME NEW i \in PatchSetIds, NEW merged \in BOOLEAN, PullRequestEvent(i, merged) PROVE RowsKept
  <2> DEFINE row == [patchSets[i] EXCEPT !.pr = "closed", !.merged = patchSets[i].merged \/ merged]
  <2>1. /\ patchSets[i].merged => row.merged
        /\ SamePullRequests(row, patchSets[i]) /\ SameJudgement(row, patchSets[i])
    BY <1>a DEF PatchSet, SamePullRequests, SameJudgement
  <2>2. SetPatchSet(i, row) BY <1>7 DEF PullRequestEvent, SetPatchSet, TypeOK, PatchSetIds
  <2> HIDE DEF row
  <2> QED BY <2>1, <2>2, SetRowKept
<1> QED BY <1>1, <1>2, <1>3, <1>4, <1>5, <1>6, <1>7, PatchSetWriters

-----------------------------------------------------------------------------
(* The roads to APPLYING_PATCHES, PR_OPEN and DONE *)

(* What a state or an event has behind it stays behind it. *)
WitnessesKept ==
  /\ approved => approved'
  /\ SomeMerged => SomeMerged'
  /\ Earned => Earned'

LEMMA NextKeepsWitnesses ==
  ASSUME TypeOK, PatchAssumption, [Next]_vars
  PROVE  WitnessesKept
<1>1. approved => approved'
  BY NextGuarded DEF GuardedWrites
<1>2. SomeMerged => SomeMerged'
  BY NextKeepsRows DEF RowsKept, SomeMerged
<1>3. decisions \subseteq decisions'
  BY StageOrDecisionWrites DEF CreateDecision, UpdateWorkflow
<1>4. Approvals \subseteq Approvals' /\ Approvals' \subseteq ValidStages
  BY <1>3, ApprovalsGrow DEF Approvals
<1> QED BY <1>1, <1>2, <1>4 DEF WitnessesKept, Earned

LEMMA BehindGrows ==
  ASSUME WitnessesKept
  PROVE  /\ \A s : StateBehind(s) => StateBehind(s)'
         /\ \A ev : EventBehind(ev) => EventBehind(ev)'
         /\ BehindEvents \subseteq BehindEvents'
BY DEF WitnessesKept, StateBehind, EventBehind, BehindEvents

LEMMA EventsStay ==
  ASSUME QueueBehind, WitnessesKept
  PROVE  orchQ \in Seq(BehindEvents')
<1>1. orchQ \in [1..Len(orchQ) -> BehindEvents] /\ Len(orchQ) \in Nat
  BY LenProperties, SeqDef DEF QueueBehind
<1>2. orchQ \in [1..Len(orchQ) -> BehindEvents'] BY <1>1, BehindGrows
<1> QED BY <1>1, <1>2, SeqDef

LEMMA EventsGrow ==
  ASSUME QueueBehind, WitnessesKept, NEW entry \in BehindEvents', orchQ' = Append(orchQ, entry)
  PROVE  QueueBehind'
<1>1. orchQ \in Seq(BehindEvents') BY EventsStay
<1>2. orchQ' \in Seq(BehindEvents') BY <1>1, AppendProperties
<1> QED BY <1>2 DEF QueueBehind

LEMMA EventsUnchanged ==
  ASSUME QueueBehind, WitnessesKept, orchQ' = orchQ
  PROVE  QueueBehind'
BY EventsStay DEF QueueBehind

LEMMA StateStays ==
  ASSUME StateBehind(state), WitnessesKept, state' = state
  PROVE  StateBehind(state)'
BY DEF StateBehind, WitnessesKept

LEMMA HandlersStay ==
  ASSUME RoadInvariant, WitnessesKept
  PROVE  /\ UNCHANGED orch => \A o \in Orchestrators : OrchestratorBehind(orch[o])'
         /\ UNCHANGED req => \A r \in Requests : RequestBehind(req[r])'
BY DEF RoadInvariant, OrchestratorBehind, RequestBehind, StateBehind, EventBehind, WitnessesKept

(* transition() leads to one of these states only from a state or on an event *)
(* that has behind it what the state needs.                                  *)
LEMMA TransitionBehind ==
  ASSUME NEW s, NEW ev, NEW c, StateBehind(s), EventBehind(ev)
  PROVE  StateBehind(Transition(s, ev, c).next)
<1> DEFINE Ok(result) == StateBehind(result.next)
           Needy == {"APPLYING_PATCHES", "PR_OPEN", "DONE", "VERIFYING_CI"}
<1>1. \A t, jobs : t \notin Needy => Ok(Result(t, jobs)) BY DEF Result, StateBehind
<1>2. \A jobs : Ok(Result(s, jobs)) /\ Ok(Stay(s)) BY DEF Result, Stay
<1>3. approved => \A jobs : Ok(Result("APPLYING_PATCHES", jobs)) /\ Ok(Result("PR_OPEN", jobs))
  BY DEF Result, StateBehind
<1>4. ev.type = "E_PR_MERGED" => Ok(Result("DONE", {})) BY DEF Result, StateBehind, EventBehind, Earned
<1> HIDE DEF Ok
<1>5. Ok(OnCreated(s, c)) BY <1>1, <1>2 DEF OnCreated
<1>6. Ok(OnIngested(ev, c)) /\ Ok(OnPatchesProposed(ev, c))
  BY <1>1 DEF OnIngested, OnPatchesProposed, Stay
<1>7. ev.type \in ReviewEvents => Ok(OnWaiting(ev, c))
  BY <1>1, <1>3 DEF OnWaiting, OnApprovalRecorded, ReviewEvents, Stay, EventBehind
<1>8. s = "APPLYING_PATCHES" => Ok(OnApplying(ev, c))
  BY <1>1, <1>2, <1>3 DEF OnApplying, StateBehind
<1>9. s = "PR_OPEN" /\ ev.type \in PrEvents => Ok(OnPrOpen(ev))
  BY <1>1, <1>2, <1>4 DEF OnPrOpen, PrEvents
<1>10. Ok(OnAnyState(s, ev, c)) BY <1>1, <1>2 DEF OnAnyState
<1>11. s # "VERIFYING_CI" BY DEF StateBehind
<1>12. Ok(Transition(s, ev, c)) BY <1>2, <1>5, <1>6, <1>7, <1>8, <1>9, <1>10, <1>11 DEF Transition
<1> QED BY <1>12 DEF Ok

LEMMA OrchestratorRoad ==
  ASSUME TypeOK, RoadInvariant, WitnessesKept, NEW o \in Orchestrators,
         HandleEvent(o) \/ FailEvent(o) \/ CrashOrchestrator(o), UNCHANGED req
  PROVE  RoadInvariant'
<1>a. StateBehind(state) /\ QueueBehind /\ OrchestratorBehind(orch[o]) BY DEF RoadInvariant
<1>b. \A r \in Requests : RequestBehind(req[r])' BY HandlersStay
<1>c. ASSUME NEW m, orch' = [orch EXCEPT ![o] = m],
             StateBehind(m.seen), StateBehind(m.next), EventBehind(m.ev)
      PROVE  \A p \in Orchestrators : OrchestratorBehind(orch[p])'
  <2>1. \A p \in Orchestrators : orch'[p] = IF p = o THEN m ELSE orch[p] BY <1>c DEF TypeOK
  <2> QED BY <1>c, <2>1 DEF RoadInvariant, OrchestratorBehind, StateBehind, EventBehind, WitnessesKept
<1>d. StateBehind(IdleOrch.seen) /\ StateBehind(IdleOrch.next) /\ EventBehind(IdleOrch.ev)
  BY EventKinds DEF IdleOrch, NoEvent, StateBehind, EventBehind
<1>1. CASE TakeEvent(o)
  <2>1. PICK i \in Takeable(orchQ) :
          /\ orchQ' = Without(orchQ, i)
          /\ orch' = [orch EXCEPT ![o] =
               [IdleOrch EXCEPT !.pc = "decide", !.ev = orchQ[i].ev,
                                !.left = orchQ[i].left, !.stalls = orchQ[i].stalls, !.seen = state]]
    BY <1>1 DEF TakeEvent
  <2> DEFINE m == [IdleOrch EXCEPT !.pc = "decide", !.ev = orchQ[i].ev,
                                   !.left = orchQ[i].left, !.stalls = orchQ[i].stalls, !.seen = state]
  <2>2. orchQ[i] \in BehindEvents /\ Without(orchQ, i) \in Seq(BehindEvents)
    BY <1>a, <2>1, TakeableInDomain, QueueElement, WithoutType DEF QueueBehind
  <2>3. m.seen = state /\ m.next = IdleOrch.next /\ m.ev = orchQ[i].ev BY DEF IdleOrch
  <2>4. BehindEvents' = BehindEvents
    BY <1>1 DEF TakeEvent, BehindEvents, EventBehind, SomeMerged, PatchSetIds
  <2>5. QueueBehind' BY <2>1, <2>2, <2>4 DEF QueueBehind
  <2>6. orch' = [orch EXCEPT ![o] = m] BY <2>1
  <2>7. state' = state BY <1>1 DEF TakeEvent, rowVars
  <2>8. EventBehind(orchQ[i].ev) BY <2>2 DEF BehindEvents
  <2> HIDE DEF m
  <2>9. \A p \in Orchestrators : OrchestratorBehind(orch[p])'
    BY <1>a, <1>c, <1>d, <2>3, <2>6, <2>8
  <2> QED BY <1>a, <1>b, <2>5, <2>7, <2>9, StateStays DEF RoadInvariant
<1>2. CASE DecideTransition(o)
  <2> DEFINE res == Transition(orch[o].seen, orch[o].ev, TransitionContext)
             m == [orch[o] EXCEPT !.pc = "commit", !.next = res.next, !.jobs = res.jobs]
  <2>1. StateBehind(res.next) BY <1>a, TransitionBehind DEF OrchestratorBehind
  <2> HIDE DEF res
  <2>2. m.seen = orch[o].seen /\ m.next = res.next /\ m.ev = orch[o].ev BY DEF TypeOK, OrchRecord
  <2>3. orch' = [orch EXCEPT ![o] = m] BY <1>2 DEF DecideTransition, TypeOK, res
  <2>4. UNCHANGED <<state, orchQ>> BY <1>2 DEF DecideTransition, rowVars, queueVars
  <2> HIDE DEF m
  <2>5. \A p \in Orchestrators : OrchestratorBehind(orch[p])'
    BY <1>a, <1>c, <2>1, <2>2, <2>3 DEF OrchestratorBehind
  <2> QED BY <1>a, <1>b, <2>4, <2>5, StateStays, EventsUnchanged DEF RoadInvariant
<1>3. CASE WriteTransitionResult(o) \/ EnqueueJob(o)
  <2>1. /\ \A p \in Orchestrators : /\ orch'[p].seen = orch[p].seen /\ orch'[p].next = orch[p].next
                                    /\ orch'[p].ev = orch[p].ev
        /\ orchQ' = orchQ
    <3>1. CASE WriteTransitionResult(o)
      BY <3>1 DEF WriteTransitionResult, TypeOK, OrchRecord, queueVars
    <3>2. CASE EnqueueJob(o)
      <4>1. PICK j \in orch[o].jobs : orch' = [orch EXCEPT ![o].jobs = @ \ {j}]
        BY <3>2 DEF EnqueueJob
      <4> QED BY <3>2, <4>1 DEF EnqueueJob, TypeOK, OrchRecord
    <3> QED BY <1>3, <3>1, <3>2
  <2>2. state' = state \/ state' = orch[o].next
    BY <1>3 DEF WriteTransitionResult, EnqueueJob, rowVars
  <2>3. StateBehind(state)'
    BY <1>a, <2>2 DEF OrchestratorBehind, StateBehind, WitnessesKept
  <2>4. \A p \in Orchestrators : OrchestratorBehind(orch[p])'
    BY <2>1 DEF RoadInvariant, OrchestratorBehind, StateBehind, EventBehind, WitnessesKept
  <2> QED BY <1>a, <1>b, <2>1, <2>3, <2>4, EventsUnchanged DEF RoadInvariant
<1>4. CASE FinishEvent(o) \/ FailEvent(o) \/ CrashOrchestrator(o)
  <2>1. orch' = [orch EXCEPT ![o] = IdleOrch] /\ state' = state
    BY <1>4 DEF FinishEvent, FailEvent, CrashOrchestrator, rowVars
  <2>2. \A p \in Orchestrators : OrchestratorBehind(orch[p])' BY <1>c, <1>d, <2>1
  <2>3. orch[o].ev \in Event /\ orch[o].left \in Nat /\ orch[o].stalls \in Nat BY DEF TypeOK, OrchRecord
  <2>4. QueueBehind'
    <3>1. ASSUME NEW left \in Nat, NEW stalls \in Nat,
                 orchQ' = Append(orchQ, [ev |-> orch[o].ev, left |-> left, fresh |-> FALSE, stalls |-> stalls])
          PROVE  QueueBehind'
      <4> DEFINE entry == [ev |-> orch[o].ev, left |-> left, fresh |-> FALSE, stalls |-> stalls]
      <4>1. entry \in BehindEvents'
        BY <1>a, <2>3 DEF OrchestratorBehind, EventBehind, WitnessesKept, BehindEvents, QueuedEvent
      <4>2. orchQ' = Append(orchQ, entry) BY <3>1
      <4> HIDE DEF entry
      <4> QED BY <1>a, <4>1, <4>2, EventsGrow
    <3> QED BY <1>4, <1>a, <3>1, EventOfferedAgain, EventsUnchanged
  <2> QED BY <1>a, <1>b, <2>1, <2>2, <2>4, StateStays DEF RoadInvariant
<1> QED BY <1>1, <1>2, <1>3, <1>4 DEF HandleEvent

LEMMA ProcessorRoad ==
  ASSUME AttemptsAssumption, RoadInvariant, WitnessesKept, UNCHANGED <<orch, req>>,
         NEW n \in JobName, ProcessorEffect(n)
  PROVE  RoadInvariant'
<1>1. StateBehind(state) /\ QueueBehind /\ state' = state BY DEF RoadInvariant, ProcessorEffect
<1>2. QueueBehind'
  <2>1. ASSUME NEW ev \in Event, ev.type \in ProcessorEvents,
               orchQ' = Append(orchQ, [ev |-> ev, left |-> OrchAttempts, fresh |-> TRUE, stalls |-> 0])
        PROVE  QueueBehind'
    <3> DEFINE entry == [ev |-> ev, left |-> OrchAttempts, fresh |-> TRUE, stalls |-> 0]
    <3>1. entry \in BehindEvents'
      BY <2>1 DEF ProcessorEvents, BehindEvents, EventBehind, QueuedEvent, AttemptsAssumption
    <3>2. orchQ' = Append(orchQ, entry) BY <2>1
    <3> HIDE DEF entry
    <3> QED BY <1>1, <3>1, <3>2, EventsGrow
  <2> QED BY <1>1, <2>1, EventsUnchanged DEF ProcessorEffect
<1> QED BY <1>1, <1>2, HandlersStay, StateStays DEF RoadInvariant

(* Requests *)

LEMMA IdleRequestBehind == RequestBehind(IdleRequest)
BY EventKinds DEF RequestBehind, IdleRequest, NoRow, Row, Keep, StateBehind

LEMMA BeginRoad ==
  ASSUME TypeOK, RoadInvariant, WitnessesKept, UNCHANGED orch,
         NEW r \in Requests, NEW request, Begin(r, request), RequestBehind(request)
  PROVE  RoadInvariant'
<1>1. StateBehind(state) /\ QueueBehind BY DEF RoadInvariant
<1>2. UNCHANGED <<state, orchQ>> BY DEF Begin, rowVars, queueVars
<1>3. \A q \in Requests : RequestBehind(req[q])'
  <2>1. \A q \in Requests : req'[q] = IF q = r THEN request ELSE req[q] BY DEF Begin, TypeOK
  <2> QED BY <2>1 DEF RoadInvariant, RequestBehind, StateBehind, WitnessesKept
<1> QED BY <1>1, <1>2, <1>3, HandlersStay, StateStays, EventsUnchanged DEF RoadInvariant

LEMMA ClientRoad ==
  ASSUME TypeOK, RoadInvariant, WitnessesKept, UNCHANGED orch, NEW r \in Requests, Client(r)
  PROVE  RoadInvariant'
<1>1. StateBehind(state) BY DEF RoadInvariant
<1>2. ASSUME NEW request, Begin(r, request), request.row.stage # "done",
             StateBehind(request.row.state), request.ev.type # "E_PR_MERGED",
             request.ev.type = "E_APPROVAL_RECORDED" => "approval" \in request.todo
      PROVE  RoadInvariant'
  <2>1. RequestBehind(request) BY <1>2 DEF RequestBehind
  <2> QED BY <1>2, <2>1, BeginRoad
<1>3. CASE ApproveStage(r)
  <2> DEFINE request == [IdleRequest EXCEPT
       !.todo = {"decide", "update", "emit"} \cup (IF stage = "policy" THEN {"check"} ELSE {}),
       !.stage = stage, !.decision = "approve",
       !.row = ApprovedRow(stage, state),
       !.ev = OfStage("E_STAGE_APPROVED", stage)]
  <2>1. request.row = ApprovedRow(stage, state) /\ request.ev.type = "E_STAGE_APPROVED"
    BY EventKinds DEF IdleRequest
  <2>2. Begin(r, request) BY <1>3 DEF ApproveStage
  <2> HIDE DEF request
  <2>3. RequestBehind(request) BY <1>1, <2>1 DEF RequestBehind, ApprovedRow, Row
  <2> QED BY <2>2, <2>3, BeginRoad
<1>4. CASE RejectStage(r)
  <2> DEFINE request == [IdleRequest EXCEPT
       !.todo = {"decide", "update", "emit"},
       !.stage = stage, !.decision = "reject",
       !.row = Row("REJECTED", Keep, "rejected"),
       !.ev = OfStage("E_STAGE_REJECTED", stage)]
  <2>1. /\ request.row = Row("REJECTED", Keep, "rejected")
        /\ request.ev.type = "E_STAGE_REJECTED"
    BY EventKinds DEF IdleRequest
  <2>2. Begin(r, request) BY <1>4 DEF RejectStage
  <2> HIDE DEF request
  <2> QED BY <1>2, <2>1, <2>2 DEF Row, Keep, StateBehind
<1>5. CASE RequestStageChanges(r)
  <2> DEFINE request == [IdleRequest EXCEPT
       !.todo = {"decide", "update", "emit"},
       !.stage = stage, !.decision = "request_changes",
       !.row = Row(Keep, Keep, "needs_changes"),
       !.ev = OfStage("E_STAGE_CHANGES_REQUESTED", stage)]
  <2>1. /\ request.row = Row(Keep, Keep, "needs_changes")
        /\ request.ev.type = "E_STAGE_CHANGES_REQUESTED"
    BY EventKinds DEF IdleRequest
  <2>2. Begin(r, request) BY <1>5 DEF RequestStageChanges
  <2> HIDE DEF request
  <2> QED BY <1>2, <2>1, <2>2 DEF Row, Keep, StateBehind
<1>6. CASE RetryStage(r)
  <2> DEFINE request == [IdleRequest EXCEPT
       !.todo = {"update", "emit"},
       !.stage = stage,
       !.row = Row(Keep, Keep, "pending"),
       !.ev = OfStage("E_STAGE_RETRY", stage)]
  <2>1. request.row = Row(Keep, Keep, "pending") /\ request.ev.type = "E_STAGE_RETRY"
    BY EventKinds DEF IdleRequest
  <2>2. Begin(r, request) BY <1>6 DEF RetryStage
  <2> HIDE DEF request
  <2> QED BY <1>2, <2>1, <2>2 DEF Row, Keep, StateBehind
<1>7. CASE RegeneratePatches(r)
  <2> DEFINE request == [IdleRequest EXCEPT
       !.todo = {"mark", "decide", "update", "emit"},
       !.stage = "sandbox", !.decision = "request_changes",
       !.mark = "rejected",
       !.row = Row(Keep, "patches", "pending"),
       !.ev = OfStage("E_STAGE_CHANGES_REQUESTED", "patches")]
  <2>1. /\ request.row = Row(Keep, "patches", "pending")
        /\ request.ev.type = "E_STAGE_CHANGES_REQUESTED"
    BY EventKinds DEF IdleRequest
  <2>2. Begin(r, request) BY <1>7 DEF RegeneratePatches
  <2> HIDE DEF request
  <2> QED BY <1>2, <2>1, <2>2 DEF Row, Keep, StateBehind
<1>8. CASE Approve(r)
  <2> DEFINE request(i) == [IdleRequest EXCEPT
      !.todo = {"approval", "mark", "emit"}, !.mark = "approved", !.marked = {i},
      !.ev = Plain("E_APPROVAL_RECORDED")]
  <2>1. PICK i \in PatchSetIds : Begin(r, request(i)) BY <1>8 DEF Approve
  <2>2. /\ request(i).row = NoRow /\ request(i).ev.type = "E_APPROVAL_RECORDED"
        /\ "approval" \in request(i).todo
    BY EventKinds DEF IdleRequest
  <2> HIDE DEF request
  <2> QED BY <1>2, <2>1, <2>2 DEF NoRow, Row, Keep, StateBehind
<1>9. CASE Reject(r)
  <2> DEFINE request(i) == [IdleRequest EXCEPT
      !.todo = {"mark", "emit"}, !.mark = "rejected", !.marked = {i},
      !.ev = Plain("E_PATCH_SET_REJECTED")]
  <2>1. PICK i \in PatchSetIds : Begin(r, request(i)) BY <1>9 DEF Reject
  <2>2. request(i).row = NoRow /\ request(i).ev.type = "E_PATCH_SET_REJECTED"
    BY EventKinds DEF IdleRequest
  <2> HIDE DEF request
  <2> QED BY <1>2, <2>1, <2>2 DEF NoRow, Row, Keep, StateBehind
<1>10. CASE RequestChanges(r)
  <2> DEFINE request == [IdleRequest EXCEPT !.todo = {"emit"}, !.ev = Plain("E_CHANGES_REQUESTED")]
  <2>1. request.row = NoRow /\ request.ev.type = "E_CHANGES_REQUESTED"
    BY EventKinds DEF IdleRequest
  <2>2. Begin(r, request) BY <1>10 DEF RequestChanges
  <2> HIDE DEF request
  <2> QED BY <1>2, <2>1, <2>2 DEF NoRow, Row, Keep, StateBehind
<1>11. CASE Cancel(r)
  <2> DEFINE request == [IdleRequest EXCEPT
       !.todo = {"update"}, !.row = Row("CANCELLED", Keep, Keep)]
  <2>1. /\ request.row = Row("CANCELLED", Keep, Keep)
        /\ request.ev.type = "E_WORKFLOW_CREATED"
    BY EventKinds DEF IdleRequest
  <2>2. Begin(r, request) BY <1>11 DEF Cancel
  <2> HIDE DEF request
  <2> QED BY <1>2, <2>1, <2>2 DEF Row, Keep, StateBehind
<1> QED
  BY <1>3, <1>4, <1>5, <1>6, <1>7, <1>8, <1>9, <1>10, <1>11 DEF Client

(* The approval is created in the step that takes it from the list. *)
LEMMA DoneRoad ==
  ASSUME TypeOK, RoadInvariant, WitnessesKept, NEW r \in Requests, NEW step, Done(r, step),
         step = "approval" => approved'
  PROVE  \A q \in Requests : RequestBehind(req[q])'
<1> DEFINE left == [req[r] EXCEPT !.todo = req[r].todo \ {step}]
<1>1. \A q \in Requests : q # r => req'[q] = req[q] BY DEF Done, TypeOK
<1>2. req'[r] = IdleRequest \/ req'[r] = left BY DEF Done, TypeOK
<1>3. left.todo = req[r].todo \ {step} /\ left.row = req[r].row /\ left.ev = req[r].ev
  BY DEF TypeOK, RequestRecord
<1> HIDE DEF left
<1>4. RequestBehind(req[r]) BY DEF RoadInvariant
<1>5. RequestBehind(req[r])'
  <2>1. CASE req'[r] = left
    BY <1>3, <1>4, <2>1 DEF RequestBehind, StateBehind, WitnessesKept
  <2>2. CASE req'[r] = IdleRequest
    BY <2>2, EventKinds DEF RequestBehind, IdleRequest, NoRow, Row, Keep, StateBehind
  <2> QED BY <1>2, <2>1, <2>2
<1> QED
  BY <1>1, <1>5 DEF RoadInvariant, RequestBehind, StateBehind, WitnessesKept

LEMMA RequestRoad ==
  ASSUME TypeOK, GateInvariant, RoadInvariant, WitnessesKept, UNCHANGED orch,
         NEW r \in Requests, HandleRequest(r) \/ AbandonRequest(r)
  PROVE  RoadInvariant'
<1>a. StateBehind(state) /\ QueueBehind /\ RequestBehind(req[r]) BY DEF RoadInvariant
<1>b. req[r] \in RequestRecord /\ RequestBacked(req[r], Approvals)
  BY DEF TypeOK, GateInvariant, RequestsBacked
<1>c. \A o \in Orchestrators : OrchestratorBehind(orch[o])' BY HandlersStay
<1>1. CASE (CheckViolations(r) /\ SomeBlockRow) \/ AbandonRequest(r)
  <2>1. req' = [req EXCEPT ![r] = IdleRequest] /\ UNCHANGED <<state, orchQ>>
    BY <1>1 DEF CheckViolations, AbandonRequest, rowVars, queueVars
  <2>2. \A q \in Requests : req'[q] = IF q = r THEN IdleRequest ELSE req[q] BY <2>1 DEF TypeOK
  <2>3. \A q \in Requests : RequestBehind(req[q])'
    BY <2>2, EventKinds
    DEF RoadInvariant, RequestBehind, IdleRequest, NoRow, Row, Keep, StateBehind, WitnessesKept
  <2> QED BY <1>a, <1>c, <2>1, <2>3, StateStays, EventsUnchanged DEF RoadInvariant
<1>2. CASE \/ (CheckViolations(r) /\ ~ SomeBlockRow)
           \/ CreateApproval(r) \/ MarkPatchSets(r) \/ CreateDecision(r)
  <2>1. \E step : Done(r, step) /\ (step = "approval" => approved')
    BY <1>2 DEF CheckViolations, CreateApproval, MarkPatchSets, CreateDecision
  <2>2. UNCHANGED <<state, orchQ>>
    BY <1>2 DEF CheckViolations, CreateApproval, MarkPatchSets, CreateDecision, rowVars, queueVars
  <2>3. \A q \in Requests : RequestBehind(req[q])' BY <2>1, DoneRoad
  <2> QED BY <1>a, <1>c, <2>2, <2>3, StateStays, EventsUnchanged DEF RoadInvariant
<1>3. CASE UpdateWorkflow(r)
  <2>1. Pending(req[r]) = {} /\ "update" \in req[r].todo
    BY <1>3, NothingPending DEF UpdateWorkflow, NextStep
  <2>2. state' = state \/ state' = req[r].row.state BY <1>3 DEF UpdateWorkflow, Written
  <2>3. StateBehind(state)'
    <3>1. CASE req[r].row.stage = "done"
      <4>1. Before("done") = ValidStages BY DEF Before, ValidStages
      <4>2. ValidStages \subseteq Approvals
        BY <1>b, <2>1, <3>1, <4>1 DEF RequestBacked, Keep
      <4>3. Earned BY <4>2 DEF Earned, Approvals
      <4>4. req[r].row.state = "DONE" BY <1>a, <3>1 DEF RequestBehind
      <4> QED BY <1>a, <2>2, <4>3, <4>4 DEF StateBehind, WitnessesKept
    <3>2. CASE req[r].row.stage # "done"
      BY <1>a, <2>2, <3>2 DEF RequestBehind, StateBehind, WitnessesKept
    <3> QED BY <3>1, <3>2
  <2>4. \A q \in Requests : RequestBehind(req[q])' BY <1>3, DoneRoad DEF UpdateWorkflow
  <2>5. orchQ' = orchQ BY <1>3 DEF UpdateWorkflow, queueVars
  <2> QED BY <1>a, <1>c, <2>3, <2>4, <2>5, EventsUnchanged DEF RoadInvariant
<1>4. CASE EmitEvent(r)
  <2> DEFINE entry == [ev |-> req[r].ev, left |-> 1, fresh |-> TRUE, stalls |-> 0]
  <2>1. "approval" \notin req[r].todo BY <1>4 DEF EmitEvent, NextStep, Order
  <2>2. EventBehind(req[r].ev) BY <1>a, <2>1 DEF RequestBehind, EventBehind
  <2>3. req[r].ev \in Event BY <1>b DEF RequestRecord
  <2>4. entry \in BehindEvents'
    BY <2>2, <2>3 DEF BehindEvents, QueuedEvent, EventBehind, WitnessesKept
  <2>5. orchQ' = Append(orchQ, entry) /\ state' = state /\ Done(r, "emit")
    BY <1>4 DEF EmitEvent, EmitFromApi, rowVars
  <2> HIDE DEF entry
  <2>6. QueueBehind' BY <1>a, <2>4, <2>5, EventsGrow
  <2>7. \A q \in Requests : RequestBehind(req[q])' BY <2>5, DoneRoad
  <2> QED BY <1>a, <1>c, <2>5, <2>6, <2>7, StateStays DEF RoadInvariant
<1> QED BY <1>1, <1>2, <1>3, <1>4 DEF HandleRequest

LEMMA GitHubRoad ==
  ASSUME TypeOK, RoadInvariant, WitnessesKept, UNCHANGED orch, GitHub
  PROVE  RoadInvariant'
<1>a. StateBehind(state) /\ QueueBehind BY DEF RoadInvariant
<1>1. UNCHANGED <<state, req>> BY DEF GitHub, PullRequestEvent, CiEvent, rowVars
<1>2. ASSUME NEW ev \in Event, EventBehind(ev)', EmitFromApi(ev) PROVE QueueBehind'
  <2> DEFINE entry == [ev |-> ev, left |-> 1, fresh |-> TRUE, stalls |-> 0]
  <2>1. entry \in BehindEvents' BY <1>2 DEF BehindEvents, QueuedEvent
  <2>2. orchQ' = Append(orchQ, entry) BY <1>2 DEF EmitFromApi
  <2> HIDE DEF entry
  <2> QED BY <1>a, <2>1, <2>2, EventsGrow
<1>3. ASSUME NEW i \in PatchSetIds, NEW merged \in BOOLEAN, PullRequestEvent(i, merged)
      PROVE  QueueBehind'
  <2>1. CASE orchQ' = orchQ BY <1>a, <2>1, EventsUnchanged
  <2>2. CASE merged /\ EmitFromApi(Plain("E_PR_MERGED"))
    <3>1. i \in PatchSetIds' /\ patchSets'[i].merged
      BY <1>3, <2>2, PatchSetElement, LenProperties, SeqDef DEF PullRequestEvent, PatchSet, PatchSetIds, TypeOK
    <3>2. EventBehind(Plain("E_PR_MERGED"))' BY <3>1, EventKinds DEF EventBehind, SomeMerged
    <3> QED BY <1>2, <2>2, <3>2, EventTypes
  <2>3. CASE EmitFromApi(Plain("E_PR_CLOSED"))
    <3>1. EventBehind(Plain("E_PR_CLOSED"))' BY EventKinds DEF EventBehind
    <3> QED BY <1>2, <2>3, <3>1, EventTypes
  <2> QED BY <1>3, <2>1, <2>2, <2>3 DEF PullRequestEvent
<1>4. ASSUME NEW success \in BOOLEAN, CiEvent(success) PROVE QueueBehind'
  <2>1. EventBehind(Flagged("E_CI_COMPLETED", "none", success))' BY EventKinds DEF EventBehind
  <2> QED BY <1>2, <1>4, <2>1, EventTypes DEF CiEvent
<1>5. QueueBehind' BY <1>3, <1>4 DEF GitHub
<1> QED BY <1>a, <1>1, <1>5, HandlersStay, StateStays DEF RoadInvariant

LEMMA InitRoad ==
  ASSUME Init
  PROVE  RoadInvariant
<1>1. StateBehind(state) BY DEF Init, GatedInit, LegacyInit, StateBehind
<1>2. QueueBehind
  <2>1. CASE Origin = "gated"
    <3> DEFINE entry == [ev |-> StartEvent, left |-> 1, fresh |-> TRUE, stalls |-> 0]
    <3>1. orchQ = <<entry>> BY <2>1 DEF Init, GatedInit
    <3>2. EventBehind(StartEvent) BY EventKinds DEF StartEvent, EventBehind
    <3>3. entry \in BehindEvents
      BY <3>2, StartEventType, PipelineAssumption DEF BehindEvents, QueuedEvent
    <3> HIDE DEF entry
    <3> QED BY <3>1, <3>3 DEF QueueBehind
  <2>2. CASE Origin # "gated" BY <2>2 DEF Init, LegacyInit, QueueBehind
  <2> QED BY <2>1, <2>2
<1>3. \A o \in Orchestrators : OrchestratorBehind(orch[o])
  BY EventKinds DEF Init, IdleOrch, NoEvent, OrchestratorBehind, StateBehind, EventBehind
<1>4. \A r \in Requests : RequestBehind(req[r]) BY IdleRequestBehind DEF Init
<1> QED BY <1>1, <1>2, <1>3, <1>4 DEF RoadInvariant

LEMMA NextRoad ==
  ASSUME TypeOK, GateInvariant, RoadInvariant, [Next]_vars
  PROVE  RoadInvariant'
<1>a. WitnessesKept BY NextKeepsWitnesses, PatchAssumption
<1>1. ASSUME NEW o \in Orchestrators, OrchestratorStep(o) PROVE RoadInvariant'
  BY <1>a, <1>1, OrchestratorRoad DEF OrchestratorStep
<1>2. ASSUME NEW r \in Requests, RequestStep(r) PROVE RoadInvariant'
  BY <1>a, <1>2, RequestRoad DEF RequestStep
<1>3. CASE ProcessorStep
  BY <1>a, <1>3, ProcessorSteps, ProcessorRoad, AttemptsAssumption, PatchAssumption DEF ProcessorStep
<1>4. CASE ClientStep
  BY <1>a, <1>4, ClientRoad, GitHubRoad DEF ClientStep
<1>5. CASE FaultStep
  BY <1>a, <1>5, OrchestratorRoad, ProcessorSteps, ProcessorRoad, AttemptsAssumption, PatchAssumption
  DEF FaultStep
<1>6. CASE CrashStep
  BY <1>a, <1>6, OrchestratorRoad, RequestRoad, ProcessorSteps, ProcessorRoad, AttemptsAssumption,
     PatchAssumption
  DEF CrashStep
<1>7. CASE UNCHANGED vars
  <2>1. UNCHANGED <<state, orchQ, orch, req>> BY <1>7 DEF vars
  <2> QED BY <1>a, <2>1, HandlersStay, StateStays, EventsUnchanged DEF RoadInvariant
<1> QED BY <1>1, <1>2, <1>3, <1>4, <1>5, <1>6, <1>7 DEF Next

(* Whatever state, row or event is in flight, what it needs is behind it, or  *)
(* will be before it takes effect.                                           *)
LEMMA RoadInvariance == Spec => []RoadInvariant
<1>1. Init => RoadInvariant BY InitRoad
<1>2. TypeOK /\ GateInvariant /\ RoadInvariant /\ [Next]_vars => RoadInvariant' BY NextRoad
<1> QED BY <1>1, <1>2, TypeCorrect, GateInvariance, PTL DEF Spec

(* The legacy flow applies patches, and holds an open pull request, only after*)
(* some approval, however stale the state an orchestrator writes.            *)
THEOREM ApplyingIsApprovedHolds == Spec => []ApplyingIsApproved
<1>1. RoadInvariant => ApplyingIsApproved BY DEF RoadInvariant, StateBehind, ApplyingIsApproved
<1> QED BY <1>1, RoadInvariance, PTL

(* A workflow is DONE only when all eight stages are approved or a pull       *)
(* request of it was merged.                                                 *)
THEOREM DoneIsEarnedHolds == Spec => []DoneIsEarned
<1>1. RoadInvariant => DoneIsEarned
  BY DEF RoadInvariant, StateBehind, Earned, SomeMerged, DoneIsEarned
<1> QED BY <1>1, RoadInvariance, PTL

-----------------------------------------------------------------------------
(* What becomes of a job on a patch set *)

Runs(n) ==
  \/ n = "evaluate_policy" /\ EvaluatePolicy
  \/ n = "sandbox_validation" /\ SandboxValidation
  \/ n = "apply_patches" /\ ApplyPatches
CallBreaks(n) ==
  \/ n = "evaluate_policy" /\ EvaluationFault
  \/ n = "sandbox_validation" /\ SandboxFault
  \/ n = "apply_patches" /\ ApplyFault

(* Who touches the processor of a patch job, or its queue *)
LEMMA PatchJobSteps ==
  ASSUME TypeOK, PatchAssumption, [Next]_vars, NEW n \in PatchJob
  PROVE  \/ worker'[n] = worker[n] /\ jobQ'[n] = jobQ[n]
         \/ worker'[n] = worker[n] /\ \E o \in Orchestrators : EnqueueJob(o)
         \/ Runs(n) \/ CallBreaks(n) \/ TakeJob(n) \/ FailBeforeTry(n) \/ CrashWorker(n)
<1> DEFINE Untouched == worker'[n] = worker[n] /\ jobQ'[n] = jobQ[n]
<1>n. n \in JobName BY DEF JobName
<1>a. ASSUME NEW m \in JobName, m # n, ProcessorEffect(m) PROVE Untouched
  BY <1>n, <1>a DEF ProcessorEffect
<1>1. ASSUME NEW o \in Orchestrators, HandleEvent(o) \/ FailEvent(o) \/ CrashOrchestrator(o),
             UNCHANGED worker
      PROVE  Untouched \/ EnqueueJob(o)
  BY <1>1 DEF HandleEvent, TakeEvent, DecideTransition, WriteTransitionResult, FinishEvent,
              FailEvent, CrashOrchestrator, queueVars
<1>2. ASSUME NEW r \in Requests, HandleRequest(r) \/ AbandonRequest(r), UNCHANGED worker
      PROVE  Untouched
  BY <1>2 DEF HandleRequest, CheckViolations, CreateApproval, MarkPatchSets, CreateDecision,
              UpdateWorkflow, EmitEvent, AbandonRequest, queueVars
<1>3. CASE WorkerStep
  <2>1. CASE \E m \in AnalysisJob : ProcessAnalysis(m)
    BY <1>a, <2>1, AnalysisEffect DEF JobName, AnalysisJob, PatchJob
  <2>2. CASE IngestContext BY <1>a, <2>2, IngestEffect DEF JobName, PatchJob
  <2>3. CASE EvaluatePolicy BY <1>a, <2>3, EvaluateEffect DEF JobName, PatchJob, Runs
  <2>4. CASE SandboxValidation BY <1>a, <2>4, SandboxEffect DEF JobName, PatchJob, Runs
  <2>5. CASE ApplyPatches BY <1>a, <2>5, ApplyEffect DEF JobName, PatchJob, Runs
  <2>6. CASE \E m \in JobName : TakeJob(m) BY <1>a, <2>6, TakeJobEffect
  <2> QED
    BY <1>3, <2>1, <2>2, <2>3, <2>4, <2>5, <2>6
    DEF WorkerStep, FeasibilityAnalysis, ArchitectureAnalysis, TimelineAnalysis,
        SummaryAnalysis, AnalysisJob
<1>4. CASE WorkerFault
  <2>1. ASSUME NEW m \in JobName, m # n, NEW pcs, NEW handler, CallFails(m, pcs, handler)
        PROVE  Untouched
    BY <1>n, <2>1, GotoEffect DEF CallFails, queueVars
  <2>2. CASE \E m \in AnalysisJob : AnalysisFault(m)
    BY <2>1, <2>2 DEF AnalysisFault, JobName, AnalysisJob, PatchJob
  <2>3. CASE IngestFault BY <2>1, <2>3 DEF IngestFault, JobName, PatchJob
  <2>4. CASE EvaluationFault BY <2>1, <2>4 DEF EvaluationFault, CallBreaks, JobName, PatchJob
  <2>5. CASE SandboxFault BY <2>1, <2>5 DEF SandboxFault, CallBreaks, JobName, PatchJob
  <2>6. CASE ApplyFault BY <2>1, <2>6 DEF ApplyFault, CallBreaks, JobName, PatchJob
  <2>7. CASE \E m \in JobName : FailBeforeTry(m)
    BY <1>n, <2>7, ThrowEffect DEF FailBeforeTry
  <2> QED BY <1>4, <2>2, <2>3, <2>4, <2>5, <2>6, <2>7 DEF WorkerFault
<1>5. ASSUME NEW m \in JobName, CrashWorker(m) PROVE Untouched \/ CrashWorker(n)
  BY <1>a, <1>5, CrashWorkerEffect
<1>6. CASE ClientStep
  <2>1. \A r, request : Begin(r, request) => UNCHANGED jobQ BY DEF Begin, queueVars
  <2>2. \A r : Client(r) => UNCHANGED jobQ
    BY <2>1 DEF Client, ApproveStage, RejectStage, RequestStageChanges, RetryStage,
                RegeneratePatches, Approve, Reject, RequestChanges, Cancel
  <2>3. GitHub => UNCHANGED jobQ BY DEF GitHub, PullRequestEvent, CiEvent
  <2> QED BY <1>6, <2>2, <2>3 DEF ClientStep
<1>7. CASE UNCHANGED vars BY <1>7 DEF vars
<1> QED
  BY <1>1, <1>2, <1>3, <1>4, <1>5, <1>6, <1>7
  DEF Next, OrchestratorStep, RequestStep, ProcessorStep, FaultStep, CrashStep

(* A job goes on, is over, or is offered again; its patch set stays the same. *)
GoesOn(n) ==
  /\ ~ At(n, "idle")
  /\ Current(n)' = Current(n) /\ worker'[n].stalls = worker[n].stalls
  /\ jobQ'[n] = jobQ[n]
IsOver(n) == worker'[n] = IdleWorker /\ jobQ'[n] = jobQ[n]
IsOfferedAgain(n) ==
  /\ ~ At(n, "idle") /\ worker'[n] = IdleWorker
  /\ \E left, stalls \in Nat :
       /\ jobQ'[n] = Append(jobQ[n], [patchSet |-> Current(n), left |-> left, fresh |-> FALSE, stalls |-> stalls])
       /\ stalls = worker[n].stalls \/ (stalls = worker[n].stalls + 1 /\ crashes' = crashes + 1)

LEMMA GotoGoesOn ==
  ASSUME TypeOK, NEW n \in JobName, ~ At(n, "idle"), NEW pc, Goto(n, pc), UNCHANGED jobQ
  PROVE  GoesOn(n)
BY DEF TypeOK, Goto, GoesOn, Current, WorkerRecord

LEMMA RefusedGoesOn ==
  ASSUME TypeOK, NEW n \in JobName, ~ At(n, "idle"), Refused(n), UNCHANGED jobQ
  PROVE  GoesOn(n)
BY DEF TypeOK, Refused, GoesOn, Current, WorkerRecord

LEMMA ReturnIsOver ==
  ASSUME TypeOK, NEW n \in JobName, NEW ev, EmitAndReturn(n, ev)
  PROVE  IsOver(n)
BY DEF TypeOK, EmitAndReturn, IsOver

LEMMA ThrowIsOver ==
  ASSUME TypeOK, NEW n \in JobName, ~ At(n, "idle"), Throw(n)
  PROVE  IsOver(n) \/ IsOfferedAgain(n)
<1>1. worker[n].left \in Nat /\ worker[n].stalls \in Nat BY DEF TypeOK, WorkerRecord
<1>2. ~ At(n, "idle") /\ worker'[n] = IdleWorker BY DEF Throw, TypeOK
<1>3. CASE worker[n].left > 1
  <2>1. worker[n].left - 1 \in Nat BY <1>1, <1>3
  <2>2. OfferAgain(n, worker[n].left - 1, worker[n].stalls) BY <1>3 DEF Throw
  <2> QED BY <1>1, <1>2, <2>1, <2>2 DEF TypeOK, OfferAgain, IsOfferedAgain, Current
<1>4. CASE UNCHANGED jobQ BY <1>2, <1>4 DEF IsOver
<1> QED BY <1>3, <1>4 DEF Throw

LEMMA CrashIsOver ==
  ASSUME TypeOK, NEW n \in JobName, CrashWorker(n)
  PROVE  IsOver(n) \/ IsOfferedAgain(n)
<1>1. worker[n].left \in Nat /\ worker[n].stalls + 1 \in Nat BY DEF TypeOK, WorkerRecord
<1>2. ~ At(n, "idle") /\ worker'[n] = IdleWorker /\ crashes' = crashes + 1 BY DEF CrashWorker, TypeOK
<1>3. CASE OfferAgain(n, worker[n].left, worker[n].stalls + 1)
  BY <1>1, <1>2, <1>3 DEF TypeOK, OfferAgain, IsOfferedAgain, Current
<1>4. CASE UNCHANGED jobQ BY <1>2, <1>4 DEF IsOver
<1> QED BY <1>3, <1>4 DEF CrashWorker

LEMMA JobInHand ==
  ASSUME TypeOK, PatchAssumption, [Next]_vars, NEW n \in PatchJob
  PROVE  \/ worker'[n] = worker[n] /\ jobQ'[n] = jobQ[n]
         \/ worker'[n] = worker[n] /\ \E o \in Orchestrators : EnqueueJob(o)
         \/ GoesOn(n) \/ IsOver(n) \/ IsOfferedAgain(n) \/ TakeJob(n)
<1>n. n \in JobName BY DEF JobName
<1>1. CASE n = "evaluate_policy" /\ EvaluatePolicy
  <2>1. CASE StartEvaluation \/ ClearViolations \/ RecordViolations \/ RecordEvaluation \/ ConcludePolicyStage
    BY <1>n, <1>1, <2>1, GotoGoesOn
    DEF StartEvaluation, BeginStage, ClearViolations, RecordViolations, RecordEvaluation,
        ConcludePolicyStage, At, queueVars
  <2>2. CASE EvaluationCompleted \/ EvaluationFailed
    BY <1>n, <1>1, <2>2, ReturnIsOver DEF EvaluationCompleted, EvaluationFailed
  <2> QED BY <1>1, <2>1, <2>2 DEF EvaluatePolicy
<1>2. CASE n = "sandbox_validation" /\ SandboxValidation
  <2>1. CASE StartSandbox \/ SkipSandbox \/ ValidatePatches \/ PushSandboxBranch
             \/ RecordSandboxRun \/ ConcludeSandboxStage \/ SandboxCaught
    <3>1. ~ At(n, "idle") /\ UNCHANGED jobQ
      BY <1>2, <2>1 DEF StartSandbox, BeginStage, SkipSandbox, ValidatePatches, PushSandboxBranch,
                        RecordSandboxRun, ConcludeSandboxStage, SandboxCaught, At, queueVars
    <3>2. \E pc : Goto(n, pc)
      BY <1>2, <2>1 DEF StartSandbox, BeginStage, SkipSandbox, ValidatePatches, PushSandboxBranch,
                        RecordSandboxRun, ConcludeSandboxStage, SandboxCaught
    <3> QED BY <1>n, <3>1, <3>2, GotoGoesOn
  <2>2. CASE SandboxUnset \/ EmitFailureAndThrow("sandbox_validation")
    BY <1>n, <1>2, <2>2, ThrowIsOver DEF SandboxUnset, EmitFailureAndThrow, At
  <2>3. CASE SandboxCompleted BY <1>n, <1>2, <2>3, ReturnIsOver DEF SandboxCompleted
  <2> QED BY <1>2, <2>1, <2>2, <2>3 DEF SandboxValidation
<1>3. CASE n = "apply_patches" /\ ApplyPatches
  <2>1. CASE StartApply \/ SkipApply \/ SkipApplyReady \/ PushPrBranch \/ OpenPullRequest
             \/ RecordPullRequest \/ MarkApplied \/ ConcludePrStage
    <3>1. ~ At(n, "idle") /\ UNCHANGED jobQ
      BY <1>3, <2>1 DEF StartApply, BeginStage, SkipApply, SkipApplyReady, PushPrBranch,
                        OpenPullRequest, RecordPullRequest, MarkApplied, ConcludePrStage, At, queueVars
    <3>2. Refused(n) \/ \E pc : Goto(n, pc)
      BY <1>3, <2>1 DEF StartApply, BeginStage, SkipApply, SkipApplyReady, PushPrBranch,
                        OpenPullRequest, RecordPullRequest, MarkApplied, ConcludePrStage, Gate
    <3> QED BY <1>n, <3>1, <3>2, GotoGoesOn, RefusedGoesOn
  <2>2. CASE ApplyCompleted \/ ApplyFailed
    BY <1>n, <1>3, <2>2, ReturnIsOver DEF ApplyCompleted, ApplyFailed
  <2> QED BY <1>3, <2>1, <2>2 DEF ApplyPatches
<1>4. CASE CallBreaks(n)
  <2>1. \E pcs, handler : "idle" \notin pcs /\ CallFails(n, pcs, handler)
    BY <1>4 DEF CallBreaks, EvaluationFault, SandboxFault, ApplyFault
  <2> QED BY <1>n, <2>1, GotoGoesOn DEF CallFails, At, queueVars
<1>5. CASE FailBeforeTry(n) BY <1>n, <1>5, ThrowIsOver DEF FailBeforeTry, At
<1>6. CASE CrashWorker(n) BY <1>n, <1>6, CrashIsOver
<1> QED BY <1>1, <1>2, <1>3, <1>4, <1>5, <1>6, PatchJobSteps DEF Runs

-----------------------------------------------------------------------------
(* Jobs on patch sets name sets that exist *)

LEMMA TransitionNames ==
  ASSUME TypeOK, NEW s, NEW ev
  PROVE  Naming(Transition(s, ev, TransitionContext).jobs)
<1> DEFINE c == TransitionContext
           Ok(result) == Naming(result.jobs)
<1>1. Len(patchSets) \in Nat /\ PatchSetIds = 1..Len(patchSets)
  BY LenProperties DEF TypeOK, PatchSetIds
<1>2. /\ c.needPolicy \subseteq PatchSetIds /\ c.needApproval \subseteq PatchSetIds
      /\ c.approved \subseteq PatchSetIds
      /\ c.latest # NoPatchSet => c.latest \in PatchSetIds
  BY <1>1 DEF TransitionContext, PatchSetsNeedingPolicy, PatchSetsNeedingApproval, Unevaluated,
              WithStatus, NoPatchSet
<1> HIDE DEF c
<1>3. \A ids \in SUBSET PatchSetIds : OrLatest(ids, c) \subseteq PatchSetIds BY <1>2 DEF OrLatest
<1>4. \A n : \A ids \in SUBSET PatchSetIds : Naming(JobsFor(n, ids)) BY DEF Naming, JobsFor
<1>5. \A n : n \notin PatchJob => Naming(Job(n)) BY DEF Naming, Job
<1>6. Naming({}) BY DEF Naming
<1>7. \A t, jobs : Naming(jobs) => Ok(Result(t, jobs)) BY DEF Result
<1>8. \A t : Ok(Stay(t)) BY <1>6 DEF Stay, Result
<1> DEFINE Policy == JobsFor("evaluate_policy", OrLatest(c.needPolicy, c))
<1>9. Naming(Policy) BY <1>2, <1>3, <1>4
<1>10. \A n : Naming(JobsFor(n, OrLatest(c.needApproval, c))) BY <1>2, <1>3, <1>4
<1>11. \A t : Naming(JobsForStage(t)) BY <1>5, <1>6 DEF JobsForStage, PatchJob
<1>12. \A t : Naming(OnStageApproved(t, c)) /\ Naming(RerunJobs(t, c))
  BY <1>9, <1>10, <1>11 DEF OnStageApproved, RerunJobs
<1>13. Naming(JobsFor("apply_patches", c.approved)) BY <1>2, <1>4
<1>14. c.latest # NoPatchSet => Naming(JobsFor("apply_patches", {c.latest})) BY <1>2, <1>4
<1> HIDE DEF Ok
<1>15. Ok(OnCreated(s, c)) BY <1>5, <1>7 DEF OnCreated, PatchJob
<1>16. Ok(OnIngested(ev, c)) /\ Ok(OnPatchesProposed(ev, c))
  BY <1>6, <1>7, <1>8, <1>9 DEF OnIngested, OnPatchesProposed
<1>17. ev.type \in ReviewEvents => Ok(OnWaiting(ev, c))
  BY <1>6, <1>7, <1>8, <1>13, <1>14 DEF OnWaiting, OnApprovalRecorded, ReviewEvents
<1>18. Ok(OnApplying(ev, c)) /\ Ok(OnVerifyingCi(ev))
  BY <1>6, <1>7, <1>8 DEF OnApplying, OnVerifyingCi
<1>19. ev.type \in PrEvents => Ok(OnPrOpen(ev)) BY <1>6, <1>7, <1>8 DEF OnPrOpen, PrEvents
<1>20. Ok(OnAnyState(s, ev, c)) BY <1>6, <1>7, <1>8, <1>12 DEF OnAnyState
<1>21. Ok(Transition(s, ev, c))
  BY <1>8, <1>15, <1>16, <1>17, <1>18, <1>19, <1>20 DEF Transition
<1> QED BY <1>21 DEF Ok, c

LEMMA NamingGrows ==
  ASSUME RowsKept
  PROVE  /\ NamingJobs \subseteq NamingJobs'
         /\ \A q : q \in Seq(NamingJobs) => q \in Seq(NamingJobs')
<1>1. NamingJobs \subseteq NamingJobs' BY DEF RowsKept, NamingJobs
<1>2. ASSUME NEW q \in Seq(NamingJobs) PROVE q \in Seq(NamingJobs')
  <2>1. q \in [1..Len(q) -> NamingJobs] /\ Len(q) \in Nat BY LenProperties, SeqDef
  <2>2. q \in [1..Len(q) -> NamingJobs'] BY <1>1, <2>1
  <2> QED BY <2>1, <2>2, SeqDef
<1> QED BY <1>1, <1>2

LEMMA OrchestratorsName ==
  ASSUME TypeOK, JobsNameSets, [Next]_vars
  PROVE  \A o \in Orchestrators : Naming(orch[o].jobs)'
<1>a. PatchSetIds \subseteq PatchSetIds' BY NextKeepsRows DEF RowsKept
<1>b. \A o \in Orchestrators : Naming(orch[o].jobs) BY DEF JobsNameSets
<1>c. ASSUME \A o \in Orchestrators : orch'[o].jobs \subseteq orch[o].jobs
      PROVE  \A o \in Orchestrators : Naming(orch[o].jobs)'
  BY <1>a, <1>b, <1>c DEF Naming
<1>1. ASSUME NEW o \in Orchestrators, HandleEvent(o) \/ FailEvent(o) \/ CrashOrchestrator(o)
      PROVE  \A p \in Orchestrators : Naming(orch[p].jobs)'
  <2>1. CASE DecideTransition(o)
    <3> DEFINE res == Transition(orch[o].seen, orch[o].ev, TransitionContext)
    <3>1. Naming(res.jobs) BY TransitionNames
    <3> HIDE DEF res
    <3>2. orch' = [orch EXCEPT ![o].pc = "commit", ![o].next = res.next, ![o].jobs = res.jobs]
      BY <2>1 DEF DecideTransition, res
    <3>3. \A p \in Orchestrators : orch'[p].jobs = IF p = o THEN res.jobs ELSE orch[p].jobs
      BY <3>2 DEF TypeOK, OrchRecord
    <3> QED BY <1>a, <1>b, <3>1, <3>3 DEF Naming
  <2>2. CASE EnqueueJob(o)
    <3>1. PICK j \in orch[o].jobs : orch' = [orch EXCEPT ![o].jobs = @ \ {j}] BY <2>2 DEF EnqueueJob
    <3>2. \A p \in Orchestrators : orch'[p].jobs \subseteq orch[p].jobs BY <3>1 DEF TypeOK, OrchRecord
    <3> QED BY <1>c, <3>2
  <2>3. CASE WriteTransitionResult(o)
    <3>1. \A p \in Orchestrators : orch'[p].jobs \subseteq orch[p].jobs
      BY <2>3 DEF WriteTransitionResult, TypeOK, OrchRecord
    <3> QED BY <1>c, <3>1
  <2>4. CASE TakeEvent(o) \/ FinishEvent(o) \/ FailEvent(o) \/ CrashOrchestrator(o)
    <3>1. \E m : m.jobs = {} /\ orch' = [orch EXCEPT ![o] = m]
      BY <2>4 DEF TakeEvent, FinishEvent, FailEvent, CrashOrchestrator, IdleOrch
    <3>2. \A p \in Orchestrators : orch'[p].jobs \subseteq orch[p].jobs BY <3>1 DEF TypeOK
    <3> QED BY <1>c, <3>2
  <2> QED BY <1>1, <2>1, <2>2, <2>3, <2>4 DEF HandleEvent
<1>2. CASE UNCHANGED orch BY <1>2, <1>c
<1> QED
  BY <1>1, <1>2 DEF Next, vars, OrchestratorStep, RequestStep, ProcessorStep, ClientStep, FaultStep, CrashStep

LEMMA NextNames ==
  ASSUME TypeOK, PatchAssumption, JobsNameSets, [Next]_vars
  PROVE  JobsNameSets'
<1>r. RowsKept BY NextKeepsRows
<1>i. PatchSetIds \subseteq PatchSetIds' BY <1>r DEF RowsKept
<1>1. ASSUME NEW n \in PatchJob
      PROVE  jobQ'[n] \in Seq(NamingJobs') /\ (At(n, "idle")' \/ Current(n)' \in PatchSetIds')
  <2>n. n \in JobName BY DEF JobName
  <2>a. jobQ[n] \in Seq(NamingJobs) /\ (At(n, "idle") \/ Current(n) \in PatchSetIds) BY DEF JobsNameSets
  <2>b. jobQ[n] \in Seq(NamingJobs') BY <1>r, <2>a, NamingGrows
  <2>c. ASSUME NEW i \in PatchSetIds, NEW left \in Nat, NEW stalls \in Nat, NEW fresh \in BOOLEAN,
               jobQ'[n] = Append(jobQ[n], [patchSet |-> i, left |-> left, fresh |-> fresh, stalls |-> stalls])
        PROVE  jobQ'[n] \in Seq(NamingJobs')
    <3> DEFINE entry == [patchSet |-> i, left |-> left, fresh |-> fresh, stalls |-> stalls]
    <3>0. i \in Nat BY LenProperties DEF TypeOK, PatchSetIds
    <3>1. entry \in NamingJobs' BY <1>i, <3>0 DEF NamingJobs, QueuedJob
    <3>2. jobQ'[n] = Append(jobQ[n], entry) BY <2>c
    <3> HIDE DEF entry
    <3> QED BY <2>b, <3>1, <3>2, AppendProperties
  <2>d. IdleWorker.pc = "idle" BY DEF IdleWorker
  <2>1. CASE worker'[n] = worker[n] /\ jobQ'[n] = jobQ[n]
    BY <1>i, <2>a, <2>b, <2>1 DEF At, Current
  <2>2. CASE worker'[n] = worker[n] /\ \E o \in Orchestrators : EnqueueJob(o)
    <3>1. PICK o \in Orchestrators : EnqueueJob(o) BY <2>2
    <3>2. PICK j \in orch[o].jobs :
            jobQ' = [jobQ EXCEPT ![j.name] =
                      Append(@, [patchSet |-> j.patchSet, left |-> JobAttempts, fresh |-> TRUE, stalls |-> 0])]
      BY <3>1 DEF EnqueueJob
    <3>3. CASE j.name = n
      <4>1. j.patchSet \in PatchSetIds BY <3>3 DEF JobsNameSets, Naming
      <4>2. jobQ'[n] = Append(jobQ[n], [patchSet |-> j.patchSet, left |-> JobAttempts, fresh |-> TRUE, stalls |-> 0])
        BY <2>n, <3>2, <3>3 DEF TypeOK
      <4>3. jobQ'[n] \in Seq(NamingJobs') BY <2>c, <4>1, <4>2, AttemptsAssumption DEF AttemptsAssumption
      <4> QED BY <1>i, <2>a, <2>2, <4>3 DEF At, Current
    <3>4. CASE j.name # n
      <4>1. jobQ'[n] = jobQ[n] BY <2>n, <3>2, <3>4 DEF TypeOK
      <4> QED BY <1>i, <2>a, <2>b, <2>2, <4>1 DEF At, Current
    <3> QED BY <3>3, <3>4
  <2>3. CASE GoesOn(n) BY <1>i, <2>a, <2>b, <2>3 DEF GoesOn
  <2>4. CASE IsOver(n) BY <2>b, <2>d, <2>4 DEF IsOver, At
  <2>5. CASE IsOfferedAgain(n)
    <3>1. PICK left \in Nat, stalls \in Nat :
            jobQ'[n] = Append(jobQ[n], [patchSet |-> Current(n), left |-> left, fresh |-> FALSE, stalls |-> stalls])
      BY <2>5 DEF IsOfferedAgain
    <3>2. Current(n) \in PatchSetIds /\ At(n, "idle")' BY <2>a, <2>d, <2>5 DEF IsOfferedAgain, At
    <3> QED BY <2>c, <3>1, <3>2
  <2>6. CASE TakeJob(n)
    <3>1. PICK i \in Takeable(jobQ[n]) :
            /\ jobQ' = [jobQ EXCEPT ![n] = Without(@, i)]
            /\ worker' = [worker EXCEPT ![n] =
                 [IdleWorker EXCEPT !.pc = "start", !.patchSet = jobQ[n][i].patchSet,
                                    !.left = jobQ[n][i].left, !.stalls = jobQ[n][i].stalls,
                                    !.sawStage = stage, !.sawStatus = stageStatus]]
      BY <2>6 DEF TakeJob
    <3>2. jobQ[n][i] \in NamingJobs /\ Without(jobQ[n], i) \in Seq(NamingJobs')
      BY <2>a, <2>b, TakeableInDomain, QueueElement, WithoutType
    <3>3. Current(n)' = jobQ[n][i].patchSet BY <2>n, <3>1 DEF TypeOK, Current, IdleWorker
    <3>4. jobQ'[n] = Without(jobQ[n], i) BY <2>n, <3>1 DEF TypeOK
    <3> QED BY <1>i, <3>2, <3>3, <3>4 DEF NamingJobs
  <2> QED BY <2>1, <2>2, <2>3, <2>4, <2>5, <2>6, JobInHand
<1> QED BY <1>1, OrchestratorsName DEF JobsNameSets

LEMMA InitNames ==
  ASSUME Init
  PROVE  JobsNameSets
<1>1. \A n \in PatchJob : jobQ[n] = <<>> /\ At(n, "idle")
  BY DEF Init, GatedInit, LegacyInit, JobName, PatchJob, At, IdleWorker
<1>2. \A o \in Orchestrators : orch[o].jobs = {} BY DEF Init, IdleOrch
<1>3. <<>> \in Seq(NamingJobs) OBVIOUS
<1>4. \A n \in PatchJob : jobQ[n] \in Seq(NamingJobs) BY <1>1, <1>3
<1> QED BY <1>1, <1>2, <1>4 DEF JobsNameSets, Naming

-----------------------------------------------------------------------------
(* Applied sets and their pull requests *)

LEMMA ApplyPc ==
  ASSUME TypeOK, PatchAssumption, [Next]_vars
  PROVE  LET n == "apply_patches" IN
         \/ ApplyWrites \/ worker'[n] = worker[n]
         \/ worker'[n].pc \in {"idle", "start", "fail", "push", "emit"}
         \/ SkipPr /\ worker'[n].pc = "skip"
<1> DEFINE n == "apply_patches"
<1>n. n \in PatchJob /\ n \in JobName BY DEF PatchJob, JobName
<1>a. \A pc : Goto(n, pc) => worker'[n].pc = pc BY <1>n DEF Goto, TypeOK, WorkerRecord
<1>b. IdleWorker.pc = "idle" BY DEF IdleWorker
<1>c. Throw(n) => worker'[n] = IdleWorker BY <1>n DEF Throw, TypeOK
<1>d. \A ev : EmitAndReturn(n, ev) => worker'[n] = IdleWorker BY <1>n DEF EmitAndReturn, TypeOK
<1>1. CASE ApplyPatches
  BY <1>1, <1>a, <1>b, <1>d, PatchAssumption
  DEF ApplyPatches, ApplyWrites, StartApply, BeginStage, SkipApplyReady, ConcludePrStage,
      ApplyCompleted, ApplyFailed
<1>2. CASE ApplyFault BY <1>2, <1>a DEF ApplyFault, CallFails
<1>3. CASE TakeJob(n) BY <1>n, <1>3 DEF TakeJob, TypeOK, IdleWorker
<1>4. CASE FailBeforeTry(n) BY <1>4, <1>b, <1>c DEF FailBeforeTry
<1>5. CASE CrashWorker(n) BY <1>n, <1>5, <1>b DEF CrashWorker, TypeOK
<1> QED BY <1>n, <1>1, <1>2, <1>3, <1>4, <1>5, PatchJobSteps DEF Runs, CallBreaks

LEMMA ApplyWrite ==
  ASSUME TypeOK, ApplyInvariant, ApplyWrites
  PROVE  (ApplyInHand /\ AppliedHasPullRequest)'
<1> DEFINE n == "apply_patches"
           i == Current(n)
<1>n. n \in JobName BY DEF PatchJob, JobName
<1>i. i \in PatchSetIds BY DEF ApplyInvariant, JobsNameSets, ApplyWrites, SkipApply, MarkApplied, PushPrBranch,
                              OpenPullRequest, RecordPullRequest, At, PatchJob
<1>p. patchSets[i] \in PatchSet BY <1>i, PatchSetElement
<1>t. patchSets[i].prs \in Nat /\ patchSets[i].prRows \in Nat BY <1>p DEF PatchSet
<1>a. ASSUME NEW pc, Goto(n, pc) PROVE worker'[n].pc = pc /\ Current(n)' = i
  BY <1>n, <1>a DEF Goto, TypeOK, WorkerRecord, Current
<1>b. ASSUME Refused(n) PROVE worker'[n].pc = "fail" /\ Current(n)' = i
  BY <1>n, <1>b DEF Refused, TypeOK, WorkerRecord, Current
<1>k. ApplyInHand /\ AppliedHasPullRequest BY DEF ApplyInvariant
<1>c. ASSUME NEW row, SetPatchSet(i, row), row.prRows <= row.prs,
             row.status = "applied" /\ ~ SkipPr => row.prRows > 0,
             Current(n)' = i,
             worker'[n].pc = "record" => row.prRows < row.prs,
             worker'[n].pc = "applied" => row.prRows > 0,
             worker'[n].pc \in {"skip", "skipReady"} => SkipPr
      PROVE  (ApplyInHand /\ AppliedHasPullRequest)'
  <2>1. /\ PatchSetIds' = PatchSetIds
        /\ \A k \in PatchSetIds : patchSets'[k] = IF k = i THEN row ELSE patchSets[k]
    BY <1>c, SetPatchSetRow
  <2>2. patchSets'[i] = row BY <1>i, <2>1
  <2> HIDE DEF i
  <2>3. AppliedHasPullRequest' BY <1>c, <1>k, <2>1 DEF AppliedHasPullRequest
  <2>4. ApplyInHand' BY <1>c, <2>2 DEF ApplyInHand, At
  <2> QED BY <2>3, <2>4
<1>o. /\ patchSets[i].prRows <= patchSets[i].prs
      /\ patchSets[i].status = "applied" /\ ~ SkipPr => patchSets[i].prRows > 0
  BY <1>i, <1>k DEF AppliedHasPullRequest
<1>1. CASE SkipApply
  <2> DEFINE row == [patchSets[i] EXCEPT !.status = "applied"]
  <2>1. row.prs = patchSets[i].prs /\ row.prRows = patchSets[i].prRows BY <1>p DEF PatchSet
  <2>2. SkipPr BY <1>1, <1>k DEF SkipApply, ApplyInHand, At
  <2>3. SetPatchSet(i, row) /\ Goto(n, "skipReady") BY <1>1 DEF SkipApply
  <2> HIDE DEF row
  <2> QED BY <1>a, <1>c, <1>o, <2>1, <2>2, <2>3
<1>2. CASE MarkApplied
  <2> DEFINE row == [patchSets[i] EXCEPT !.status = "applied"]
  <2>1. row.prs = patchSets[i].prs /\ row.prRows = patchSets[i].prRows BY <1>p DEF PatchSet
  <2>2. patchSets[i].prRows > 0 BY <1>2, <1>k DEF MarkApplied, ApplyInHand
  <2>3. SetPatchSet(i, row) /\ \E pc \in {"conclude", "emit"} : Goto(n, pc) BY <1>2 DEF MarkApplied
  <2> HIDE DEF row
  <2> QED BY <1>a, <1>c, <1>o, <2>1, <2>2, <2>3
<1>3. CASE PushPrBranch
  <2> DEFINE row == [patchSets[i] EXCEPT !.branch = Gate(TRUE, patchSets[i].branch)]
  <2>1. row.prs = patchSets[i].prs /\ row.prRows = patchSets[i].prRows /\ row.status = patchSets[i].status
    BY <1>p DEF PatchSet
  <2>2. SetPatchSet(i, row) /\ (Goto(n, "open") \/ Refused(n)) BY <1>3 DEF PushPrBranch, Gate
  <2> HIDE DEF row
  <2> QED BY <1>a, <1>b, <1>c, <1>o, <2>1, <2>2
<1>4. CASE OpenPullRequest
  <2> DEFINE count == patchSets[i].prs + 1
             row == [patchSets[i] EXCEPT !.prs = count, !.pr = "open"]
  <2>1. row.prs = count /\ row.prRows = patchSets[i].prRows /\ row.status = patchSets[i].status
    BY <1>p DEF PatchSet
  <2>2. count > patchSets[i].prs /\ patchSets[i].prRows < count /\ patchSets[i].prRows <= count BY <1>o, <1>t
  <2>3. \/ SetPatchSet(i, row) /\ Goto(n, "record")
        \/ SetPatchSet(i, patchSets[i]) /\ Refused(n)
    BY <1>4 DEF OpenPullRequest, Gate
  <2> HIDE DEF row, count
  <2>4. CASE SetPatchSet(i, row) /\ Goto(n, "record")
    BY <1>a, <1>c, <1>o, <2>1, <2>2, <2>4
  <2>5. CASE SetPatchSet(i, patchSets[i]) /\ Refused(n)
    BY <1>b, <1>c, <1>o, <2>5
  <2> QED BY <2>3, <2>4, <2>5
<1>5. CASE RecordPullRequest
  <2> DEFINE count == patchSets[i].prRows + 1
             row == [patchSets[i] EXCEPT !.prRows = count]
  <2>1. row.prRows = count /\ row.prs = patchSets[i].prs BY <1>p DEF PatchSet
  <2>2. patchSets[i].prRows < patchSets[i].prs BY <1>5, <1>k DEF RecordPullRequest, ApplyInHand
  <2>3. count <= patchSets[i].prs /\ count > 0 BY <1>t, <2>2
  <2>4. SetPatchSet(i, row) /\ Goto(n, "applied") BY <1>5 DEF RecordPullRequest
  <2> HIDE DEF row, count
  <2> QED BY <1>a, <1>c, <2>1, <2>3, <2>4
<1> QED BY <1>1, <1>2, <1>3, <1>4, <1>5 DEF ApplyWrites

LEMMA NextApplies ==
  ASSUME TypeOK, PatchAssumption, ApplyInvariant, [Next]_vars
  PROVE  ApplyInvariant'
<1> DEFINE n == "apply_patches"
<1>n. n \in PatchJob /\ n \in JobName BY DEF PatchJob, JobName
<1>1. JobsNameSets' BY NextNames DEF ApplyInvariant
<1>2. CASE ApplyWrites BY <1>1, <1>2, ApplyWrite DEF ApplyInvariant
<1>3. CASE ~ ApplyWrites
  <2>1. /\ PatchSetIds \subseteq PatchSetIds'
        /\ \A i \in PatchSetIds' \ PatchSetIds : \E v : patchSets'[i] = NewPatchSet(v)
        /\ \A i \in PatchSetIds : SamePullRequests(patchSets'[i], patchSets[i])
    BY <1>3, NextKeepsRows DEF RowsKept
  <2>2. \A v : NewPatchSet(v).prs = 0 /\ NewPatchSet(v).prRows = 0 /\ NewPatchSet(v).status = "proposed"
    BY DEF NewPatchSet
  <2>3. AppliedHasPullRequest'
    BY <2>1, <2>2 DEF ApplyInvariant, AppliedHasPullRequest, SamePullRequests
  <2>4. ApplyInHand'
    <3>1. CASE worker'[n] = worker[n]
      <4>1. At(n, "idle") \/ Current(n) \in PatchSetIds BY <1>n DEF ApplyInvariant, JobsNameSets
      <4>2. ApplyInHand BY DEF ApplyInvariant
      <4> QED BY <2>1, <3>1, <4>1, <4>2 DEF ApplyInHand, At, Current, SamePullRequests
    <3>2. CASE worker'[n].pc \in {"idle", "start", "fail", "push", "emit"}
               \/ (SkipPr /\ worker'[n].pc = "skip")
      BY <3>2 DEF ApplyInHand, At
    <3> QED BY <1>3, <3>1, <3>2, ApplyPc
  <2> QED BY <1>1, <2>3, <2>4 DEF ApplyInvariant
<1> QED BY <1>2, <1>3

(* The patch sets a workflow starts with *)
LEMMA InitRows ==
  ASSUME Init
  PROVE  \A i \in PatchSetIds : /\ patchSets[i].prs = 0 /\ patchSets[i].prRows = 0
                                /\ patchSets[i].status = "proposed"
                                /\ patchSets[i].evaluated => patchSets[i].rows = patchSets[i].verdict
<1>1. CASE Origin = "gated"
  <2>1. patchSets \in StartPatchSets BY <1>1 DEF Init, GatedInit
  <2>2. CASE patchSets = <<>> BY <2>2 DEF PatchSetIds
  <2> DEFINE judged(v) == [NewPatchSet(v) EXCEPT !.rows = v, !.evaluated = TRUE]
  <2>3. /\ \A v : /\ NewPatchSet(v).prs = 0 /\ NewPatchSet(v).prRows = 0
                  /\ NewPatchSet(v).status = "proposed" /\ ~ NewPatchSet(v).evaluated
        /\ \A v : /\ judged(v).prs = 0 /\ judged(v).prRows = 0 /\ judged(v).status = "proposed"
                  /\ judged(v).rows = judged(v).verdict
    BY DEF NewPatchSet
  <2>4. \/ patchSets = <<>>
        \/ \E v : patchSets = [i \in 1..NumRepos |-> NewPatchSet(v[i])]
        \/ \E v : patchSets = [i \in 1..NumRepos |-> judged(v[i])]
    BY <2>1 DEF StartPatchSets
  <2> HIDE DEF judged
  <2>5. CASE \E v : patchSets = [k \in 1..NumRepos |-> NewPatchSet(v[k])]
    <3>1. PICK v : patchSets = [k \in 1..NumRepos |-> NewPatchSet(v[k])] BY <2>5
    <3>2. \A i \in PatchSetIds : patchSets[i] = NewPatchSet(v[i]) BY <3>1 DEF PatchSetIds
    <3> QED BY <2>3, <3>2
  <2>6. CASE \E v : patchSets = [k \in 1..NumRepos |-> judged(v[k])]
    <3>1. PICK v : patchSets = [k \in 1..NumRepos |-> judged(v[k])] BY <2>6
    <3>2. \A i \in PatchSetIds : patchSets[i] = judged(v[i]) BY <3>1 DEF PatchSetIds
    <3> QED BY <2>3, <3>2
  <2> QED BY <2>2, <2>4, <2>5, <2>6
<1>2. CASE Origin # "gated" BY <1>2 DEF Init, LegacyInit, PatchSetIds
<1> QED BY <1>1, <1>2

LEMMA InitApplies ==
  ASSUME Init
  PROVE  ApplyInvariant
<1>1. worker["apply_patches"].pc = "idle" BY DEF Init, JobName, PatchJob, IdleWorker
<1>2. ApplyInHand BY <1>1 DEF ApplyInHand, At
<1> QED BY <1>2, InitNames, InitRows DEF ApplyInvariant, AppliedHasPullRequest

(* A set that counts as applied has a recorded pull request, and every        *)
(* recorded pull request was opened, whatever call fails, whichever process   *)
(* dies, and however often the job runs.                                     *)
THEOREM AppliedHasPullRequestHolds == Spec => []AppliedHasPullRequest
<1>1. Init => ApplyInvariant BY InitApplies
<1>2. TypeOK /\ ApplyInvariant /\ [Next]_vars => ApplyInvariant' BY NextApplies, PatchAssumption
<1>3. ApplyInvariant => AppliedHasPullRequest BY DEF ApplyInvariant
<1> QED BY <1>1, <1>2, <1>3, TypeCorrect, PTL DEF Spec

-----------------------------------------------------------------------------
(* Verdicts and violation rows *)

LEMMA FaultsGrow ==
  ASSUME [Next]_vars
  PROVE  /\ faults' = faults \/ faults' = faults + 1
         /\ crashes' = crashes \/ crashes' = crashes + 1
         /\ FaultStep \/ CrashStep \/ UNCHANGED <<faults, crashes>>
<1>a. \A n, ev : EmitAndReturn(n, ev) => UNCHANGED boundVars BY DEF EmitAndReturn, boundVars
<1>b. \A n : EmitFailureAndThrow(n) => UNCHANGED boundVars BY DEF EmitFailureAndThrow, boundVars
<1>c. \A n, pcs, handler : CallFails(n, pcs, handler) => faults' = faults + 1 /\ crashes' = crashes BY DEF CallFails
<1>1. CASE \E o \in Orchestrators : HandleEvent(o)
  BY <1>1 DEF HandleEvent, TakeEvent, DecideTransition, WriteTransitionResult, EnqueueJob,
              FinishEvent, boundVars
<1>2. CASE \E r \in Requests : HandleRequest(r)
  BY <1>2 DEF HandleRequest, CheckViolations, CreateApproval, MarkPatchSets, CreateDecision,
              UpdateWorkflow, EmitEvent, boundVars
<1>3. CASE \E n \in JobName : TakeJob(n)
  BY <1>3 DEF TakeJob, boundVars
<1>4. CASE \E n \in AnalysisJob : ProcessAnalysis(n)
  BY <1>4, <1>a, <1>b DEF ProcessAnalysis, StartAnalysis, SaveArtifact, AnalysisReady,
                          AnalysisCompleted, AnalysisCaught, boundVars
<1>5. CASE IngestContext
  BY <1>5, <1>a, <1>b DEF IngestContext, StartIngest, GeneratePatchSet, IngestReady,
                          IngestCompleted, IngestCaught, boundVars
<1>6. CASE EvaluatePolicy
  BY <1>6, <1>a DEF EvaluatePolicy, StartEvaluation, BeginStage, ClearViolations, RecordViolations,
                    RecordEvaluation, ConcludePolicyStage, EvaluationCompleted, EvaluationFailed, boundVars
<1>7. CASE SandboxValidation
  BY <1>7, <1>a, <1>b DEF SandboxValidation, StartSandbox, BeginStage, SkipSandbox, SandboxUnset,
                          ValidatePatches, PushSandboxBranch, RecordSandboxRun,
                          ConcludeSandboxStage, SandboxCompleted, SandboxCaught, boundVars
<1>8. CASE ApplyPatches
  BY <1>8, <1>a DEF ApplyPatches, StartApply, BeginStage, SkipApply, SkipApplyReady, PushPrBranch,
                    OpenPullRequest, RecordPullRequest, MarkApplied, ConcludePrStage,
                    ApplyCompleted, ApplyFailed, boundVars
<1>9. CASE WorkerStep
  BY <1>9, <1>3, <1>4, <1>5, <1>6, <1>7, <1>8
  DEF WorkerStep, FeasibilityAnalysis, ArchitectureAnalysis, TimelineAnalysis, SummaryAnalysis, AnalysisJob
<1>10. CASE FaultStep
  <2>1. (\E o \in Orchestrators : FailEvent(o)) \/ WorkerFault BY <1>10 DEF FaultStep
  <2>2. faults' = faults + 1 /\ crashes' = crashes
    BY <2>1, <1>c DEF FailEvent, WorkerFault, FailBeforeTry, AnalysisFault, IngestFault, EvaluationFault,
                      SandboxFault, ApplyFault
  <2> QED BY <1>10, <2>2
<1>11. CASE \E r \in Requests : Client(r)
  <2>1. \A r, request : Begin(r, request) => UNCHANGED boundVars BY DEF Begin
  <2>2. UNCHANGED boundVars
    BY <1>11, <2>1 DEF Client, ApproveStage, RejectStage, RequestStageChanges, RetryStage,
                       RegeneratePatches, Approve, Reject, RequestChanges, Cancel
  <2> QED BY <2>2 DEF boundVars
<1>12. CASE GitHub BY <1>12 DEF GitHub, PullRequestEvent, CiEvent, boundVars
<1>13. CASE CrashStep
  <2>1. crashes' = crashes + 1 /\ faults' = faults
    BY <1>13 DEF CrashStep, CrashOrchestrator, CrashWorker, AbandonRequest
  <2> QED BY <1>13, <2>1
<1>14. CASE UNCHANGED vars BY <1>14 DEF vars
<1> QED
  BY <1>1, <1>2, <1>9, <1>10, <1>11, <1>12, <1>13, <1>14
  DEF Next, OrchestratorStep, RequestStep, ProcessorStep, ClientStep

(* What a queue holds it still holds after an element is added, and, but for  *)
(* that element, after one is taken.                                         *)
LEMMA AppendHolds ==
  ASSUME NEW S, NEW q \in Seq(S), NEW entry \in S
  PROVE  /\ \A k \in DOMAIN q : k \in DOMAIN Append(q, entry) /\ Append(q, entry)[k] = q[k]
         /\ \E k \in DOMAIN Append(q, entry) : Append(q, entry)[k] = entry
BY AppendProperties, LenProperties

LEMMA WithoutHolds ==
  ASSUME NEW S, NEW q \in Seq(S), NEW i \in DOMAIN q, NEW k \in DOMAIN q, k # i
  PROVE  \E m \in DOMAIN Without(q, i) : Without(q, i)[m] = q[k]
<1>1. DOMAIN q = 1..Len(q) /\ Len(q) \in Nat BY LenProperties
<1> DEFINE a == SubSeq(q, 1, i - 1)
           b == SubSeq(q, i + 1, Len(q))
<1>2. \A j \in 1..Len(q) : q[j] \in S BY <1>1, ElementOfSeq
<1>3. /\ a \in Seq(S) /\ Len(a) = i - 1
      /\ \A j \in 1..(i - 1) : a[j] = q[j]
  BY <1>1, <1>2, SubSeqProperties
<1>4. /\ b \in Seq(S) /\ Len(b) = Len(q) - i
      /\ \A j \in 1..(Len(q) - i) : b[j] = q[i + j]
  <2>0. i + 1 \in Int /\ Len(q) \in Int BY <1>1
  <2>1. PICK m \in Int, n \in Int : m = i + 1 /\ n = Len(q) BY <2>0
  <2>2. /\ SubSeq(q, m, n) \in Seq(S) /\ Len(SubSeq(q, m, n)) = IF m <= n THEN n - m + 1 ELSE 0
        /\ \A j \in 1..(n - m + 1) : SubSeq(q, m, n)[j] = q[m + j - 1]
    <3>1. \A j \in m..n : q[j] \in S BY <1>1, <1>2, <2>1
    <3> QED BY <3>1, SubSeqProperties
  <2>3. b = SubSeq(q, m, n) BY <2>1
  <2> HIDE DEF b
  <2>4. n - m + 1 = Len(q) - i /\ (IF m <= n THEN n - m + 1 ELSE 0) = Len(q) - i BY <1>1, <2>1
  <2>5. \A j \in 1..(Len(q) - i) : j \in 1..(n - m + 1) /\ m + j - 1 = i + j BY <1>1, <2>1, <2>4
  <2>6. \A j \in 1..(Len(q) - i) : b[j] = q[i + j] BY <2>2, <2>3, <2>5
  <2> QED BY <2>2, <2>3, <2>4, <2>6
<1> HIDE DEF a, b
<1>5. /\ Len(a \o b) = Len(a) + Len(b) /\ a \o b \in Seq(S)
      /\ \A j \in 1..(Len(a) + Len(b)) : (a \o b)[j] = IF j <= Len(a) THEN a[j] ELSE b[j - Len(a)]
  BY <1>3, <1>4, ConcatProperties
<1>6. Len(a) + Len(b) = Len(q) - 1 BY <1>1, <1>3, <1>4
<1>7. DOMAIN (a \o b) = 1..(Len(q) - 1) BY <1>5, <1>6, LenProperties
<1>8. CASE k < i
  <2>1. k \in 1..(Len(a) + Len(b)) /\ k <= Len(a) /\ k \in 1..(i - 1) BY <1>1, <1>3, <1>6, <1>8
  <2>2. (a \o b)[k] = a[k] BY <1>5, <2>1
  <2>3. (a \o b)[k] = q[k] BY <1>3, <2>1, <2>2
  <2> QED BY <1>6, <1>7, <2>1, <2>3 DEF Without, a, b
<1>9. CASE k > i
  <2>1. PICK m \in 1..(Len(a) + Len(b)) : m = k - 1 BY <1>1, <1>6, <1>9
  <2>2. ~ (m <= Len(a)) /\ m - Len(a) = k - i BY <1>1, <1>3, <1>9, <2>1
  <2>3. (a \o b)[m] = b[k - i] BY <1>5, <2>1, <2>2
  <2>4. k - i \in 1..(Len(q) - i) /\ i + (k - i) = k BY <1>1, <1>9
  <2>5. b[k - i] = q[k] BY <1>4, <2>4
  <2> QED BY <1>6, <1>7, <2>1, <2>3, <2>5 DEF Without, a, b
<1> QED BY <1>1, <1>8, <1>9

(* A job has stalled no more often than processes died. *)
LEMMA NextStalls ==
  ASSUME TypeOK, PatchAssumption, AttemptsAssumption, StallsCounted, [Next]_vars
  PROVE  StallsCounted'
<1> DEFINE n == "evaluate_policy"
<1>n. n \in PatchJob /\ n \in JobName BY DEF PatchJob, JobName
<1>c. crashes \in Nat /\ crashes' \in Nat /\ crashes <= crashes' BY FaultsGrow DEF TypeOK
<1>s. worker[n].stalls \in Nat /\ worker[n].stalls <= crashes BY <1>n DEF TypeOK, WorkerRecord, StallsCounted
<1>q. StalledJobs \subseteq StalledJobs' BY <1>c DEF StalledJobs, QueuedJob
<1>a. jobQ[n] \in Seq(StalledJobs) /\ jobQ[n] \in Seq(StalledJobs')
  <2>1. jobQ[n] \in Seq(StalledJobs) BY DEF StallsCounted
  <2> QED BY <1>q, <2>1, SeqMonotonic
<1>i. IdleWorker.stalls = 0 BY DEF IdleWorker
<1>g. ASSUME NEW entry \in StalledJobs', jobQ'[n] = Append(jobQ[n], entry)
      PROVE  jobQ'[n] \in Seq(StalledJobs')
  BY <1>a, <1>g, AppendProperties
<1>1. CASE (worker'[n] = worker[n] /\ jobQ'[n] = jobQ[n]) \/ GoesOn(n) \/ IsOver(n)
  <2>1. worker'[n].stalls <= crashes' BY <1>1, <1>c, <1>i, <1>s DEF GoesOn, IsOver
  <2> QED BY <1>1, <1>a, <2>1 DEF StallsCounted, GoesOn, IsOver
<1>2. CASE worker'[n] = worker[n] /\ \E o \in Orchestrators : EnqueueJob(o)
  <2>1. PICK o \in Orchestrators : EnqueueJob(o) BY <1>2
  <2>2. PICK j \in orch[o].jobs :
          jobQ' = [jobQ EXCEPT ![j.name] =
                    Append(@, [patchSet |-> j.patchSet, left |-> JobAttempts, fresh |-> TRUE, stalls |-> 0])]
    BY <2>1 DEF EnqueueJob
  <2>3. CASE j.name = n
    <3> DEFINE entry == [patchSet |-> j.patchSet, left |-> JobAttempts, fresh |-> TRUE, stalls |-> 0]
    <3>1. j.patchSet \in Nat BY DEF TypeOK, OrchRecord
    <3>2. entry \in StalledJobs' BY <1>c, <3>1 DEF AttemptsAssumption, QueuedJob, StalledJobs
    <3>3. jobQ'[n] = Append(jobQ[n], entry) BY <1>n, <2>2, <2>3 DEF TypeOK
    <3> HIDE DEF entry
    <3> QED BY <1>2, <1>c, <1>g, <1>s, <3>2, <3>3 DEF StallsCounted
  <2>4. CASE j.name # n
    <3>1. jobQ'[n] = jobQ[n] BY <1>n, <2>2, <2>4 DEF TypeOK
    <3> QED BY <1>2, <1>a, <1>c, <1>s, <3>1 DEF StallsCounted
  <2> QED BY <2>3, <2>4
<1>3. CASE IsOfferedAgain(n)
  <2>1. PICK left \in Nat, stalls \in Nat :
          /\ jobQ'[n] = Append(jobQ[n], [patchSet |-> Current(n), left |-> left, fresh |-> FALSE, stalls |-> stalls])
          /\ stalls = worker[n].stalls \/ (stalls = worker[n].stalls + 1 /\ crashes' = crashes + 1)
    BY <1>3 DEF IsOfferedAgain
  <2> DEFINE entry == [patchSet |-> Current(n), left |-> left, fresh |-> FALSE, stalls |-> stalls]
  <2>2. stalls <= crashes' BY <1>c, <1>s, <2>1
  <2>3. entry \in StalledJobs' BY <1>n, <2>2 DEF TypeOK, WorkerRecord, Current, QueuedJob, StalledJobs
  <2>4. jobQ'[n] = Append(jobQ[n], entry) BY <2>1
  <2> HIDE DEF entry
  <2>5. jobQ'[n] \in Seq(StalledJobs') BY <1>g, <2>3, <2>4
  <2>6. worker'[n].stalls <= crashes' BY <1>3, <1>c, <1>i DEF IsOfferedAgain
  <2> QED BY <2>5, <2>6 DEF StallsCounted
<1>4. CASE TakeJob(n)
  <2>1. PICK i \in Takeable(jobQ[n]) :
          /\ jobQ' = [jobQ EXCEPT ![n] = Without(@, i)]
          /\ worker' = [worker EXCEPT ![n] =
               [IdleWorker EXCEPT !.pc = "start", !.patchSet = jobQ[n][i].patchSet,
                                  !.left = jobQ[n][i].left, !.stalls = jobQ[n][i].stalls,
                                  !.sawStage = stage, !.sawStatus = stageStatus]]
    BY <1>4 DEF TakeJob
  <2>2. jobQ[n][i] \in StalledJobs /\ Without(jobQ[n], i) \in Seq(StalledJobs')
    BY <1>a, TakeableInDomain, QueueElement, WithoutType
  <2>3. worker'[n].stalls = jobQ[n][i].stalls BY <1>n, <2>1 DEF TypeOK, IdleWorker
  <2>4. jobQ'[n] = Without(jobQ[n], i) BY <1>n, <2>1 DEF TypeOK
  <2>5. worker'[n].stalls <= crashes' BY <1>c, <2>2, <2>3 DEF StalledJobs, QueuedJob
  <2> QED BY <2>2, <2>4, <2>5 DEF StallsCounted
<1> QED BY <1>n, <1>1, <1>2, <1>3, <1>4, JobInHand

(* How far the evaluation got, while no call fails *)
LEMMA EvaluationPc ==
  ASSUME TypeOK, PatchAssumption, [Next]_vars, faults' = faults
  PROVE  LET n == "evaluate_policy" IN
         \/ EvaluationWrites
         \/ worker'[n] = worker[n]
         \/ At(n, "emit") /\ worker'[n] = IdleWorker
         \/ CrashWorker(n)
         \/ TakeJob(n)
         \/ At(n, "start") /\ Goto(n, "clear")
         \/ At(n, "conclude") /\ Goto(n, "emit")
         \/ At(n, "fail")
<1> DEFINE n == "evaluate_policy"
<1>n. n \in PatchJob /\ n \in JobName BY DEF PatchJob, JobName
<1>f. faults \in Nat BY DEF TypeOK
<1>1. CASE EvaluatePolicy
  <2>1. CASE StartEvaluation BY <2>1 DEF StartEvaluation, BeginStage
  <2>2. CASE ClearViolations \/ RecordViolations \/ RecordEvaluation BY <2>2 DEF EvaluationWrites
  <2>3. CASE ConcludePolicyStage BY <2>3 DEF ConcludePolicyStage
  <2>4. CASE EvaluationCompleted BY <1>n, <2>4 DEF EvaluationCompleted, EmitAndReturn, TypeOK
  <2>5. CASE EvaluationFailed BY <2>5 DEF EvaluationFailed
  <2> QED BY <1>1, <2>1, <2>2, <2>3, <2>4, <2>5 DEF EvaluatePolicy
<1>2. ~ EvaluationFault /\ ~ FailBeforeTry(n) BY <1>f DEF EvaluationFault, CallFails, FailBeforeTry
<1> QED BY <1>n, <1>1, <1>2, PatchJobSteps DEF Runs, CallBreaks

LEMMA NextJudges ==
  ASSUME TypeOK, PatchAssumption, VerdictInvariant, [Next]_vars
  PROVE  VerdictInvariant'
<1>1. JobsNameSets' BY NextNames DEF VerdictInvariant
<1>s. StallsCounted' BY AttemptsAssumption, NextStalls DEF VerdictInvariant
<1>2. ASSUME Unstalled'
      PROVE  (JudgedInHand /\ RowsKeptOrRedone)'
  <2> DEFINE n == "evaluate_policy"
             i == Current(n)
  <2>n. n \in PatchJob /\ n \in JobName BY DEF PatchJob, JobName
  <2>f. faults = 0 /\ faults' = faults BY <1>2, FaultsGrow DEF TypeOK, Unstalled
  <2>m. MaxStalledCount \in Nat BY AttemptsAssumption DEF AttemptsAssumption
  <2>c. crashes \in Nat /\ crashes <= MaxStalledCount BY <1>2, <2>m, FaultsGrow DEF TypeOK, Unstalled
  <2>k. JudgedInHand /\ RowsKeptOrRedone /\ JobsNameSets BY <2>c, <2>f DEF VerdictInvariant, Unstalled
  <2>j. /\ jobQ[n] \in Seq(NamingJobs) /\ (At(n, "idle") \/ i \in PatchSetIds)
    BY <2>k, <2>n DEF JobsNameSets
  <2>o. NoPatchSet \notin PatchSetIds BY LenProperties DEF PatchSetIds, NoPatchSet, TypeOK
  <2>g. ASSUME NEW pc, Goto(n, pc) PROVE worker'[n].pc = pc /\ Current(n)' = i
    BY <2>n, <2>g DEF Goto, TypeOK, WorkerRecord, Current
  <2>1. CASE EvaluationWrites
    <3>1. ~ At(n, "idle") /\ i \in PatchSetIds
      BY <2>1, <2>j DEF EvaluationWrites, ClearViolations, RecordViolations, RecordEvaluation, At
    <3>2. patchSets[i] \in PatchSet BY <3>1, PatchSetElement
    <3>3. jobQ' = jobQ
      BY <2>1 DEF EvaluationWrites, ClearViolations, RecordViolations, RecordEvaluation, queueVars
    <3>4. PICK row, pc : /\ SetPatchSet(i, row) /\ Goto(n, pc) /\ pc # "idle" /\ pc # "fail"
                         /\ pc \in {"event", "conclude", "emit"} => row.rows = row.verdict
      <4>1. CASE ClearViolations
        <5> DEFINE row == [patchSets[i] EXCEPT !.rows = "none"]
        <5>1. SetPatchSet(i, row) /\ Goto(n, "record") BY <4>1 DEF ClearViolations
        <5> HIDE DEF row
        <5> QED BY <5>1
      <4>2. CASE RecordViolations
        <5> DEFINE row == [patchSets[i] EXCEPT !.rows = patchSets[i].verdict]
        <5>1. SetPatchSet(i, row) /\ Goto(n, "event") BY <4>2 DEF RecordViolations
        <5>2. row.rows = row.verdict BY <3>2 DEF PatchSet
        <5> HIDE DEF row
        <5> QED BY <5>1, <5>2
      <4>3. CASE RecordEvaluation
        <5> DEFINE row == [patchSets[i] EXCEPT !.evaluated = TRUE]
        <5>1. SetPatchSet(i, row) /\ \E pc \in {"conclude", "emit"} : Goto(n, pc)
          BY <4>3 DEF RecordEvaluation
        <5>2. patchSets[i].rows = patchSets[i].verdict
          BY <2>k, <4>3 DEF RecordEvaluation, At, JudgedInHand
        <5>3. row.rows = row.verdict BY <3>2, <5>2 DEF PatchSet
        <5> HIDE DEF row
        <5> QED BY <5>1, <5>3
      <4> QED BY <2>1, <4>1, <4>2, <4>3 DEF EvaluationWrites
    <3>5. /\ PatchSetIds' = PatchSetIds
          /\ \A k \in PatchSetIds : patchSets'[k] = IF k = i THEN row ELSE patchSets[k]
      BY <3>4, SetPatchSetRow
    <3>6. worker'[n].pc = pc /\ Current(n)' = i BY <2>g, <3>4
    <3>7. patchSets'[i] = row BY <3>1, <3>5
    <3>8. JudgedInHand' BY <3>4, <3>6, <3>7 DEF JudgedInHand, At
    <3>9. \A k \in PatchSetIds : k = i \/ Reevaluating(k) => Reevaluating(k)'
      BY <3>3, <3>6 DEF Reevaluating, Current
    <3> HIDE DEF i
    <3>10. RowsKeptOrRedone' BY <2>k, <3>5, <3>9 DEF RowsKeptOrRedone
    <3> QED BY <3>8, <3>10
  <2>2. CASE ~ EvaluationWrites
    <3>1. /\ PatchSetIds \subseteq PatchSetIds'
          /\ \A k \in PatchSetIds' \ PatchSetIds : \E v : patchSets'[k] = NewPatchSet(v)
          /\ \A k \in PatchSetIds : SameJudgement(patchSets'[k], patchSets[k])
      BY <2>2, NextKeepsRows DEF RowsKept
    <3>2. \A v : ~ NewPatchSet(v).evaluated BY DEF NewPatchSet
    <3>i. IdleWorker.pc = "idle" /\ IdleWorker.patchSet = NoPatchSet BY DEF IdleWorker
    <3>3. JudgedInHand'
      <4>1. CASE worker'[n] = worker[n]
        BY <2>j, <2>k, <3>1, <4>1 DEF JudgedInHand, At, Current, SameJudgement
      <4>2. CASE worker'[n] = IdleWorker BY <3>i, <4>2 DEF JudgedInHand, At, Current
      <4>3. CASE TakeJob(n)
        <5>1. worker'[n].pc = "start" BY <2>n, <4>3 DEF TakeJob, TypeOK, IdleWorker
        <5> QED BY <5>1 DEF JudgedInHand, At
      <4>4. CASE At(n, "start") /\ Goto(n, "clear")
        BY <2>g, <4>4 DEF JudgedInHand, At
      <4>5. CASE At(n, "conclude") /\ Goto(n, "emit")
        <5>1. worker'[n].pc = "emit" /\ Current(n)' = i BY <2>g, <4>5
        <5>2. i \in PatchSetIds /\ patchSets[i].rows = patchSets[i].verdict
          BY <2>j, <2>k, <4>5 DEF JudgedInHand, At
        <5> HIDE DEF i
        <5> QED BY <3>1, <5>1, <5>2 DEF JudgedInHand, At, SameJudgement
      <4>6. ~ At(n, "fail") BY <2>k DEF JudgedInHand
      <4>7. CrashWorker(n) => worker'[n] = IdleWorker BY <2>n DEF CrashWorker, TypeOK
      <4> QED BY <2>2, <2>f, <4>1, <4>2, <4>3, <4>4, <4>5, <4>6, <4>7, EvaluationPc
    <3>4. ASSUME NEW k \in PatchSetIds, Reevaluating(k), patchSets[k].rows # patchSets[k].verdict
          PROVE  Reevaluating(k)'
      <4> DEFINE Queued(q) == \E m \in DOMAIN q : q[m].patchSet = k
      <4>r. Reevaluating(k)' <=> Current(n)' = k \/ Queued(jobQ'[n]) BY DEF Reevaluating, Current
      <4>s. Current(n) = k \/ Queued(jobQ[n]) BY <3>4 DEF Reevaluating, Current
      <4>t. jobQ[n] \in Seq(QueuedJob) BY <2>n DEF TypeOK
      <4>u. ASSUME NEW entry \in QueuedJob, jobQ'[n] = Append(jobQ[n], entry)
            PROVE  (Queued(jobQ[n]) => Queued(jobQ'[n])) /\ (entry.patchSet = k => Queued(jobQ'[n]))
        BY <4>t, <4>u, AppendHolds
      <4>1. CASE worker'[n] = worker[n] /\ jobQ'[n] = jobQ[n] BY <4>1, <4>r, <4>s DEF Current
      <4>2. CASE worker'[n] = worker[n] /\ \E o \in Orchestrators : EnqueueJob(o)
        <5>1. PICK o \in Orchestrators : EnqueueJob(o) BY <4>2
        <5>2. PICK j \in orch[o].jobs :
                jobQ' = [jobQ EXCEPT ![j.name] =
                          Append(@, [patchSet |-> j.patchSet, left |-> JobAttempts, fresh |-> TRUE, stalls |-> 0])]
          BY <5>1 DEF EnqueueJob
        <5>3. CASE j.name = n
          <6> DEFINE entry == [patchSet |-> j.patchSet, left |-> JobAttempts, fresh |-> TRUE, stalls |-> 0]
          <6>1. j.patchSet \in Nat BY DEF TypeOK, OrchRecord
          <6>2. entry \in QueuedJob
            BY <6>1, AttemptsAssumption DEF AttemptsAssumption, QueuedJob
          <6>3. jobQ'[n] = Append(jobQ[n], entry) BY <2>n, <5>2, <5>3 DEF TypeOK
          <6> HIDE DEF entry
          <6> QED BY <4>2, <4>r, <4>s, <4>u, <6>2, <6>3 DEF Current
        <5>4. CASE j.name # n
          <6>1. jobQ'[n] = jobQ[n] BY <2>n, <5>2, <5>4 DEF TypeOK
          <6> QED BY <4>2, <4>r, <4>s, <6>1 DEF Current
        <5> QED BY <5>3, <5>4
      <4>3. CASE GoesOn(n) BY <4>3, <4>r, <4>s DEF GoesOn
      <4>4. CASE IsOver(n)
        <5>1. Current(n) # k
          <6> SUFFICES ASSUME Current(n) = k PROVE FALSE OBVIOUS
          <6>1. ~ At(n, "idle") BY <2>k, <2>o DEF JudgedInHand
          <6>2. ~ At(n, "emit") BY <2>k, <3>4 DEF JudgedInHand, At
          <6>3. ~ At(n, "fail") BY <2>k DEF JudgedInHand
          <6>4. ~ TakeJob(n) BY <6>1 DEF TakeJob
          <6>5. worker'[n] # worker[n] BY <3>i, <4>4, <6>1 DEF IsOver, At
          <6>6. \A pc \in {"clear", "emit"} : ~ Goto(n, pc) BY <2>g, <3>i, <4>4 DEF IsOver
          <6>7. ~ CrashWorker(n)
            <7>1. \A entry \in QueuedJob : Append(jobQ[n], entry) # jobQ[n]
              BY <4>t, AppendProperties, LenProperties
            <7>2. [patchSet |-> worker[n].patchSet, left |-> worker[n].left, fresh |-> FALSE,
                   stalls |-> worker[n].stalls + 1] \in QueuedJob
              BY <2>n DEF TypeOK, WorkerRecord, QueuedJob
            <7>3. ~ OfferAgain(n, worker[n].left, worker[n].stalls + 1)
              BY <2>n, <4>4, <7>1, <7>2 DEF OfferAgain, IsOver, TypeOK
            <7>4. worker[n].stalls \in Nat /\ worker[n].stalls <= crashes
              BY <2>n DEF TypeOK, WorkerRecord, VerdictInvariant, StallsCounted
            <7>5. crashes' = crashes + 1 => worker[n].stalls < MaxStalledCount
              BY <1>2, <2>c, <2>m, <7>4 DEF Unstalled
            <7> QED BY <7>3, <7>5 DEF CrashWorker
          <6> QED BY <2>2, <2>f, <6>2, <6>3, <6>4, <6>5, <6>6, <6>7, EvaluationPc
        <5> QED BY <4>4, <4>r, <4>s, <5>1 DEF IsOver
      <4>5. CASE IsOfferedAgain(n)
        <5>1. PICK left \in Nat, stalls \in Nat :
                jobQ'[n] = Append(jobQ[n], [patchSet |-> Current(n), left |-> left, fresh |-> FALSE, stalls |-> stalls])
          BY <4>5 DEF IsOfferedAgain
        <5> DEFINE entry == [patchSet |-> Current(n), left |-> left, fresh |-> FALSE, stalls |-> stalls]
        <5>2. entry \in QueuedJob BY <2>n DEF TypeOK, WorkerRecord, Current, QueuedJob
        <5>3. entry.patchSet = Current(n) /\ jobQ'[n] = Append(jobQ[n], entry) BY <5>1
        <5> HIDE DEF entry
        <5> QED BY <4>r, <4>s, <4>u, <5>2, <5>3
      <4>6. CASE TakeJob(n)
        <5>1. PICK m \in Takeable(jobQ[n]) :
                /\ jobQ' = [jobQ EXCEPT ![n] = Without(@, m)]
                /\ worker' = [worker EXCEPT ![n] =
                     [IdleWorker EXCEPT !.pc = "start", !.patchSet = jobQ[n][m].patchSet,
                                        !.left = jobQ[n][m].left, !.stalls = jobQ[n][m].stalls,
                                        !.sawStage = stage, !.sawStatus = stageStatus]]
          BY <4>6 DEF TakeJob
        <5>2. Current(n)' = jobQ[n][m].patchSet BY <2>n, <5>1 DEF TypeOK, Current, IdleWorker
        <5>3. jobQ'[n] = Without(jobQ[n], m) /\ m \in DOMAIN jobQ[n]
          BY <2>n, <5>1, TakeableInDomain DEF TypeOK
        <5>4. Current(n) # k BY <2>k, <2>o, <4>6 DEF TakeJob, JudgedInHand
        <5>5. PICK at \in DOMAIN jobQ[n] : jobQ[n][at].patchSet = k BY <4>s, <5>4
        <5>6. CASE at = m BY <4>r, <5>2, <5>5, <5>6
        <5>7. CASE at # m BY <4>r, <4>t, <5>3, <5>5, <5>7, WithoutHolds
        <5> QED BY <5>6, <5>7
      <4> QED BY <2>n, <4>1, <4>2, <4>3, <4>4, <4>5, <4>6, JobInHand
    <3>5. RowsKeptOrRedone'
      BY <2>k, <3>1, <3>2, <3>4 DEF RowsKeptOrRedone, SameJudgement
    <3> QED BY <3>3, <3>5
  <2> QED BY <2>1, <2>2
<1> QED BY <1>1, <1>2, <1>s DEF VerdictInvariant

LEMMA InitJudges ==
  ASSUME Init
  PROVE  VerdictInvariant
<1>1. worker["evaluate_policy"] = IdleWorker BY DEF Init, JobName, PatchJob
<1>2. JudgedInHand BY <1>1 DEF JudgedInHand, At, Current, IdleWorker
<1>3. RowsKeptOrRedone BY InitRows DEF RowsKeptOrRedone
<1>4. StallsCounted
  <2>1. jobQ["evaluate_policy"] = <<>> BY DEF Init, GatedInit, LegacyInit, JobName, PatchJob
  <2>2. crashes = 0 /\ IdleWorker.stalls = 0 BY DEF Init, IdleWorker
  <2>3. <<>> \in Seq(StalledJobs) OBVIOUS
  <2> QED BY <1>1, <2>1, <2>2, <2>3 DEF StallsCounted
<1> QED BY <1>2, <1>3, <1>4, InitNames DEF VerdictInvariant

(* While no call has failed and processes died no more often than BullMQ      *)
(* offers one job again, an evaluated patch set has the violation rows of its *)
(* last verdict, or its evaluation is queued or running again: also where it  *)
(* died between deleting the rows and writing them, and when sets are         *)
(* evaluated twice.                                                          *)
THEOREM ViolationsKeptHolds == Spec => []ViolationsKept
<1>1. Init => VerdictInvariant BY InitJudges
<1>2. TypeOK /\ VerdictInvariant /\ [Next]_vars => VerdictInvariant' BY NextJudges, PatchAssumption
<1>3. VerdictInvariant => ViolationsKept BY DEF VerdictInvariant, Unstalled, RowsKeptOrRedone, ViolationsKept
<1> QED BY <1>1, <1>2, <1>3, TypeCorrect, PTL DEF Spec

-----------------------------------------------------------------------------
(* What is on its way: the events EV that are queued or in an orchestrator's   *)
(* hands, the states ST it saw, decided or wrote, the jobs JB it will enqueue, *)
(* and the jobs WB that are queued or at work.                                *)
EventsIn(EV) == {q \in QueuedEvent : q.ev \in EV}
OrchestratorIn(m, EV, ST, JB) ==
  /\ m.pc # "idle" => m.ev \in EV /\ m.seen \in ST
  /\ m.pc = "commit" => m.next \in ST
  /\ \A j \in m.jobs : j.name \in JB
Flow(EV, ST, JB, WB) ==
  /\ state \in ST
  /\ orchQ \in Seq(EventsIn(EV))
  /\ \A o \in Orchestrators : OrchestratorIn(orch[o], EV, ST, JB)
  /\ \A n \in JobName : Busy(n) => n \in WB
FlowAfter(EV, ST, JB, WB) ==
  /\ state' \in ST
  /\ orchQ' \in Seq(EventsIn(EV))
  /\ \A o \in Orchestrators : OrchestratorIn(orch'[o], EV, ST, JB)
  /\ \A n \in JobName : Busy(n)' => n \in WB

Calm == faults + crashes = 0

-----------------------------------------------------------------------------
(* The legacy flow. *)
LegacyClients ==
  /\ Origin = "legacy"
  /\ Actions \cap {"approveStage", "requestStageChanges", "retryStage", "regeneratePatches"} = {}

IngestOver == ~ Busy("ingest_context")
OneIngest ==
  LET n == "ingest_context" IN Len(jobQ[n]) <= 1 /\ (At(n, "idle") \/ jobQ[n] = <<>>)

AllDecided == IngestOver /\ WithStatus("proposed") = {}
OneSet == NumRepos = 1 /\ Calm
NoneBlocked == IngestOver /\ (OneSet => \A i \in PatchSetIds : patchSets[i].verdict # "block")

LegacyEvents ==
  {ev \in Event :
     /\ ev.type \notin StageEvents \cup {"E_WORKFLOW_CREATED"}
     /\ ev.type = "E_JOB_COMPLETED" /\ ev.stage = "ingest_context" => IngestOver
     /\ ev.type = "E_POLICY_EVALUATED" /\ ~ ev.flag => NoneBlocked}
LegacyStates ==
  {s \in WorkflowState :
     /\ s \notin {"INGESTED", "CANCELLED"} \cup HaltingStates => IngestOver
     /\ s \in {"WAITING_USER_APPROVAL", "APPLYING_PATCHES"} => AllDecided /\ NoneBlocked}
LegacyJobs ==
  {n \in {"evaluate_policy", "apply_patches"} :
     IngestOver /\ (n = "apply_patches" => NoneBlocked)}

LegacyRequest(q) ==
  /\ "update" \in q.todo => q.row.state \in {Keep, "REJECTED", "CANCELLED"}
  /\ "emit" \in q.todo => q.ev.type \in {"E_STAGE_REJECTED", "E_APPROVAL_RECORDED",
                                         "E_PATCH_SET_REJECTED", "E_CHANGES_REQUESTED"}

FirstIngest ==
  LET n == "ingest_context" IN
  /\ Len(patchSets) <= 1
  /\ jobQ[n] # <<>> \/ worker[n].pc \in {"start", "run"} => patchSets = <<>>
  /\ worker[n].pc \in {"start", "run"} => worker[n].made = 0
  /\ worker[n].pc \notin {"caught", "throw"}

LegacyInvariant ==
  /\ Flow(LegacyEvents, LegacyStates, LegacyJobs, LegacyJobs \cup {"ingest_context"})
  /\ OneIngest
  /\ \A r \in Requests : LegacyRequest(req[r])
  /\ OneSet => FirstIngest
  /\ NumRepos = 1 => NoPrForBlockedPatch

-----------------------------------------------------------------------------
(* A gated workflow from the policy stage on. *)
LateGated ==
  /\ Origin = "gated" /\ StartStage \in {"policy", "sandbox", "pr"}
  /\ "regeneratePatches" \notin Actions

PastPolicy(ev) ==
  \/ ev.type = "E_STAGE_APPROVED" /\ ev.stage # "patches"
  \/ ev.type \in {"E_STAGE_CHANGES_REQUESTED", "E_STAGE_RETRY"} /\ ev.stage # "policy"

LateEvents ==
  {ev \in Event :
     /\ ev.type # "E_WORKFLOW_CREATED"
     /\ ev.type = "E_STAGE_APPROVED" => ev.stage \in {"patches", "policy", "sandbox", "pr"}
     /\ ev.type \in {"E_STAGE_CHANGES_REQUESTED", "E_STAGE_RETRY"} =>
          ev.stage \in {"policy", "sandbox", "pr"}
     /\ PastPolicy(ev) => stage # "policy"}
LateStates == {"INTAKE"} \cup HaltingStates
LateJobs == {n \in PatchJob : n # "evaluate_policy" => stage # "policy"}

Clean == \A i \in WithStatus("proposed") : patchSets[i].verdict # "block"
VerdictsClean == IF NumRepos = 1 THEN \A i \in PatchSetIds : patchSets[i].verdict # "block"
                 ELSE Calm => Clean

LateRequest(q) ==
  /\ "update" \in q.todo =>
       /\ q.row.state \in LateStates \cup {Keep}
       /\ q.row.stage \in {Keep, "sandbox", "pr", "done"}
       /\ q.row.stage # Keep => VerdictsClean
       /\ q.row.stageStatus # "ready"
  /\ "emit" \in q.todo =>
       /\ q.ev.type # "E_WORKFLOW_CREATED"
       /\ q.ev.type = "E_STAGE_APPROVED" => q.ev.stage \in {"policy", "sandbox", "pr"}
       /\ q.ev.type \in {"E_STAGE_CHANGES_REQUESTED", "E_STAGE_RETRY"} =>
            q.ev.stage \in {"policy", "sandbox", "pr"}
       /\ PastPolicy(q.ev) => stage # "policy" \/ ("update" \in q.todo /\ q.row.stage # Keep)
  /\ "decide" \in q.todo /\ q.decision = "approve" => "update" \in q.todo /\ q.row.stage # Keep

EvaluationInHand ==
  LET n == "evaluate_policy" IN
  /\ worker[n].pc \in {"event", "conclude"} =>
       patchSets[Current(n)].rows = patchSets[Current(n)].verdict
  /\ Calm => \A i \in PatchSetIds :
       patchSets[i].evaluated /\ patchSets[i].rows # patchSets[i].verdict =>
         At(n, "record") /\ Current(n) = i

LateInvariant ==
  /\ Flow(LateEvents, LateStates, LateJobs, LateJobs)
  /\ Len(patchSets) = NumRepos
  /\ stage \in {"policy", "sandbox", "pr", "done"}
  /\ \A r \in Requests : LateRequest(req[r])
  /\ EvaluationInHand
  /\ stage = "policy" /\ stageStatus = "ready" => VerdictsClean
  /\ stage # "policy" => VerdictsClean
  /\ NumRepos = 1 => NoPrForBlockedPatch

-----------------------------------------------------------------------------
(* What an orchestrator, a request and a processor do, whatever is in flight *)

LEMMA OrchestratorSteps ==
  ASSUME TypeOK, NEW o \in Orchestrators, HandleEvent(o) \/ FailEvent(o) \/ CrashOrchestrator(o)
  PROVE  /\ \A p \in Orchestrators : p # o => orch'[p] = orch[p]
         /\ \/ /\ orch'[o].pc = "decide" /\ orch'[o].seen = state /\ orch'[o].jobs = {}
               /\ \E i \in DOMAIN orchQ : orch'[o].ev = orchQ[i].ev /\ orchQ' = Without(orchQ, i)
               /\ UNCHANGED <<state, jobQ>>
            \/ /\ DecideTransition(o)
               /\ orch'[o].pc = "commit"
               /\ orch'[o].seen = orch[o].seen /\ orch'[o].ev = orch[o].ev
               /\ UNCHANGED <<state, orchQ, jobQ>>
            \/ /\ orch[o].pc = "commit" /\ orch'[o].pc = "enqueue"
               /\ orch'[o].seen = orch[o].seen /\ orch'[o].ev = orch[o].ev
               /\ orch'[o].jobs = orch[o].jobs
               /\ state' = state \/ state' = orch[o].next
               /\ UNCHANGED <<orchQ, jobQ>>
            \/ /\ orch[o].pc = "enqueue" /\ orch'[o].pc = "enqueue"
               /\ orch'[o].seen = orch[o].seen /\ orch'[o].ev = orch[o].ev
               /\ \E j \in orch[o].jobs :
                    /\ orch'[o].jobs = orch[o].jobs \ {j}
                    /\ \A n \in JobName \ {j.name} : jobQ'[n] = jobQ[n]
               /\ UNCHANGED <<state, orchQ>>
            \/ /\ orch[o].pc # "idle" /\ orch'[o] = IdleOrch
               /\ \/ orchQ' = orchQ
                  \/ \E left, stalls \in Nat :
                       orchQ' = Append(orchQ, [ev |-> orch[o].ev, left |-> left, fresh |-> FALSE, stalls |-> stalls])
               /\ UNCHANGED <<state, jobQ>>
         /\ UNCHANGED <<stage, stageStatus, patchSets, approved>>
<1>t. orch[o] \in OrchRecord BY DEF TypeOK
<1>a. ASSUME NEW m, orch' = [orch EXCEPT ![o] = m]
      PROVE  orch'[o] = m /\ \A p \in Orchestrators : p # o => orch'[p] = orch[p]
  BY <1>a DEF TypeOK
<1>1. CASE TakeEvent(o)
  <2>1. PICK i \in Takeable(orchQ) :
          /\ orchQ' = Without(orchQ, i)
          /\ orch' = [orch EXCEPT ![o] =
               [IdleOrch EXCEPT !.pc = "decide", !.ev = orchQ[i].ev,
                                !.left = orchQ[i].left, !.stalls = orchQ[i].stalls, !.seen = state]]
    BY <1>1 DEF TakeEvent
  <2> DEFINE m == [IdleOrch EXCEPT !.pc = "decide", !.ev = orchQ[i].ev,
                                   !.left = orchQ[i].left, !.stalls = orchQ[i].stalls, !.seen = state]
  <2>2. m.seen = state /\ m.pc = "decide" /\ m.jobs = {} /\ m.ev = orchQ[i].ev BY DEF IdleOrch
  <2>3. orch' = [orch EXCEPT ![o] = m] BY <2>1
  <2>4. i \in DOMAIN orchQ BY <2>1, TakeableInDomain
  <2> HIDE DEF m
  <2> QED BY <1>1, <1>a, <2>1, <2>2, <2>3, <2>4 DEF TakeEvent, rowVars
<1>2. CASE DecideTransition(o)
  <2> DEFINE res == Transition(orch[o].seen, orch[o].ev, TransitionContext)
             m == [orch[o] EXCEPT !.pc = "commit", !.next = res.next, !.jobs = res.jobs]
  <2>1. orch' = [orch EXCEPT ![o] = m] BY <1>2 DEF DecideTransition, TypeOK
  <2> HIDE DEF res
  <2>2. m.pc = "commit" /\ m.seen = orch[o].seen /\ m.ev = orch[o].ev BY <1>t DEF OrchRecord
  <2> HIDE DEF m
  <2> QED BY <1>2, <1>a, <2>1, <2>2 DEF DecideTransition, rowVars, queueVars
<1>3. CASE WriteTransitionResult(o)
  <2> DEFINE m == [orch[o] EXCEPT !.pc = "enqueue"]
  <2>1. orch' = [orch EXCEPT ![o] = m] BY <1>3 DEF WriteTransitionResult, TypeOK
  <2>2. m.pc = "enqueue" /\ m.seen = orch[o].seen /\ m.ev = orch[o].ev /\ m.jobs = orch[o].jobs
    BY <1>t DEF OrchRecord
  <2> HIDE DEF m
  <2> QED BY <1>3, <1>a, <2>1, <2>2 DEF WriteTransitionResult, queueVars
<1>4. CASE EnqueueJob(o)
  <2>1. PICK j \in orch[o].jobs :
       /\ jobQ' = [jobQ EXCEPT ![j.name] =
            Append(@, [patchSet |-> j.patchSet, left |-> JobAttempts, fresh |-> TRUE, stalls |-> 0])]
       /\ orch' = [orch EXCEPT ![o].jobs = @ \ {j}]
    BY <1>4 DEF EnqueueJob
  <2> DEFINE m == [orch[o] EXCEPT !.jobs = orch[o].jobs \ {j}]
  <2>2. orch' = [orch EXCEPT ![o] = m] BY <2>1 DEF TypeOK
  <2>3. /\ m.pc = orch[o].pc /\ m.seen = orch[o].seen /\ m.ev = orch[o].ev
        /\ m.jobs = orch[o].jobs \ {j}
    BY <1>t DEF OrchRecord
  <2>4. \A n \in JobName \ {j.name} : jobQ'[n] = jobQ[n] BY <2>1 DEF TypeOK
  <2> HIDE DEF m
  <2> QED BY <1>4, <1>a, <2>2, <2>3, <2>4 DEF EnqueueJob, rowVars
<1>5. CASE FinishEvent(o) \/ FailEvent(o) \/ CrashOrchestrator(o)
  <2>1. orch' = [orch EXCEPT ![o] = IdleOrch] /\ orch[o].pc # "idle"
    BY <1>5 DEF FinishEvent, FailEvent, CrashOrchestrator
  <2>4. \/ orchQ' = orchQ
        \/ \E left, stalls \in Nat : orchQ' = Append(orchQ, [ev |-> orch[o].ev, left |-> left, fresh |-> FALSE, stalls |-> stalls])
    BY <1>5, EventOfferedAgain
  <2>5. UNCHANGED <<state, jobQ, stage, stageStatus, patchSets, approved>>
    BY <1>5 DEF FinishEvent, FailEvent, CrashOrchestrator, queueVars, rowVars
  <2> QED BY <1>a, <2>1, <2>4, <2>5
<1> QED BY <1>1, <1>2, <1>3, <1>4, <1>5 DEF HandleEvent

LEMMA OrchestratorFlow ==
  ASSUME TypeOK, NEW o \in Orchestrators, HandleEvent(o) \/ FailEvent(o) \/ CrashOrchestrator(o),
         UNCHANGED worker,
         NEW EV, NEW ST, NEW JB, NEW WB, JB \subseteq WB, Flow(EV, ST, JB, WB),
         NEW EV2, NEW ST2, NEW JB2, NEW WB2,
         EV \subseteq EV2, ST \subseteq ST2, JB \subseteq JB2, WB \subseteq WB2,
         DecideTransition(o) => orch'[o].next \in ST2 /\ \A j \in orch'[o].jobs : j.name \in JB2
  PROVE  FlowAfter(EV2, ST2, JB2, WB2)
<1>a. /\ state \in ST /\ orchQ \in Seq(EventsIn(EV))
      /\ \A p \in Orchestrators : OrchestratorIn(orch[p], EV, ST, JB)
      /\ \A n \in JobName : Busy(n) => n \in WB
  BY DEF Flow
<1>b. EventsIn(EV) \subseteq EventsIn(EV2) BY DEF EventsIn
<1>c. orchQ \in Seq(EventsIn(EV2)) BY <1>a, <1>b, SeqMonotonic
<1>d. \A p \in Orchestrators : OrchestratorIn(orch[p], EV2, ST2, JB2)
  BY <1>a DEF OrchestratorIn
<1>e. ASSUME OrchestratorIn(orch'[o], EV2, ST2, JB2), state' \in ST2,
             orchQ' \in Seq(EventsIn(EV2)),
             \A n \in JobName : Busy(n)' => n \in WB2
      PROVE  FlowAfter(EV2, ST2, JB2, WB2)
  <2>1. \A p \in Orchestrators : OrchestratorIn(orch'[p], EV2, ST2, JB2)
    BY <1>d, <1>e, OrchestratorSteps DEF OrchestratorIn
  <2> QED BY <1>e, <2>1 DEF FlowAfter
<1>f. ASSUME UNCHANGED jobQ
      PROVE  \A n \in JobName : Busy(n)' => n \in WB2
  BY <1>a, <1>f DEF Busy, At
<1>1. CASE /\ orch'[o].pc = "decide" /\ orch'[o].seen = state /\ orch'[o].jobs = {}
           /\ \E i \in DOMAIN orchQ : orch'[o].ev = orchQ[i].ev /\ orchQ' = Without(orchQ, i)
           /\ UNCHANGED <<state, jobQ>>
  <2>1. PICK i \in DOMAIN orchQ : orch'[o].ev = orchQ[i].ev /\ orchQ' = Without(orchQ, i) BY <1>1
  <2>2. orchQ[i] \in EventsIn(EV2) /\ orchQ' \in Seq(EventsIn(EV2))
    BY <1>c, <2>1, QueueElement, WithoutType
  <2>3. OrchestratorIn(orch'[o], EV2, ST2, JB2) BY <1>1, <1>a, <2>1, <2>2 DEF OrchestratorIn, EventsIn
  <2> QED BY <1>1, <1>a, <1>e, <1>f, <2>2, <2>3
<1>2. CASE /\ DecideTransition(o)
           /\ orch'[o].pc = "commit"
           /\ orch'[o].seen = orch[o].seen /\ orch'[o].ev = orch[o].ev
           /\ UNCHANGED <<state, orchQ, jobQ>>
  <2>1. OrchestratorIn(orch'[o], EV2, ST2, JB2)
    BY <1>2, <1>d DEF OrchestratorIn, DecideTransition
  <2> QED BY <1>2, <1>a, <1>c, <1>e, <1>f, <2>1
<1>3. CASE /\ orch[o].pc = "commit" /\ orch'[o].pc = "enqueue"
           /\ orch'[o].seen = orch[o].seen /\ orch'[o].ev = orch[o].ev
           /\ orch'[o].jobs = orch[o].jobs
           /\ state' = state \/ state' = orch[o].next
           /\ UNCHANGED <<orchQ, jobQ>>
  <2>1. OrchestratorIn(orch'[o], EV2, ST2, JB2) /\ state' \in ST2
    BY <1>3, <1>a, <1>d DEF OrchestratorIn
  <2> QED BY <1>3, <1>c, <1>e, <1>f, <2>1
<1>4. CASE /\ orch[o].pc = "enqueue" /\ orch'[o].pc = "enqueue"
           /\ orch'[o].seen = orch[o].seen /\ orch'[o].ev = orch[o].ev
           /\ \E j \in orch[o].jobs :
                /\ orch'[o].jobs = orch[o].jobs \ {j}
                /\ \A n \in JobName \ {j.name} : jobQ'[n] = jobQ[n]
           /\ UNCHANGED <<state, orchQ>>
  <2>1. PICK j \in orch[o].jobs : /\ orch'[o].jobs = orch[o].jobs \ {j}
                                  /\ \A n \in JobName \ {j.name} : jobQ'[n] = jobQ[n]
    BY <1>4
  <2>2. OrchestratorIn(orch'[o], EV2, ST2, JB2) BY <1>4, <1>d, <2>1 DEF OrchestratorIn
  <2>3. j.name \in WB2 BY <1>a DEF OrchestratorIn
  <2>4. \A n \in JobName : Busy(n)' => n \in WB2 BY <1>a, <2>1, <2>3 DEF Busy, At
  <2> QED BY <1>4, <1>a, <1>c, <1>e, <2>2, <2>4
<1>5. CASE /\ orch[o].pc # "idle" /\ orch'[o] = IdleOrch
           /\ \/ orchQ' = orchQ
              \/ \E left, stalls \in Nat :
                   orchQ' = Append(orchQ, [ev |-> orch[o].ev, left |-> left, fresh |-> FALSE, stalls |-> stalls])
           /\ UNCHANGED <<state, jobQ>>
  <2>1. OrchestratorIn(IdleOrch, EV2, ST2, JB2) BY DEF IdleOrch, OrchestratorIn
  <2>2. orch[o].ev \in Event /\ orch[o].ev \in EV2 BY <1>5, <1>d DEF TypeOK, OrchRecord, OrchestratorIn
  <2>3. ASSUME NEW left \in Nat, NEW stalls \in Nat,
               orchQ' = Append(orchQ, [ev |-> orch[o].ev, left |-> left, fresh |-> FALSE, stalls |-> stalls])
        PROVE  orchQ' \in Seq(EventsIn(EV2))
    <3> DEFINE entry == [ev |-> orch[o].ev, left |-> left, fresh |-> FALSE, stalls |-> stalls]
    <3>1. entry \in EventsIn(EV2) BY <2>2 DEF EventsIn, QueuedEvent
    <3>2. orchQ' = Append(orchQ, entry) BY <2>3
    <3> HIDE DEF entry
    <3> QED BY <1>c, <3>1, <3>2, AppendProperties
  <2>4. orchQ' \in Seq(EventsIn(EV2)) BY <1>5, <1>c, <2>3
  <2> QED BY <1>5, <1>a, <1>e, <1>f, <2>1, <2>4
<1> QED BY <1>1, <1>2, <1>3, <1>4, <1>5, OrchestratorSteps

(* The events of the processors, and the step that emits each *)
Emitted(ev) ==
  \/ \E n \in AnalysisJob : ev = OfStage("E_JOB_COMPLETED", StageName[n])
  \/ ev = OfStage("E_JOB_COMPLETED", "ingest_context") /\ IngestCompleted
  \/ \E n \in JobName : ev = OfStage("E_JOB_FAILED", StageName[n])
  \/ /\ ev = Flagged("E_POLICY_EVALUATED", "none",
                     patchSets[Current("evaluate_policy")].verdict = "block")
     /\ EvaluationCompleted
  \/ ev = Flagged("E_POLICY_EVALUATED", "none", FALSE) /\ EvaluationFailed
  \/ ev = OfStage("E_JOB_COMPLETED", "sandbox")
  \/ \E f \in BOOLEAN, t \in {"E_JOB_COMPLETED", "E_JOB_FAILED"} : ev = Flagged(t, "apply_patches", f)

LEMMA EmittedIsEvent == \A ev : Emitted(ev) => ev \in Event
<1>1. StageName["ingest_context"] = "ingest_context" /\ StageName["sandbox_validation"] = "sandbox"
  BY DEF StageName
<1>2. "ingest_context" \in JobName /\ "sandbox_validation" \in JobName /\ AnalysisJob \subseteq JobName
  BY DEF JobName, PatchJob
<1> QED BY <1>1, <1>2, EventTypes DEF Emitted

LEMMA ProcessorEmits ==
  ASSUME TypeOK, PatchAssumption,
         WorkerStep \/ WorkerFault \/ (\E n \in JobName : CrashWorker(n))
  PROVE  orchQ' = orchQ \/ \E ev : Emitted(ev) /\ EmitFromWorker(ev)
<1>a. ASSUME NEW n, NEW ev, EmitAndReturn(n, ev) PROVE EmitFromWorker(ev) BY <1>a DEF EmitAndReturn
<1>b. ASSUME NEW n \in JobName, EmitFailureAndThrow(n)
      PROVE  \E ev : Emitted(ev) /\ EmitFromWorker(ev)
  BY <1>b DEF EmitFailureAndThrow, Emitted
<1>c. \A n, pcs, handler : CallFails(n, pcs, handler) => orchQ' = orchQ BY DEF CallFails, queueVars
<1>3. CASE \E n \in JobName : TakeJob(n) \/ FailBeforeTry(n) \/ CrashWorker(n)
  BY <1>3 DEF TakeJob, FailBeforeTry, CrashWorker
<1>4. CASE \E n \in AnalysisJob : ProcessAnalysis(n)
  <2>1. PICK n \in AnalysisJob : ProcessAnalysis(n) BY <1>4
  <2>2. AnalysisCompleted(n) => \E ev : Emitted(ev) /\ EmitFromWorker(ev)
    BY <1>a DEF AnalysisCompleted, Emitted
  <2> QED BY <2>1, <2>2, <1>b DEF ProcessAnalysis, StartAnalysis, SaveArtifact, AnalysisReady, AnalysisCaught,
                                  JobName, queueVars
<1>5. CASE IngestContext
  <2>1. IngestCompleted => \E ev : Emitted(ev) /\ EmitFromWorker(ev)
    BY <1>a DEF IngestCompleted, Emitted
  <2> QED BY <1>5, <2>1, <1>b DEF IngestContext, StartIngest, GeneratePatchSet, IngestReady, IngestCaught,
                                  JobName, queueVars
<1>6. CASE EvaluatePolicy
  <2>1. EvaluationCompleted \/ EvaluationFailed => \E ev : Emitted(ev) /\ EmitFromWorker(ev)
    BY <1>a DEF EvaluationCompleted, EvaluationFailed, Emitted
  <2> QED BY <1>6, <2>1 DEF EvaluatePolicy, StartEvaluation, BeginStage, ClearViolations, RecordViolations,
                            RecordEvaluation, ConcludePolicyStage, queueVars
<1>7. CASE SandboxValidation
  <2>1. SandboxCompleted => \E ev : Emitted(ev) /\ EmitFromWorker(ev)
    BY <1>a DEF SandboxCompleted, Emitted
  <2>2. EmitFailureAndThrow("sandbox_validation") => \E ev : Emitted(ev) /\ EmitFromWorker(ev)
    BY <1>b DEF JobName, PatchJob
  <2> QED BY <1>7, <2>1, <2>2 DEF SandboxValidation, StartSandbox, BeginStage, SkipSandbox, SandboxUnset,
                            ValidatePatches, PushSandboxBranch, RecordSandboxRun, ConcludeSandboxStage,
                            SandboxCaught, queueVars
<1>8. CASE ApplyPatches
  <2>1. worker["apply_patches"].flag \in BOOLEAN /\ (~ SkipPr) \in BOOLEAN
    BY DEF TypeOK, WorkerRecord, JobName, PatchJob, PatchAssumption
  <2>2. ApplyCompleted => \E ev : Emitted(ev) /\ EmitFromWorker(ev)
    <3>1. Emitted(Flagged("E_JOB_COMPLETED", "apply_patches", ~ SkipPr)) BY <2>1 DEF Emitted
    <3> QED BY <1>a, <3>1 DEF ApplyCompleted
  <2>3. ApplyFailed => \E ev : Emitted(ev) /\ EmitFromWorker(ev)
    <3>1. Emitted(Flagged("E_JOB_FAILED", "apply_patches", worker["apply_patches"].flag)) BY <2>1 DEF Emitted
    <3> QED BY <1>a, <3>1 DEF ApplyFailed
  <2> QED BY <1>8, <2>2, <2>3 DEF ApplyPatches, StartApply, BeginStage, SkipApply, SkipApplyReady,
                            PushPrBranch, OpenPullRequest, RecordPullRequest, MarkApplied,
                            ConcludePrStage, queueVars
<1>9. CASE WorkerStep
  BY <1>9, <1>3, <1>4, <1>5, <1>6, <1>7, <1>8
  DEF WorkerStep, FeasibilityAnalysis, ArchitectureAnalysis, TimelineAnalysis, SummaryAnalysis, AnalysisJob
<1>10. CASE WorkerFault
  BY <1>10, <1>3, <1>c DEF WorkerFault, AnalysisFault, IngestFault, EvaluationFault, SandboxFault, ApplyFault
<1> QED BY <1>3, <1>9, <1>10

LEMMA ProcessorFlow ==
  ASSUME TypeOK, AttemptsAssumption, PatchAssumption,
         WorkerStep \/ WorkerFault \/ (\E n \in JobName : CrashWorker(n)), UNCHANGED orch,
         NEW EV, NEW ST, NEW JB, NEW WB, Flow(EV, ST, JB, WB),
         NEW EV2, NEW ST2, NEW JB2, NEW WB2,
         EV \subseteq EV2, ST \subseteq ST2, JB \subseteq JB2, WB \subseteq WB2,
         \A ev : Emitted(ev) => ev \in EV2
  PROVE  FlowAfter(EV2, ST2, JB2, WB2)
<1>1. PICK n \in JobName : ProcessorEffect(n) BY ProcessorSteps
<1>2. state' \in ST2 BY <1>1 DEF ProcessorEffect, Flow
<1>3. \A o \in Orchestrators : OrchestratorIn(orch'[o], EV2, ST2, JB2) BY DEF Flow, OrchestratorIn
<1>4. \A m \in JobName : Busy(m)' => m \in WB2
  BY <1>1 DEF ProcessorEffect, Flow, Busy, At
<1>5. orchQ \in Seq(EventsIn(EV2))
  <2>1. EventsIn(EV) \subseteq EventsIn(EV2) BY DEF EventsIn
  <2> QED BY <2>1, SeqMonotonic DEF Flow
<1>6. orchQ' \in Seq(EventsIn(EV2))
  <2>1. ASSUME NEW ev, Emitted(ev), EmitFromWorker(ev) PROVE orchQ' \in Seq(EventsIn(EV2))
    <3> DEFINE entry == [ev |-> ev, left |-> OrchAttempts, fresh |-> TRUE, stalls |-> 0]
    <3>1. ev \in Event /\ ev \in EV2 BY <2>1, EmittedIsEvent
    <3>2. entry \in EventsIn(EV2) BY <3>1, AttemptsAssumption DEF EventsIn, QueuedEvent, AttemptsAssumption
    <3>3. orchQ' = Append(orchQ, entry) BY <2>1 DEF EmitFromWorker
    <3> HIDE DEF entry
    <3> QED BY <1>5, <3>2, <3>3, AppendProperties
  <2> QED BY <1>5, <2>1, ProcessorEmits
<1> QED BY <1>2, <1>3, <1>4, <1>6 DEF FlowAfter

(* Requests: one is begun, gives up or ends, or has made one more write. *)
Asks(r, todo, row, ev) ==
  req'[r].todo = todo /\ req'[r].row = row /\ req'[r].ev = ev
Asked(r) ==
  \/ /\ "approveStage" \in Actions /\ stage \in ValidStages /\ stageStatus = "ready"
     /\ Asks(r, {"decide", "update", "emit"} \cup (IF stage = "policy" THEN {"check"} ELSE {}),
             ApprovedRow(stage, state), OfStage("E_STAGE_APPROVED", stage))
     /\ req'[r].decision = "approve" /\ req'[r].stage = stage
  \/ /\ "rejectStage" \in Actions /\ stage \in ValidStages
     /\ Asks(r, {"decide", "update", "emit"}, Row("REJECTED", Keep, "rejected"),
             OfStage("E_STAGE_REJECTED", stage))
     /\ req'[r].decision # "approve"
  \/ /\ "requestStageChanges" \in Actions /\ stage \in ValidStages
     /\ Asks(r, {"decide", "update", "emit"}, Row(Keep, Keep, "needs_changes"),
             OfStage("E_STAGE_CHANGES_REQUESTED", stage))
     /\ req'[r].decision # "approve"
  \/ /\ "retryStage" \in Actions /\ stage \in ValidStages
     /\ Asks(r, {"update", "emit"}, Row(Keep, Keep, "pending"), OfStage("E_STAGE_RETRY", stage))
  \/ /\ "regeneratePatches" \in Actions /\ stage = "sandbox"
     /\ Asks(r, {"mark", "decide", "update", "emit"}, Row(Keep, "patches", "pending"),
             OfStage("E_STAGE_CHANGES_REQUESTED", "patches"))
     /\ req'[r].decision # "approve"
  \/ Asks(r, {"approval", "mark", "emit"}, NoRow, Plain("E_APPROVAL_RECORDED"))
  \/ Asks(r, {"mark", "emit"}, NoRow, Plain("E_PATCH_SET_REJECTED"))
  \/ Asks(r, {"emit"}, NoRow, Plain("E_CHANGES_REQUESTED"))
  \/ /\ state \in CancellableStates
     /\ req'[r].todo = {"update"} /\ req'[r].row = Row("CANCELLED", Keep, Keep)

LEMMA ClientAsks ==
  ASSUME TypeOK, NEW r \in Requests, Client(r)
  PROVE  /\ Asked(r) /\ \A q \in Requests : q # r => req'[q] = req[q]
         /\ UNCHANGED <<rowVars, patchSets, orchQ, jobQ>>
<1>1. ASSUME NEW request, Begin(r, request)
      PROVE  /\ req'[r] = request /\ \A q \in Requests : q # r => req'[q] = req[q]
             /\ UNCHANGED <<rowVars, patchSets, orchQ, jobQ>>
  BY <1>1 DEF Begin, TypeOK, queueVars
<1>3. CASE "approveStage" \in Actions /\ ApproveStage(r)
  <2> DEFINE request == [IdleRequest EXCEPT
       !.todo = {"decide", "update", "emit"} \cup (IF stage = "policy" THEN {"check"} ELSE {}),
       !.stage = stage, !.decision = "approve",
       !.row = ApprovedRow(stage, state),
       !.ev = OfStage("E_STAGE_APPROVED", stage)]
  <2>1. /\ request.todo = {"decide", "update", "emit"} \cup (IF stage = "policy" THEN {"check"} ELSE {})
        /\ request.row = ApprovedRow(stage, state) /\ request.ev = OfStage("E_STAGE_APPROVED", stage)
        /\ request.stage = stage /\ request.decision = "approve"
    BY DEF IdleRequest
  <2>2. Begin(r, request) BY <1>3 DEF ApproveStage
  <2> HIDE DEF request
  <2> QED BY <1>1, <1>3, <2>1, <2>2 DEF Asked, Asks, ApproveStage
<1>4. CASE "rejectStage" \in Actions /\ RejectStage(r)
  <2> DEFINE request == [IdleRequest EXCEPT
       !.todo = {"decide", "update", "emit"},
       !.stage = stage, !.decision = "reject",
       !.row = Row("REJECTED", Keep, "rejected"),
       !.ev = OfStage("E_STAGE_REJECTED", stage)]
  <2>1. /\ request.todo = {"decide", "update", "emit"}
        /\ request.row = Row("REJECTED", Keep, "rejected")
        /\ request.ev = OfStage("E_STAGE_REJECTED", stage) /\ request.decision # "approve"
    BY DEF IdleRequest
  <2>2. Begin(r, request) BY <1>4 DEF RejectStage
  <2> HIDE DEF request
  <2> QED BY <1>1, <1>4, <2>1, <2>2 DEF Asked, Asks, RejectStage
<1>5. CASE "requestStageChanges" \in Actions /\ RequestStageChanges(r)
  <2> DEFINE request == [IdleRequest EXCEPT
       !.todo = {"decide", "update", "emit"},
       !.stage = stage, !.decision = "request_changes",
       !.row = Row(Keep, Keep, "needs_changes"),
       !.ev = OfStage("E_STAGE_CHANGES_REQUESTED", stage)]
  <2>1. /\ request.todo = {"decide", "update", "emit"}
        /\ request.row = Row(Keep, Keep, "needs_changes")
        /\ request.ev = OfStage("E_STAGE_CHANGES_REQUESTED", stage) /\ request.decision # "approve"
    BY DEF IdleRequest
  <2>2. Begin(r, request) BY <1>5 DEF RequestStageChanges
  <2> HIDE DEF request
  <2> QED BY <1>1, <1>5, <2>1, <2>2 DEF Asked, Asks, RequestStageChanges
<1>6. CASE "retryStage" \in Actions /\ RetryStage(r)
  <2> DEFINE request == [IdleRequest EXCEPT
       !.todo = {"update", "emit"},
       !.stage = stage,
       !.row = Row(Keep, Keep, "pending"),
       !.ev = OfStage("E_STAGE_RETRY", stage)]
  <2>1. /\ request.todo = {"update", "emit"} /\ request.row = Row(Keep, Keep, "pending")
        /\ request.ev = OfStage("E_STAGE_RETRY", stage)
    BY DEF IdleRequest
  <2>2. Begin(r, request) BY <1>6 DEF RetryStage
  <2> HIDE DEF request
  <2> QED BY <1>1, <1>6, <2>1, <2>2 DEF Asked, Asks, RetryStage
<1>7. CASE "regeneratePatches" \in Actions /\ RegeneratePatches(r)
  <2> DEFINE request == [IdleRequest EXCEPT
       !.todo = {"mark", "decide", "update", "emit"},
       !.stage = "sandbox", !.decision = "request_changes",
       !.mark = "rejected",
       !.row = Row(Keep, "patches", "pending"),
       !.ev = OfStage("E_STAGE_CHANGES_REQUESTED", "patches")]
  <2>1. /\ request.todo = {"mark", "decide", "update", "emit"}
        /\ request.row = Row(Keep, "patches", "pending")
        /\ request.ev = OfStage("E_STAGE_CHANGES_REQUESTED", "patches") /\ request.decision # "approve"
    BY DEF IdleRequest
  <2>2. Begin(r, request) BY <1>7 DEF RegeneratePatches
  <2> HIDE DEF request
  <2> QED BY <1>1, <1>7, <2>1, <2>2 DEF Asked, Asks, RegeneratePatches
<1>8. CASE Approve(r)
  <2> DEFINE request(i) == [IdleRequest EXCEPT
      !.todo = {"approval", "mark", "emit"}, !.mark = "approved", !.marked = {i},
      !.ev = Plain("E_APPROVAL_RECORDED")]
  <2>1. PICK i \in PatchSetIds : Begin(r, request(i)) BY <1>8 DEF Approve
  <2>2. /\ request(i).todo = {"approval", "mark", "emit"} /\ request(i).row = NoRow
        /\ request(i).ev = Plain("E_APPROVAL_RECORDED")
    BY DEF IdleRequest
  <2> HIDE DEF request
  <2> QED BY <1>1, <2>1, <2>2 DEF Asked, Asks
<1>9. CASE Reject(r)
  <2> DEFINE request(i) == [IdleRequest EXCEPT
      !.todo = {"mark", "emit"}, !.mark = "rejected", !.marked = {i},
      !.ev = Plain("E_PATCH_SET_REJECTED")]
  <2>1. PICK i \in PatchSetIds : Begin(r, request(i)) BY <1>9 DEF Reject
  <2>2. /\ request(i).todo = {"mark", "emit"} /\ request(i).row = NoRow
        /\ request(i).ev = Plain("E_PATCH_SET_REJECTED")
    BY DEF IdleRequest
  <2> HIDE DEF request
  <2> QED BY <1>1, <2>1, <2>2 DEF Asked, Asks
<1>10. CASE RequestChanges(r)
  <2> DEFINE request == [IdleRequest EXCEPT !.todo = {"emit"}, !.ev = Plain("E_CHANGES_REQUESTED")]
  <2>1. request.todo = {"emit"} /\ request.row = NoRow /\ request.ev = Plain("E_CHANGES_REQUESTED")
    BY DEF IdleRequest
  <2>2. Begin(r, request) BY <1>10 DEF RequestChanges
  <2> HIDE DEF request
  <2> QED BY <1>1, <2>1, <2>2 DEF Asked, Asks
<1>11. CASE Cancel(r)
  <2> DEFINE request == [IdleRequest EXCEPT
       !.todo = {"update"}, !.row = Row("CANCELLED", Keep, Keep)]
  <2>1. request.todo = {"update"} /\ request.row = Row("CANCELLED", Keep, Keep) BY DEF IdleRequest
  <2>2. Begin(r, request) /\ state \in CancellableStates BY <1>11 DEF Cancel
  <2> HIDE DEF request
  <2> QED BY <1>1, <2>1, <2>2 DEF Asked
<1> QED BY <1>3, <1>4, <1>5, <1>6, <1>7, <1>8, <1>9, <1>10, <1>11 DEF Client

(* One write fewer to make; what the rest of the request is stays the same *)
StepMade(r, step) ==
  /\ NextStep(r, step) /\ req'[r].todo = req[r].todo \ {step}
  /\ req'[r].row = req[r].row /\ req'[r].ev = req[r].ev
  /\ req'[r].stage = req[r].stage /\ req'[r].decision = req[r].decision

LEMMA DoneStep ==
  ASSUME TypeOK, NEW r \in Requests, NEW step, NextStep(r, step), Done(r, step)
  PROVE  req'[r] = IdleRequest \/ StepMade(r, step)
<1> DEFINE left == [req[r] EXCEPT !.todo = req[r].todo \ {step}]
<1>1. req'[r] = IdleRequest \/ req'[r] = left BY DEF Done, TypeOK
<1>2. /\ left.todo = req[r].todo \ {step} /\ left.row = req[r].row /\ left.ev = req[r].ev
      /\ left.stage = req[r].stage /\ left.decision = req[r].decision
  BY DEF TypeOK, RequestRecord
<1> HIDE DEF left
<1> QED BY <1>1, <1>2 DEF StepMade

LEMMA RequestSteps ==
  ASSUME TypeOK, NEW r \in Requests, HandleRequest(r) \/ AbandonRequest(r)
  PROVE  /\ \A q \in Requests : q # r => req'[q] = req[q]
         /\ \/ /\ req'[r] = IdleRequest \/ \E step \in {"check", "approval", "mark", "decide"} : StepMade(r, step)
               /\ UNCHANGED <<state, stage, stageStatus, orchQ>>
            \/ /\ UpdateWorkflow(r)
               /\ req'[r] = IdleRequest \/ StepMade(r, "update")
               /\ UNCHANGED orchQ
            \/ /\ EmitEvent(r) /\ EmitFromApi(req[r].ev)
               /\ req'[r] = IdleRequest \/ StepMade(r, "emit")
               /\ UNCHANGED <<state, stage, stageStatus>>
         /\ UNCHANGED jobQ
<1>1. \A q \in Requests : q # r => req'[q] = req[q]
  BY DEF HandleRequest, CheckViolations, CreateApproval, MarkPatchSets, CreateDecision,
         UpdateWorkflow, EmitEvent, AbandonRequest, Done, TypeOK
<1>2. CASE (CheckViolations(r) /\ SomeBlockRow) \/ AbandonRequest(r)
  BY <1>1, <1>2 DEF CheckViolations, AbandonRequest, TypeOK, rowVars, queueVars
<1>3. CASE (CheckViolations(r) /\ ~ SomeBlockRow) \/ CreateApproval(r) \/ MarkPatchSets(r) \/ CreateDecision(r)
  <2>1. \E step \in {"check", "approval", "mark", "decide"} : NextStep(r, step) /\ Done(r, step)
    BY <1>3 DEF CheckViolations, CreateApproval, MarkPatchSets, CreateDecision
  <2>2. UNCHANGED <<state, stage, stageStatus, orchQ, jobQ>>
    BY <1>3 DEF CheckViolations, CreateApproval, MarkPatchSets, CreateDecision, rowVars, queueVars
  <2> QED BY <1>1, <2>1, <2>2, DoneStep
<1>4. CASE UpdateWorkflow(r)
  <2>1. NextStep(r, "update") /\ Done(r, "update") /\ UNCHANGED <<orchQ, jobQ>>
    BY <1>4 DEF UpdateWorkflow, queueVars
  <2> QED BY <1>1, <1>4, <2>1, DoneStep
<1>5. CASE EmitEvent(r)
  <2>1. NextStep(r, "emit") /\ Done(r, "emit") /\ UNCHANGED <<state, stage, stageStatus, jobQ>>
        /\ EmitFromApi(req[r].ev)
    BY <1>5 DEF EmitEvent, rowVars
  <2> QED BY <1>1, <1>5, <2>1, DoneStep
<1> QED BY <1>2, <1>3, <1>4, <1>5 DEF HandleRequest

LEMMA FlowFrame ==
  ASSUME TypeOK, UNCHANGED <<orch, worker, jobQ>>,
         NEW EV, NEW ST, NEW JB, NEW WB, Flow(EV, ST, JB, WB),
         NEW EV2, NEW ST2, NEW JB2, NEW WB2,
         EV \subseteq EV2, ST \subseteq ST2, JB \subseteq JB2, WB \subseteq WB2,
         state' = state \/ state' \in ST2,
         \/ orchQ' = orchQ
         \/ \E ev \in Event : ev \in EV2 /\ EmitFromApi(ev)
  PROVE  FlowAfter(EV2, ST2, JB2, WB2)
<1>1. state' \in ST2 BY DEF Flow
<1>2. \A o \in Orchestrators : OrchestratorIn(orch'[o], EV2, ST2, JB2) BY DEF Flow, OrchestratorIn
<1>3. \A n \in JobName : Busy(n)' => n \in WB2 BY DEF Flow, Busy, At
<1>4. orchQ \in Seq(EventsIn(EV2))
  <2>1. EventsIn(EV) \subseteq EventsIn(EV2) BY DEF EventsIn
  <2> QED BY <2>1, SeqMonotonic DEF Flow
<1>5. ASSUME NEW ev \in Event, ev \in EV2, EmitFromApi(ev) PROVE orchQ' \in Seq(EventsIn(EV2))
  <2> DEFINE entry == [ev |-> ev, left |-> 1, fresh |-> TRUE, stalls |-> 0]
  <2>1. entry \in EventsIn(EV2) BY <1>5 DEF EventsIn, QueuedEvent
  <2>2. orchQ' = Append(orchQ, entry) BY <1>5 DEF EmitFromApi
  <2> HIDE DEF entry
  <2> QED BY <1>4, <2>1, <2>2, AppendProperties
<1>6. orchQ' \in Seq(EventsIn(EV2)) BY <1>4, <1>5
<1> QED BY <1>1, <1>2, <1>3, <1>6 DEF FlowAfter

(* The flow stays what it is when every new state, event and job belongs in it *)
WebhookEvents ==
  {Plain("E_PR_MERGED"), Plain("E_PR_CLOSED")} \cup {Flagged("E_CI_COMPLETED", "none", f) : f \in BOOLEAN}

LEMMA NextFlow ==
  ASSUME TypeOK, AttemptsAssumption, PatchAssumption, [Next]_vars,
         NEW EV, NEW ST, NEW JB, NEW WB, JB \subseteq WB, Flow(EV, ST, JB, WB),
         NEW EV2, NEW ST2, NEW JB2, NEW WB2,
         EV \subseteq EV2, ST \subseteq ST2, JB \subseteq JB2, WB \subseteq WB2,
         \A o \in Orchestrators :
           DecideTransition(o) => orch'[o].next \in ST2 /\ \A j \in orch'[o].jobs : j.name \in JB2,
         \A ev : Emitted(ev) => ev \in EV2,
         \A r \in Requests : /\ UpdateWorkflow(r) => state' = state \/ state' \in ST2
                             /\ EmitEvent(r) => req[r].ev \in EV2,
         WebhookEvents \subseteq EV2
  PROVE  FlowAfter(EV2, ST2, JB2, WB2)
<1>1. CASE \/ \E o \in Orchestrators : OrchestratorStep(o)
           \/ (\E o \in Orchestrators : FailEvent(o) \/ CrashOrchestrator(o)) /\ UNCHANGED worker
  <2>1. PICK o \in Orchestrators : HandleEvent(o) \/ FailEvent(o) \/ CrashOrchestrator(o)
    BY <1>1 DEF OrchestratorStep
  <2>2. UNCHANGED worker BY <1>1 DEF OrchestratorStep
  <2> QED BY <2>1, <2>2, OrchestratorFlow
<1>2. CASE /\ WorkerStep \/ WorkerFault \/ (\E n \in JobName : CrashWorker(n))
           /\ UNCHANGED orch
  BY <1>2, ProcessorFlow
<1>3. CASE \E r \in Requests : (HandleRequest(r) \/ AbandonRequest(r)) /\ UNCHANGED <<orch, worker>>
  <2>1. PICK r \in Requests : (HandleRequest(r) \/ AbandonRequest(r)) /\ UNCHANGED <<orch, worker>>
    BY <1>3
  <2>2. req[r].ev \in Event BY DEF TypeOK, RequestRecord
  <2>3. UNCHANGED jobQ BY <2>1, RequestSteps
  <2>4. CASE UNCHANGED <<state, orchQ>> BY <2>1, <2>3, <2>4, FlowFrame
  <2>5. CASE UpdateWorkflow(r) /\ UNCHANGED orchQ BY <2>1, <2>3, <2>5, FlowFrame
  <2>6. CASE EmitEvent(r) /\ EmitFromApi(req[r].ev) /\ UNCHANGED state
    BY <2>1, <2>2, <2>3, <2>6, FlowFrame
  <2> QED BY <2>1, <2>4, <2>5, <2>6, RequestSteps
<1>4. CASE (\E r \in Requests : Client(r)) /\ UNCHANGED <<orch, worker>>
  <2>1. UNCHANGED <<state, orchQ, jobQ>> BY <1>4, ClientAsks DEF rowVars
  <2> QED BY <1>4, <2>1, FlowFrame
<1>5. CASE GitHub /\ UNCHANGED <<orch, worker>>
  <2>1. UNCHANGED <<state, jobQ>>
    BY <1>5 DEF GitHub, PullRequestEvent, CiEvent, rowVars
  <2>2. orchQ' = orchQ \/ \E ev \in WebhookEvents : EmitFromApi(ev)
    BY <1>5 DEF GitHub, PullRequestEvent, CiEvent, WebhookEvents
  <2>3. WebhookEvents \subseteq Event BY EventTypes DEF WebhookEvents
  <2>4. orchQ' = orchQ \/ \E ev \in Event : ev \in EV2 /\ EmitFromApi(ev) BY <2>2, <2>3
  <2> QED BY <1>5, <2>1, <2>4, FlowFrame
<1>6. CASE UNCHANGED vars
  BY <1>6, FlowFrame DEF vars
<1> QED BY <1>1, <1>2, <1>3, <1>4, <1>5, <1>6
    DEF Next, RequestStep, ProcessorStep, ClientStep, FaultStep, CrashStep

-----------------------------------------------------------------------------
(* What no step undoes *)

LEMMA CalmBefore ==
  ASSUME TypeOK, [Next]_vars, Calm'
  PROVE  /\ Calm /\ faults = 0 /\ faults' = faults /\ crashes' = crashes
         /\ ~ (\E n \in JobName : CrashWorker(n)) /\ ~ WorkerFault
         /\ ~ (\E o \in Orchestrators : FailEvent(o) \/ CrashOrchestrator(o))
<1>1. faults \in Nat /\ crashes \in Nat BY DEF TypeOK
<1>2. Calm /\ faults = 0 /\ faults' = faults /\ crashes' = crashes BY <1>1, FaultsGrow DEF Calm
<1>3. faults + 1 # faults /\ crashes + 1 # crashes BY <1>1
<1>4. ~ (\E n \in JobName : CrashWorker(n)) BY <1>2, <1>3 DEF CrashWorker
<1>5. ~ (\E o \in Orchestrators : FailEvent(o) \/ CrashOrchestrator(o))
  BY <1>2, <1>3 DEF FailEvent, CrashOrchestrator
<1>6. ~ WorkerFault
  BY <1>2, <1>3 DEF WorkerFault, CallFails, FailBeforeTry, AnalysisFault, IngestFault,
                    EvaluationFault, SandboxFault, ApplyFault
<1> QED BY <1>2, <1>4, <1>5, <1>6

SetsKept ==
  /\ PatchSetIds' = PatchSetIds /\ Len(patchSets') = Len(patchSets)
  /\ \A i \in PatchSetIds :
       /\ patchSets'[i].verdict = patchSets[i].verdict
       /\ patchSets'[i].status = "proposed" => patchSets[i].status = "proposed"
       /\ patchSets[i].evaluated => patchSets'[i].evaluated

LEMMA SetRowStays ==
  ASSUME TypeOK, NEW i, NEW row, SetPatchSet(i, row),
         i \in PatchSetIds =>
           /\ row.verdict = patchSets[i].verdict
           /\ row.status = "proposed" => patchSets[i].status = "proposed"
           /\ patchSets[i].evaluated => row.evaluated
  PROVE  SetsKept
<1>1. Len(patchSets') = Len(patchSets)
  BY LenProperties, ExceptSeq DEF TypeOK, SetPatchSet
<1> QED BY <1>1, SetPatchSetRow DEF SetsKept

(* Only the ingest job adds patch sets; no step changes a verdict, proposes a *)
(* set again or takes an evaluation back.                                     *)
LEMMA NextKeepsSets ==
  ASSUME TypeOK, [Next]_vars
  PROVE  GeneratePatchSet \/ SetsKept
<1>a. \A i \in PatchSetIds : patchSets[i] \in PatchSet BY PatchSetElement
<1>b. req \in [Requests -> RequestRecord] BY DEF TypeOK
<1>1. CASE UNCHANGED patchSets
  BY <1>1 DEF SetsKept, PatchSetIds
<1>2. CASE EvaluationWrites
  <2> DEFINE i == Current("evaluate_policy")
  <2>1. CASE ClearViolations
    <3> DEFINE row == [patchSets[i] EXCEPT !.rows = "none"]
    <3>1. i \in PatchSetIds => /\ row.verdict = patchSets[i].verdict /\ row.status = patchSets[i].status
                               /\ row.evaluated = patchSets[i].evaluated
      BY <1>a DEF PatchSet
    <3>2. SetPatchSet(i, row) BY <2>1 DEF ClearViolations
    <3> HIDE DEF row
    <3> QED BY <3>1, <3>2, SetRowStays
  <2>2. CASE RecordViolations
    <3> DEFINE row == [patchSets[i] EXCEPT !.rows = patchSets[i].verdict]
    <3>1. i \in PatchSetIds => /\ row.verdict = patchSets[i].verdict /\ row.status = patchSets[i].status
                               /\ row.evaluated = patchSets[i].evaluated
      BY <1>a DEF PatchSet
    <3>2. SetPatchSet(i, row) BY <2>2 DEF RecordViolations
    <3> HIDE DEF row
    <3> QED BY <3>1, <3>2, SetRowStays
  <2>3. CASE RecordEvaluation
    <3> DEFINE row == [patchSets[i] EXCEPT !.evaluated = TRUE]
    <3>1. i \in PatchSetIds => /\ row.verdict = patchSets[i].verdict /\ row.status = patchSets[i].status
                               /\ row.evaluated
      BY <1>a DEF PatchSet
    <3>2. SetPatchSet(i, row) BY <2>3 DEF RecordEvaluation
    <3> HIDE DEF row
    <3> QED BY <3>1, <3>2, SetRowStays
  <2> QED BY <1>2, <2>1, <2>2, <2>3 DEF EvaluationWrites
<1>3. CASE SandboxWrites
  <2> DEFINE i == Current("sandbox_validation")
  <2>1. CASE PushSandboxBranch
    <3> DEFINE row == [patchSets[i] EXCEPT !.branch = Gate(TRUE, patchSets[i].branch)]
    <3>1. i \in PatchSetIds => /\ row.verdict = patchSets[i].verdict /\ row.status = patchSets[i].status
                               /\ row.evaluated = patchSets[i].evaluated
      BY <1>a DEF PatchSet
    <3>2. SetPatchSet(i, row) BY <2>1 DEF PushSandboxBranch
    <3> HIDE DEF row
    <3> QED BY <3>1, <3>2, SetRowStays
  <2>2. CASE RecordSandboxRun
    <3> DEFINE row(result) == [patchSets[i] EXCEPT !.sandbox = patchSets[i].sandbox \cup {result}]
    <3>1. PICK result \in SandboxRuns \ {"invalid"} : SetPatchSet(i, row(result)) BY <2>2 DEF RecordSandboxRun
    <3>2. i \in PatchSetIds => /\ row(result).verdict = patchSets[i].verdict
                               /\ row(result).status = patchSets[i].status
                               /\ row(result).evaluated = patchSets[i].evaluated
      BY <1>a DEF PatchSet
    <3> HIDE DEF row
    <3> QED BY <3>1, <3>2, SetRowStays
  <2> QED BY <1>3, <2>1, <2>2 DEF SandboxWrites
<1>4. CASE ApplyWrites
  <2> DEFINE i == Current("apply_patches")
  <2>1. CASE SkipApply \/ MarkApplied
    <3> DEFINE row == [patchSets[i] EXCEPT !.status = "applied"]
    <3>1. i \in PatchSetIds => /\ row.verdict = patchSets[i].verdict /\ row.status = "applied"
                               /\ row.evaluated = patchSets[i].evaluated
      BY <1>a DEF PatchSet
    <3>2. SetPatchSet(i, row) BY <2>1 DEF SkipApply, MarkApplied
    <3> HIDE DEF row
    <3> QED BY <3>1, <3>2, SetRowStays
  <2>2. CASE PushPrBranch
    <3> DEFINE row == [patchSets[i] EXCEPT !.branch = Gate(TRUE, patchSets[i].branch)]
    <3>1. i \in PatchSetIds => /\ row.verdict = patchSets[i].verdict /\ row.status = patchSets[i].status
                               /\ row.evaluated = patchSets[i].evaluated
      BY <1>a DEF PatchSet
    <3>2. SetPatchSet(i, row) BY <2>2 DEF PushPrBranch
    <3> HIDE DEF row
    <3> QED BY <3>1, <3>2, SetRowStays
  <2>3. CASE OpenPullRequest
    <3> DEFINE opened == [patchSets[i] EXCEPT !.prs = patchSets[i].prs + 1, !.pr = "open"]
               row == Gate(opened, patchSets[i])
    <3>1. i \in PatchSetIds => /\ opened.verdict = patchSets[i].verdict /\ opened.status = patchSets[i].status
                               /\ opened.evaluated = patchSets[i].evaluated
      BY <1>a DEF PatchSet
    <3>2. SetPatchSet(i, row) BY <2>3 DEF OpenPullRequest
    <3>3. row = opened \/ row = patchSets[i] BY DEF Gate
    <3> HIDE DEF row, opened
    <3> QED BY <3>1, <3>2, <3>3, SetRowStays
  <2>4. CASE RecordPullRequest
    <3> DEFINE row == [patchSets[i] EXCEPT !.prRows = patchSets[i].prRows + 1]
    <3>1. i \in PatchSetIds => /\ row.verdict = patchSets[i].verdict /\ row.status = patchSets[i].status
                               /\ row.evaluated = patchSets[i].evaluated
      BY <1>a DEF PatchSet
    <3>2. SetPatchSet(i, row) BY <2>4 DEF RecordPullRequest
    <3> HIDE DEF row
    <3> QED BY <3>1, <3>2, SetRowStays
  <2> QED BY <1>4, <2>1, <2>2, <2>3, <2>4 DEF ApplyWrites
<1>5. CASE \E r \in Requests : MarkPatchSets(r)
  <2>1. PICK r \in Requests : MarkPatchSets(r) BY <1>5
  <2> DEFINE sets == IF req[r].marked # {} THEN req[r].marked ELSE WithStatus("proposed")
             row(i) == [patchSets[i] EXCEPT !.status = req[r].mark]
  <2>2. patchSets' = [i \in PatchSetIds |-> IF i \in sets THEN row(i) ELSE patchSets[i]]
    BY <2>1 DEF MarkPatchSets
  <2>3. req[r].mark # "proposed" BY <1>b DEF RequestRecord
  <2>4. \A i \in PatchSetIds : /\ row(i).verdict = patchSets[i].verdict /\ row(i).status = req[r].mark
                               /\ row(i).evaluated = patchSets[i].evaluated
    BY <1>a DEF PatchSet
  <2>5. Len(patchSets) \in Nat /\ PatchSetIds = 1..Len(patchSets) BY LenProperties DEF TypeOK, PatchSetIds
  <2> HIDE DEF row, sets
  <2>6. PatchSetIds' = PatchSetIds /\ Len(patchSets') = Len(patchSets)
    <3> DEFINE f(i) == IF i \in sets THEN row(i) ELSE patchSets[i]
    <3>1. patchSets' = [i \in 1..Len(patchSets) |-> f(i)] BY <2>2, <2>5
    <3> HIDE DEF f
    <3>2. patchSets' \in Seq({f(i) : i \in 1..Len(patchSets)}) /\ Len(patchSets') = Len(patchSets)
      BY <2>5, <3>1
    <3> QED BY <2>5, <3>1, <3>2 DEF PatchSetIds
  <2> QED BY <2>2, <2>3, <2>4, <2>6 DEF SetsKept
<1>6. CASE \E i \in PatchSetIds, merged \in BOOLEAN : PullRequestEvent(i, merged)
  <2>1. PICK i \in PatchSetIds, merged \in BOOLEAN : PullRequestEvent(i, merged) BY <1>6
  <2> DEFINE row == [patchSets[i] EXCEPT !.pr = "closed", !.merged = patchSets[i].merged \/ merged]
  <2>2. /\ row.verdict = patchSets[i].verdict /\ row.status = patchSets[i].status
        /\ row.evaluated = patchSets[i].evaluated
    BY <1>a DEF PatchSet
  <2>3. patchSets' = [patchSets EXCEPT ![i] = row] BY <2>1 DEF PullRequestEvent, PatchSetIds
  <2> HIDE DEF row
  <2> QED BY <2>2, <2>3, SetRowStays DEF SetPatchSet
<1> QED BY <1>1, <1>2, <1>3, <1>4, <1>5, <1>6, PatchSetWriters

(* The ingest job, as long as no orchestrator enqueues one. *)
NoIngestAhead == \A o \in Orchestrators : \A j \in orch[o].jobs : j.name # "ingest_context"

LEMMA IngestJobSteps ==
  ASSUME TypeOK, PatchAssumption, [Next]_vars, NoIngestAhead
  PROVE  LET n == "ingest_context" IN
         \/ worker'[n] = worker[n] /\ jobQ'[n] = jobQ[n]
         \/ IngestContext \/ IngestFault \/ TakeJob(n) \/ FailBeforeTry(n) \/ CrashWorker(n)
<1> DEFINE n == "ingest_context"
           Untouched == worker'[n] = worker[n] /\ jobQ'[n] = jobQ[n]
<1>n. n \in JobName BY DEF JobName
<1>a. ASSUME NEW m \in JobName, m # n, ProcessorEffect(m) PROVE Untouched
  BY <1>n, <1>a DEF ProcessorEffect
<1>1. ASSUME NEW o \in Orchestrators, HandleEvent(o) \/ FailEvent(o) \/ CrashOrchestrator(o),
             UNCHANGED worker
      PROVE  Untouched
  <2>1. CASE EnqueueJob(o)
    <3>1. PICK j \in orch[o].jobs : jobQ' = [jobQ EXCEPT ![j.name] =
            Append(@, [patchSet |-> j.patchSet, left |-> JobAttempts, fresh |-> TRUE, stalls |-> 0])]
      BY <2>1 DEF EnqueueJob
    <3>2. j.name # n BY DEF NoIngestAhead
    <3> QED BY <1>n, <1>1, <3>1, <3>2 DEF TypeOK
  <2>2. CASE ~ EnqueueJob(o)
    BY <1>1, <2>2 DEF HandleEvent, TakeEvent, DecideTransition, WriteTransitionResult, FinishEvent,
                      FailEvent, CrashOrchestrator, queueVars
  <2> QED BY <2>1, <2>2
<1>2. ASSUME NEW r \in Requests, HandleRequest(r) \/ AbandonRequest(r), UNCHANGED worker
      PROVE  Untouched
  BY <1>2, RequestSteps
<1>3. CASE WorkerStep
  <2>1. CASE \E m \in AnalysisJob : ProcessAnalysis(m)
    BY <1>a, <2>1, AnalysisEffect DEF JobName, AnalysisJob, PatchJob
  <2>2. CASE EvaluatePolicy BY <1>a, <2>2, EvaluateEffect DEF JobName, PatchJob
  <2>3. CASE SandboxValidation BY <1>a, <2>3, SandboxEffect DEF JobName, PatchJob
  <2>4. CASE ApplyPatches BY <1>a, <2>4, ApplyEffect DEF JobName, PatchJob
  <2>5. CASE \E m \in JobName : TakeJob(m) BY <1>a, <2>5, TakeJobEffect
  <2> QED
    BY <1>3, <2>1, <2>2, <2>3, <2>4, <2>5
    DEF WorkerStep, FeasibilityAnalysis, ArchitectureAnalysis, TimelineAnalysis,
        SummaryAnalysis, AnalysisJob
<1>4. CASE WorkerFault
  <2>1. ASSUME NEW m \in JobName, m # n, NEW pcs, NEW handler, CallFails(m, pcs, handler)
        PROVE  Untouched
    BY <1>n, <2>1, GotoEffect DEF CallFails, queueVars
  <2>2. CASE \E m \in AnalysisJob : AnalysisFault(m)
    BY <2>1, <2>2 DEF AnalysisFault, JobName, AnalysisJob, PatchJob
  <2>3. CASE EvaluationFault BY <2>1, <2>3 DEF EvaluationFault, JobName, PatchJob
  <2>4. CASE SandboxFault BY <2>1, <2>4 DEF SandboxFault, JobName, PatchJob
  <2>5. CASE ApplyFault BY <2>1, <2>5 DEF ApplyFault, JobName, PatchJob
  <2>6. CASE \E m \in JobName : FailBeforeTry(m)
    BY <1>n, <2>6, ThrowEffect DEF FailBeforeTry
  <2> QED BY <1>4, <2>2, <2>3, <2>4, <2>5, <2>6 DEF WorkerFault
<1>5. ASSUME NEW m \in JobName, CrashWorker(m) PROVE Untouched \/ CrashWorker(n)
  BY <1>a, <1>5, CrashWorkerEffect
<1>6. CASE ClientStep
  <2>1. (\E r \in Requests : Client(r)) => UNCHANGED jobQ BY ClientAsks
  <2>2. GitHub => UNCHANGED jobQ BY DEF GitHub, PullRequestEvent, CiEvent
  <2> QED BY <1>6, <2>1, <2>2 DEF ClientStep
<1>7. CASE UNCHANGED vars BY <1>7 DEF vars
<1> QED
  BY <1>1, <1>2, <1>3, <1>4, <1>5, <1>6, <1>7
  DEF Next, OrchestratorStep, RequestStep, ProcessorStep, FaultStep, CrashStep

(* It goes on or it is over; the queue is longer only when it is offered again *)
LEMMA IngestInHand ==
  ASSUME TypeOK, PatchAssumption, [Next]_vars, NoIngestAhead
  PROVE  LET n == "ingest_context" IN
         \/ worker'[n] = worker[n] /\ jobQ'[n] = jobQ[n]
         \/ GoesOn(n) \/ IsOver(n) \/ IsOfferedAgain(n) \/ TakeJob(n)
<1> DEFINE n == "ingest_context"
<1>n. n \in JobName BY DEF JobName
<1>1. CASE IngestContext
  <2>1. CASE StartIngest \/ IngestReady \/ IngestCaught
    <3>1. ~ At(n, "idle") /\ UNCHANGED jobQ /\ \E pc : Goto(n, pc)
      BY <2>1 DEF StartIngest, IngestReady, IngestCaught, At, queueVars
    <3> QED BY <1>n, <3>1, GotoGoesOn
  <2>2. CASE GeneratePatchSet
    <3>1. worker'[n].patchSet = worker[n].patchSet /\ worker'[n].stalls = worker[n].stalls
      BY <1>n, <2>2 DEF GeneratePatchSet, TypeOK, WorkerRecord
    <3> QED BY <2>2, <3>1 DEF GeneratePatchSet, GoesOn, At, Current, queueVars
  <2>3. CASE IngestCompleted BY <1>n, <2>3, ReturnIsOver DEF IngestCompleted
  <2>4. CASE EmitFailureAndThrow(n) BY <1>n, <2>4, ThrowIsOver DEF EmitFailureAndThrow, At
  <2> QED BY <1>1, <2>1, <2>2, <2>3, <2>4 DEF IngestContext
<1>2. CASE IngestFault
  BY <1>n, <1>2, GotoGoesOn DEF IngestFault, CallFails, At, queueVars
<1>3. CASE FailBeforeTry(n) BY <1>n, <1>3, ThrowIsOver DEF FailBeforeTry, At
<1>4. CASE CrashWorker(n) BY <1>n, <1>4, CrashIsOver
<1> QED BY <1>1, <1>2, <1>3, <1>4, IngestJobSteps

-----------------------------------------------------------------------------
(* The legacy flow keeps its invariant *)

LegacyFlow == Flow(LegacyEvents, LegacyStates, LegacyJobs, LegacyJobs \cup {"ingest_context"})

LEMMA LegacyWork ==
  ASSUME TypeOK, LegacyFlow
  PROVE  /\ \A n \in JobName \ {"ingest_context"} : Busy(n) => n \in {"evaluate_policy", "apply_patches"} /\ IngestOver
         /\ Busy("apply_patches") => NoneBlocked
         /\ NoIngestAhead
<1>1. \A n \in JobName : Busy(n) => n \in LegacyJobs \cup {"ingest_context"} BY DEF LegacyFlow, Flow
<1>2. \A o \in Orchestrators : \A j \in orch[o].jobs : j.name \in LegacyJobs
  BY DEF LegacyFlow, Flow, OrchestratorIn
<1>3. "apply_patches" \in JobName BY DEF JobName, PatchJob
<1> QED BY <1>1, <1>2, <1>3 DEF LegacyJobs, NoIngestAhead

LEMMA IngestStaysOver ==
  ASSUME TypeOK, PatchAssumption, [Next]_vars, NoIngestAhead, IngestOver
  PROVE  IngestOver' /\ SetsKept
<1> DEFINE n == "ingest_context"
<1>1. At(n, "idle") /\ jobQ[n] = <<>> BY DEF IngestOver, Busy
<1>2. Takeable(jobQ[n]) = {} BY <1>1 DEF Takeable
<1>3. ~ TakeJob(n) BY <1>2 DEF TakeJob
<1>4. ~ GoesOn(n) /\ ~ IsOfferedAgain(n) BY <1>1 DEF GoesOn, IsOfferedAgain
<1>5. IsOver(n) => At(n, "idle")' /\ jobQ'[n] = jobQ[n] BY DEF IsOver, At, IdleWorker
<1>6. IngestOver' BY <1>1, <1>3, <1>4, <1>5, IngestInHand DEF IngestOver, Busy, At
<1>7. ~ GeneratePatchSet BY <1>1 DEF GeneratePatchSet, At
<1> QED BY <1>6, <1>7, NextKeepsSets

LEMMA LegacyGrows ==
  ASSUME TypeOK, PatchAssumption, [Next]_vars, NoIngestAhead
  PROVE  /\ IngestOver => IngestOver'
         /\ AllDecided => AllDecided'
         /\ NoneBlocked => NoneBlocked'
         /\ LegacyEvents \subseteq LegacyEvents' /\ LegacyStates \subseteq LegacyStates'
         /\ LegacyJobs \subseteq LegacyJobs'
<1>1. IngestOver => IngestOver' /\ SetsKept BY IngestStaysOver
<1>2. AllDecided => AllDecided' BY <1>1 DEF AllDecided, SetsKept, WithStatus
<1>3. OneSet' => OneSet BY CalmBefore DEF OneSet
<1>4. NoneBlocked => NoneBlocked' BY <1>1, <1>3 DEF NoneBlocked, SetsKept
<1> QED BY <1>1, <1>2, <1>4 DEF LegacyEvents, LegacyStates, LegacyJobs

LEMMA TransitionInLegacy ==
  ASSUME NEW s \in LegacyStates, NEW ev \in LegacyEvents
  PROVE  LET result == Transition(s, ev, TransitionContext) IN
         result.next \in LegacyStates /\ \A j \in result.jobs : j.name \in LegacyJobs
<1> DEFINE c == TransitionContext
           Ok(result) == result.next \in LegacyStates /\ \A j \in result.jobs : j.name \in LegacyJobs
           Policy == JobsFor("evaluate_policy", OrLatest(c.needPolicy, c))
<1>1. \A t \in LegacyStates : Ok(Result(t, {})) /\ Ok(Stay(t)) BY DEF Result, Stay
<1>2. IngestOver => \A ids : \A t \in LegacyStates : Ok(Result(t, JobsFor("evaluate_policy", ids)))
  BY DEF Result, LegacyJobs, JobsFor
<1>3. NoneBlocked => \A ids : \A t \in LegacyStates : Ok(Result(t, JobsFor("apply_patches", ids)))
  BY DEF Result, LegacyJobs, JobsFor, NoneBlocked
<1>4. HaltingStates \subseteq LegacyStates
  BY DEF LegacyStates, HaltingStates, WorkflowState
<1>5. IngestOver => "PATCHES_PROPOSED" \in LegacyStates /\ "PR_OPEN" \in LegacyStates
  BY DEF LegacyStates, WorkflowState
<1>6. AllDecided /\ NoneBlocked => "WAITING_USER_APPROVAL" \in LegacyStates /\ "APPLYING_PATCHES" \in LegacyStates
  BY DEF LegacyStates, AllDecided, WorkflowState
<1>7. c.needPolicy = {} => WithStatus("proposed") = {}
  BY DEF TransitionContext, PatchSetsNeedingPolicy
<1>8. ev.type = "E_JOB_COMPLETED" /\ ev.stage = "ingest_context" => IngestOver BY DEF LegacyEvents
<1>9. ev.type = "E_POLICY_EVALUATED" /\ ~ ev.flag => NoneBlocked BY DEF LegacyEvents
<1>10. ev.type \notin StageEvents \cup {"E_WORKFLOW_CREATED"} BY DEF LegacyEvents
<1>11. s \notin {"INGESTED", "CANCELLED"} \cup HaltingStates => IngestOver BY DEF LegacyStates
<1>12. s \in {"WAITING_USER_APPROVAL", "APPLYING_PATCHES"} => AllDecided /\ NoneBlocked BY DEF LegacyStates
<1> HIDE DEF Ok, c
<1>13. IsJobEvent(ev, "ingest_context") => Ok(OnIngested(ev, c))
  <2>1. "FAILED" \in LegacyStates /\ "NEEDS_HUMAN" \in LegacyStates BY <1>4 DEF HaltingStates
  <2> QED BY <1>1, <1>2, <1>5, <1>8, <2>1 DEF OnIngested, IsJobEvent
<1>14. s = "PATCHES_PROPOSED" => Ok(OnPatchesProposed(ev, c))
  <2>1. "BLOCKED_POLICY" \in LegacyStates /\ "NEEDS_HUMAN" \in LegacyStates BY <1>4 DEF HaltingStates
  <2>2. s = "PATCHES_PROPOSED" => IngestOver BY <1>11 DEF HaltingStates
  <2> QED BY <1>1, <1>2, <1>5, <1>6, <1>7, <1>9, <2>1, <2>2 DEF OnPatchesProposed, AllDecided
<1>15. s = "WAITING_USER_APPROVAL" /\ ev.type \in ReviewEvents => Ok(OnWaiting(ev, c))
  <2>1. {"BLOCKED_POLICY", "NEEDS_HUMAN", "FAILED"} \subseteq LegacyStates BY <1>4 DEF HaltingStates
  <2> QED BY <1>1, <1>3, <1>6, <1>12, <2>1 DEF OnWaiting, OnApprovalRecorded, ReviewEvents
<1>16. s = "APPLYING_PATCHES" => Ok(OnApplying(ev, c))
  <2>1. {"BLOCKED_POLICY", "FAILED"} \subseteq LegacyStates BY <1>4 DEF HaltingStates
  <2> QED BY <1>1, <1>5, <1>12, <2>1 DEF OnApplying, AllDecided
<1>17. s \in {"PR_OPEN", "VERIFYING_CI"} => IngestOver BY <1>11 DEF HaltingStates
<1>18. s = "PR_OPEN" /\ ev.type \in PrEvents => Ok(OnPrOpen(ev))
  <2>1. {"DONE", "NEEDS_HUMAN"} \subseteq LegacyStates BY <1>4 DEF HaltingStates
  <2> QED BY <1>1, <1>5, <1>17, <2>1 DEF OnPrOpen, PrEvents
<1>19. Ok(OnVerifyingCi(ev))
  <2>1. {"DONE", "NEEDS_HUMAN"} \subseteq LegacyStates BY <1>4 DEF HaltingStates
  <2> QED BY <1>1, <2>1 DEF OnVerifyingCi
<1>20. Ok(OnAnyState(s, ev, c))
  <2>1. {"BLOCKED_POLICY", "NEEDS_HUMAN", "REJECTED"} \subseteq LegacyStates BY <1>4 DEF HaltingStates
  <2> QED BY <1>1, <1>10, <2>1 DEF OnAnyState, StageEvents
<1>21. Ok(Transition(s, ev, c))
  BY <1>1, <1>10, <1>13, <1>14, <1>15, <1>16, <1>18, <1>19, <1>20 DEF Transition
<1> QED BY <1>21 DEF Ok, c

LEMMA LegacyFlowKept ==
  ASSUME TypeOK, AttemptsAssumption, PatchAssumption, VerdictInvariant, LegacyInvariant, [Next]_vars
  PROVE  LegacyFlow'
<1>a. LegacyFlow /\ NoIngestAhead BY LegacyWork DEF LegacyInvariant, LegacyFlow
<1>b. /\ IngestOver => IngestOver'
      /\ NoneBlocked => NoneBlocked'
      /\ LegacyEvents \subseteq LegacyEvents' /\ LegacyStates \subseteq LegacyStates'
      /\ LegacyJobs \subseteq LegacyJobs'
  BY <1>a, LegacyGrows
<1>1. ASSUME NEW o \in Orchestrators, DecideTransition(o)
      PROVE  orch'[o].next \in LegacyStates' /\ \A j \in orch'[o].jobs : j.name \in LegacyJobs'
  <2> DEFINE result == Transition(orch[o].seen, orch[o].ev, TransitionContext)
             m == [orch[o] EXCEPT !.pc = "commit", !.next = result.next, !.jobs = result.jobs]
  <2>1. orch[o].seen \in LegacyStates /\ orch[o].ev \in LegacyEvents
    BY <1>1, <1>a DEF LegacyFlow, Flow, OrchestratorIn, DecideTransition
  <2>2. result.next \in LegacyStates /\ \A j \in result.jobs : j.name \in LegacyJobs
    BY <2>1, TransitionInLegacy
  <2> HIDE DEF result
  <2>3. orch' = [orch EXCEPT ![o] = m] BY <1>1 DEF DecideTransition, TypeOK, result
  <2>4. m.next = result.next /\ m.jobs = result.jobs BY DEF TypeOK, OrchRecord
  <2>5. orch'[o] = m BY <2>3 DEF TypeOK
  <2> QED BY <1>b, <2>2, <2>4, <2>5
<1>2. ASSUME NEW ev, Emitted(ev) PROVE ev \in LegacyEvents'
  <2> DEFINE Harmless == {e \in Event :
               /\ e.type \in {"E_JOB_COMPLETED", "E_JOB_FAILED", "E_POLICY_EVALUATED"}
               /\ e.type = "E_JOB_COMPLETED" => e.stage # "ingest_context"
               /\ e.type # "E_POLICY_EVALUATED" \/ e.flag}
  <2>a. ev \in Event BY <1>2, EmittedIsEvent
  <2>b. Harmless \subseteq LegacyEvents' BY DEF LegacyEvents, StageEvents
  <2>c. /\ \A t, s : OfStage(t, s).stage = s /\ OfStage(t, s).type = t
        /\ \A t, s, f : Flagged(t, s, f).type = t /\ Flagged(t, s, f).flag = f /\ Flagged(t, s, f).stage = s
    BY DEF OfStage, Flagged
  <2>1. CASE \E n \in AnalysisJob : ev = OfStage("E_JOB_COMPLETED", StageName[n])
    <3>1. \A n \in AnalysisJob : StageName[n] # "ingest_context" BY DEF AnalysisJob, StageName
    <3> QED BY <2>1, <2>a, <2>b, <2>c, <3>1
  <2>2. CASE ev = OfStage("E_JOB_COMPLETED", "ingest_context") /\ IngestCompleted
    <3> DEFINE n == "ingest_context"
    <3>1. At(n, "emit") /\ EmitAndReturn(n, ev) BY <2>2 DEF IngestCompleted
    <3>2. jobQ[n] = <<>> BY <3>1 DEF LegacyInvariant, OneIngest, At
    <3>3. jobQ'[n] = <<>> /\ worker'[n] = IdleWorker
      BY <3>1, <3>2 DEF EmitAndReturn, TypeOK, JobName
    <3>4. IngestOver' BY <3>3 DEF IngestOver, Busy, At, IdleWorker
    <3> QED BY <2>2, <2>a, <2>c, <3>4 DEF LegacyEvents, StageEvents
  <2>3. CASE \E n \in JobName : ev = OfStage("E_JOB_FAILED", StageName[n])
    BY <2>3, <2>a, <2>b, <2>c
  <2>4. CASE \/ ev = Flagged("E_POLICY_EVALUATED", "none",
                             patchSets[Current("evaluate_policy")].verdict = "block") /\ EvaluationCompleted
             \/ ev = Flagged("E_POLICY_EVALUATED", "none", FALSE) /\ EvaluationFailed
    <3> DEFINE n == "evaluate_policy"
    <3>1. ev.type = "E_POLICY_EVALUATED"
      <4>1. \A f : Flagged("E_POLICY_EVALUATED", "none", f).type = "E_POLICY_EVALUATED" BY <2>c
      <4> QED BY <2>4, <4>1
    <3>2. CASE ev.flag BY <2>a, <2>b, <3>1, <3>2
    <3>3. CASE ~ ev.flag
      <4>1. Busy(n) BY <2>4 DEF EvaluationCompleted, EvaluationFailed, At, Busy
      <4>2. n \in JobName \ {"ingest_context"} /\ n \in PatchJob BY DEF JobName, PatchJob
      <4>3. IngestOver BY <1>a, <4>1, <4>2, LegacyWork
      <4>4. ASSUME OneSet, NEW i \in PatchSetIds PROVE patchSets[i].verdict # "block"
        <5>1. faults = 0 BY <4>4 DEF OneSet, Calm, TypeOK
        <5>m. Unstalled
          BY <4>4, <5>1, AttemptsAssumption DEF OneSet, Calm, TypeOK, Unstalled, AttemptsAssumption
        <5>2. ~ At(n, "fail") BY <5>m DEF VerdictInvariant, JudgedInHand
        <5>3. EvaluationCompleted /\ patchSets[Current(n)].verdict # "block"
          <6> DEFINE blocks == patchSets[Current(n)].verdict = "block"
          <6>1. ev = Flagged("E_POLICY_EVALUATED", "none", blocks) /\ EvaluationCompleted
            BY <2>4, <5>2 DEF EvaluationFailed
          <6>2. blocks \in BOOLEAN OBVIOUS
          <6> HIDE DEF blocks
          <6>3. Flagged("E_POLICY_EVALUATED", "none", blocks).flag = blocks BY DEF Flagged
          <6>4. ~ blocks BY <3>3, <6>1, <6>3
          <6> QED BY <6>1, <6>4 DEF blocks
        <5>4. Current(n) \in PatchSetIds
          BY <4>2, <5>3 DEF VerdictInvariant, JobsNameSets, EvaluationCompleted, At
        <5>5. Len(patchSets) <= 1 BY <4>4 DEF LegacyInvariant, FirstIngest
        <5>6. PatchSetIds = 1..Len(patchSets) /\ Len(patchSets) \in Nat
          BY LenProperties DEF TypeOK, PatchSetIds
        <5>7. i = Current(n) BY <5>4, <5>5, <5>6
        <5> QED BY <5>3, <5>7
      <4>5. NoneBlocked BY <4>3, <4>4 DEF NoneBlocked
      <4> QED BY <1>b, <2>a, <3>1, <4>5 DEF LegacyEvents, StageEvents
    <3>4. ev.flag \in BOOLEAN BY <2>a DEF Event
    <3> QED BY <3>2, <3>3
  <2>5. CASE \/ ev = OfStage("E_JOB_COMPLETED", "sandbox")
             \/ \E f \in BOOLEAN, t \in {"E_JOB_COMPLETED", "E_JOB_FAILED"} : ev = Flagged(t, "apply_patches", f)
    BY <2>5, <2>a, <2>b, <2>c
  <2> QED BY <1>2, <2>1, <2>2, <2>3, <2>4, <2>5 DEF Emitted
<1>3. ASSUME NEW r \in Requests
      PROVE  /\ UpdateWorkflow(r) => state' = state \/ state' \in LegacyStates'
             /\ EmitEvent(r) => req[r].ev \in LegacyEvents'
  <2>1. LegacyRequest(req[r]) BY DEF LegacyInvariant
  <2>2. {"REJECTED", "CANCELLED"} \subseteq LegacyStates' BY DEF LegacyStates, HaltingStates, WorkflowState
  <2>3. UpdateWorkflow(r) => state' = state \/ state' \in LegacyStates'
    BY <2>1, <2>2 DEF UpdateWorkflow, NextStep, LegacyRequest, Written
  <2>4. req[r].ev \in Event BY DEF TypeOK, RequestRecord
  <2>5. EmitEvent(r) => req[r].ev \in LegacyEvents'
    BY <2>1, <2>4 DEF EmitEvent, NextStep, LegacyRequest, LegacyEvents, StageEvents
  <2> QED BY <2>3, <2>5
<1>4. WebhookEvents \subseteq LegacyEvents'
  <2>1. \A ev \in WebhookEvents : ev \in Event /\ ev.type \in {"E_PR_MERGED", "E_PR_CLOSED", "E_CI_COMPLETED"}
    BY EventTypes, EventKinds DEF WebhookEvents
  <2> QED BY <2>1 DEF LegacyEvents, StageEvents
<1>5. LegacyJobs \cup {"ingest_context"} \subseteq LegacyJobs' \cup {"ingest_context"} BY <1>b
<1>6. FlowAfter(LegacyEvents', LegacyStates', LegacyJobs', LegacyJobs' \cup {"ingest_context"})
  BY <1>a, <1>b, <1>1, <1>2, <1>3, <1>4, <1>5, NextFlow DEF LegacyFlow
<1> QED BY <1>6 DEF LegacyFlow, Flow, FlowAfter, EventsIn, OrchestratorIn

LEMMA OneIngestKept ==
  ASSUME TypeOK, PatchAssumption, [Next]_vars, NoIngestAhead, OneIngest
  PROVE  OneIngest'
<1> DEFINE n == "ingest_context"
<1>n. n \in JobName BY DEF JobName
<1>1. jobQ[n] \in Seq(QueuedJob) /\ Len(jobQ[n]) \in Nat BY <1>n, LenProperties DEF TypeOK
<1>2. Len(jobQ[n]) <= 1 /\ (At(n, "idle") \/ jobQ[n] = <<>>) BY DEF OneIngest
<1>3. ASSUME jobQ'[n] = jobQ[n], At(n, "idle")' \/ jobQ[n] = <<>> PROVE OneIngest'
  BY <1>2, <1>3 DEF OneIngest
<1>4. CASE (worker'[n] = worker[n] /\ jobQ'[n] = jobQ[n]) \/ GoesOn(n) \/ IsOver(n)
  BY <1>2, <1>3, <1>4 DEF GoesOn, IsOver, At, IdleWorker
<1>5. CASE IsOfferedAgain(n)
  <2>1. At(n, "idle")' BY <1>5 DEF IsOfferedAgain, At, IdleWorker
  <2>2. PICK entry : jobQ'[n] = Append(jobQ[n], entry) BY <1>5 DEF IsOfferedAgain
  <2>3. jobQ[n] = <<>> BY <1>2, <1>5 DEF IsOfferedAgain
  <2>4. Len(jobQ'[n]) = 1 BY <2>2, <2>3
  <2> QED BY <2>1, <2>4 DEF OneIngest
<1>6. CASE TakeJob(n)
  <2>1. PICK i \in Takeable(jobQ[n]) : jobQ'[n] = Without(jobQ[n], i)
    BY <1>n, <1>6 DEF TakeJob, TypeOK
  <2>2. i \in DOMAIN jobQ[n] BY TakeableInDomain
  <2>3. DOMAIN jobQ[n] = 1..Len(jobQ[n]) BY <1>1, LenProperties
  <2>4. Len(jobQ[n]) = 1 /\ i = 1
    <3> DEFINE k == Len(jobQ[n])
    <3>1. i \in 1..k /\ k \in Nat /\ k <= 1 BY <1>1, <1>2, <2>2, <2>3
    <3> HIDE DEF k
    <3>2. i = 1 /\ k = 1 BY <3>1
    <3> QED BY <3>2 DEF k
  <2> DEFINE q == jobQ[n]
  <2>5. jobQ'[n] = <<>>
    <3>1. q \in Seq(QueuedJob) /\ Len(q) = 1 /\ jobQ'[n] = SubSeq(q, 1, 0) \o SubSeq(q, 2, 1)
      BY <1>1, <2>1, <2>4 DEF Without
    <3> HIDE DEF q
    <3>2. SubSeq(q, 1, 0) = <<>> /\ SubSeq(q, 2, 1) = <<>> BY <3>1
    <3> QED BY <3>1, <3>2
  <2>6. Len(jobQ'[n]) = 0 BY <2>5
  <2> QED BY <2>5, <2>6 DEF OneIngest
<1> QED BY <1>4, <1>5, <1>6, IngestInHand

LEMMA LegacyRequestsKept ==
  ASSUME TypeOK, LegacyClients, [Next]_vars, NEW r \in Requests, LegacyRequest(req[r])
  PROVE  LegacyRequest(req'[r])
<1>i. LegacyRequest(IdleRequest) BY DEF LegacyRequest, IdleRequest
<1>1. ASSUME NEW step, StepMade(r, step) PROVE LegacyRequest(req'[r])
  BY <1>1 DEF StepMade, LegacyRequest
<1>2. CASE \E p \in Requests : HandleRequest(p) \/ AbandonRequest(p)
  BY <1>i, <1>1, <1>2, RequestSteps
<1>3. CASE \E p \in Requests : Client(p)
  <2>1. CASE Client(r)
    <3>1. Asked(r) BY <2>1, ClientAsks
    <3>2. /\ \A sg : OfStage("E_STAGE_REJECTED", sg).type = "E_STAGE_REJECTED"
          /\ Row("REJECTED", Keep, "rejected").state = "REJECTED"
          /\ Row("CANCELLED", Keep, Keep).state = "CANCELLED"
          /\ \A t : Plain(t).type = t
      BY DEF OfStage, Plain, Row
    <3> QED BY <3>1, <3>2 DEF Asked, Asks, LegacyClients, LegacyRequest
  <2>2. CASE \E p \in Requests : p # r /\ Client(p) BY <2>2, ClientAsks
  <2> QED BY <1>3, <2>1, <2>2
<1>4. CASE req' = req BY <1>4
<1> QED
  BY <1>2, <1>3, <1>4
  DEF Next, OrchestratorStep, RequestStep, ProcessorStep, ClientStep, FaultStep, CrashStep,
      GitHub, PullRequestEvent, CiEvent, vars

LEMMA FirstIngestKept ==
  ASSUME TypeOK, TypeOK', PatchAssumption, [Next]_vars, NoIngestAhead, OneIngest, OneSet => FirstIngest, OneSet'
  PROVE  FirstIngest'
<1> DEFINE n == "ingest_context"
<1>n. n \in JobName BY DEF JobName
<1>a. /\ Calm /\ NumRepos = 1 /\ ~ CrashWorker(n) /\ ~ WorkerFault
  BY <1>n, CalmBefore DEF OneSet
<1>b. FirstIngest BY <1>a DEF OneSet
<1>c. worker[n] \in WorkerRecord /\ worker \in [JobName -> WorkerRecord] BY <1>n DEF TypeOK
<1>d. Len(patchSets) \in Nat /\ (patchSets = <<>> => Len(patchSets) = 0) BY LenProperties DEF TypeOK
<1>e. At(n, "idle") \/ jobQ[n] = <<>> BY DEF OneIngest
<1>1. CASE GeneratePatchSet
  <2>1. worker[n].pc = "run" /\ patchSets = <<>> /\ worker[n].made = 0
    BY <1>1, <1>b DEF GeneratePatchSet, FirstIngest, At
  <2>2. PICK v : patchSets' = Append(patchSets, NewPatchSet(v)) BY <1>1 DEF GeneratePatchSet
  <2>3. Len(patchSets') = 1 BY <2>1, <2>2
  <2>4. jobQ'[n] = <<>> BY <1>1, <1>e, <2>1 DEF At, GeneratePatchSet, queueVars
  <2>5. worker'[n].pc = "ready" BY <1>1, <1>a, <1>c, <1>n, <2>1 DEF GeneratePatchSet, WorkerRecord
  <2> QED BY <2>3, <2>4, <2>5 DEF FirstIngest
<1>2. CASE ~ GeneratePatchSet
  <2>1. Len(patchSets') = Len(patchSets) /\ (patchSets = <<>> => patchSets' = <<>>)
    <3>1. SetsKept BY <1>2, NextKeepsSets
    <3>2. patchSets = <<>> => patchSets' = <<>>
      <4>1. patchSets' \in Seq(PatchSet) BY DEF TypeOK
      <4>2. Len(patchSets') = 0 => patchSets' = <<>> BY <4>1, EmptySeq
      <4> QED BY <1>d, <3>1, <4>2 DEF SetsKept
    <3> QED BY <3>1, <3>2 DEF SetsKept
  <2>2. ASSUME worker'[n].pc \in {"start", "run"} => worker'[n].made = 0 /\ patchSets = <<>>,
               jobQ'[n] # <<>> => patchSets = <<>>, worker'[n].pc \notin {"caught", "throw"}
        PROVE  FirstIngest'
    BY <1>b, <2>1, <2>2 DEF FirstIngest
  <2>3. CASE worker'[n] = worker[n] /\ jobQ'[n] = jobQ[n] BY <1>b, <2>2, <2>3 DEF FirstIngest
  <2>4. CASE StartIngest
    <3>1. worker'[n].pc = "run" /\ worker'[n].made = worker[n].made /\ jobQ'[n] = jobQ[n] /\ worker[n].pc = "start"
      BY <1>c, <1>n, <2>4 DEF StartIngest, Goto, At, WorkerRecord, queueVars
    <3> QED BY <1>b, <2>2, <3>1 DEF FirstIngest
  <2>5. CASE IngestReady \/ IngestCompleted
    <3>1. worker'[n].pc \in {"emit", "idle"} /\ jobQ'[n] = jobQ[n]
      BY <1>c, <1>n, <2>5 DEF IngestReady, IngestCompleted, EmitAndReturn, IdleWorker, Goto, WorkerRecord, queueVars
    <3> QED BY <1>b, <2>2, <3>1 DEF FirstIngest
  <2>6. CASE TakeJob(n)
    <3>1. worker'[n].pc = "start" /\ worker'[n].made = 0 /\ jobQ[n] # <<>>
      <4>1. PICK i \in Takeable(jobQ[n]) : worker' = [worker EXCEPT ![n] =
                  [IdleWorker EXCEPT !.pc = "start", !.patchSet = jobQ[n][i].patchSet,
                                     !.left = jobQ[n][i].left, !.stalls = jobQ[n][i].stalls,
                                     !.sawStage = stage, !.sawStatus = stageStatus]]
        BY <2>6 DEF TakeJob
      <4> DEFINE m == [IdleWorker EXCEPT !.pc = "start", !.patchSet = jobQ[n][i].patchSet,
                                     !.left = jobQ[n][i].left, !.stalls = jobQ[n][i].stalls,
                                     !.sawStage = stage, !.sawStatus = stageStatus]
      <4>2. m.pc = "start" /\ m.made = 0 BY DEF IdleWorker
      <4>3. worker' = [worker EXCEPT ![n] = m] BY <4>1
      <4> HIDE DEF m
      <4>4. i \in DOMAIN jobQ[n] BY TakeableInDomain
      <4> QED BY <1>c, <1>n, <4>2, <4>3, <4>4
    <3> QED BY <1>b, <2>2, <3>1 DEF FirstIngest
  <2>7. CASE IngestCaught \/ EmitFailureAndThrow(n)
    BY <1>b, <2>7 DEF IngestCaught, EmitFailureAndThrow, At, FirstIngest
  <2> QED
    BY <1>2, <1>a, <1>n, <2>3, <2>4, <2>5, <2>6, <2>7, IngestJobSteps DEF IngestContext, WorkerFault
<1> QED BY <1>1, <1>2

LEMMA PullRequestWrites ==
  ASSUME TypeOK, [Next]_vars, NoPrForBlockedPatch,
         ApplyWrites => SetsKept /\ (Calm => \A i \in PatchSetIds : patchSets[i].verdict # "block")
  PROVE  NoPrForBlockedPatch'
<1> SUFFICES ASSUME Calm', NEW i \in PatchSetIds', patchSets'[i].verdict = "block"
             PROVE  patchSets'[i].prs = 0
  BY DEF NoPrForBlockedPatch, Calm
<1>1. Calm BY CalmBefore
<1>2. CASE ApplyWrites BY <1>1, <1>2 DEF SetsKept
<1>3. CASE ~ ApplyWrites /\ i \in PatchSetIds
  <2>1. SamePullRequests(patchSets'[i], patchSets[i]) BY <1>3, NextKeepsRows DEF RowsKept
  <2>2. patchSets'[i].verdict = patchSets[i].verdict
    <3>1. CASE SetsKept BY <1>3, <3>1 DEF SetsKept
    <3>2. CASE GeneratePatchSet
      <4>1. PICK v : patchSets' = Append(patchSets, NewPatchSet(v)) BY <3>2 DEF GeneratePatchSet
      <4> DEFINE new == NewPatchSet(v)
      <4>2. patchSets' = Append(patchSets, new) BY <4>1
      <4> HIDE DEF new
      <4>3. patchSets'[i] = patchSets[i] BY <1>3, <4>2, LenProperties DEF PatchSetIds, TypeOK
      <4> QED BY <4>3
    <3> QED BY <3>1, <3>2, NextKeepsSets
  <2>3. patchSets[i].prs = 0 BY <1>1, <1>3, <2>2 DEF NoPrForBlockedPatch, Calm
  <2> QED BY <2>1, <2>3 DEF SamePullRequests
<1>4. CASE i \notin PatchSetIds
  <2>1. PICK v : patchSets'[i] = NewPatchSet(v) BY <1>4, NextKeepsRows DEF RowsKept
  <2> QED BY <2>1 DEF NewPatchSet
<1> QED BY <1>2, <1>3, <1>4

LEMMA NextLegacy ==
  ASSUME TypeOK, TypeOK', AttemptsAssumption, PatchAssumption, LegacyClients,
         VerdictInvariant, LegacyInvariant, [Next]_vars
  PROVE  LegacyInvariant'
<1>1. LegacyFlow /\ NoIngestAhead BY LegacyWork DEF LegacyInvariant, LegacyFlow
<1>2. LegacyFlow' BY LegacyFlowKept
<1>3. OneIngest' BY <1>1, OneIngestKept DEF LegacyInvariant
<1>4. \A r \in Requests : LegacyRequest(req'[r]) BY LegacyRequestsKept DEF LegacyInvariant
<1>5. OneSet' => FirstIngest' BY <1>1, FirstIngestKept DEF LegacyInvariant
<1>6. NumRepos = 1 => NoPrForBlockedPatch'
  <2> SUFFICES ASSUME NumRepos = 1 PROVE NoPrForBlockedPatch' OBVIOUS
  <2>1. ASSUME ApplyWrites
        PROVE  SetsKept /\ (Calm => \A i \in PatchSetIds : patchSets[i].verdict # "block")
    <3> DEFINE n == "apply_patches"
    <3>1. Busy(n) BY <2>1 DEF ApplyWrites, SkipApply, MarkApplied, PushPrBranch, OpenPullRequest,
                              RecordPullRequest, Busy, At
    <3>2. IngestOver /\ NoneBlocked BY <1>1, <3>1, LegacyWork DEF NoneBlocked
    <3> QED BY <1>1, <3>2, IngestStaysOver DEF NoneBlocked, OneSet
  <2>2. NoPrForBlockedPatch BY DEF LegacyInvariant
  <2> QED BY <2>1, <2>2, PullRequestWrites
<1> QED BY <1>2, <1>3, <1>4, <1>5, <1>6 DEF LegacyInvariant, LegacyFlow, LegacyRequest

LEMMA InitLegacy ==
  ASSUME Init, LegacyClients
  PROVE  LegacyInvariant
<1>1. LegacyInit BY DEF Init, LegacyClients
<1>2. /\ patchSets = <<>> /\ state = "INGESTED" /\ orchQ = <<>>
      /\ \A o \in Orchestrators : orch[o] = IdleOrch
      /\ \A n \in JobName : At(n, "idle")
      /\ \A n \in JobName \ {"ingest_context"} : jobQ[n] = <<>>
  BY <1>1 DEF Init, LegacyInit, At, IdleWorker
<1>3. Len(jobQ["ingest_context"]) = 1 BY <1>1 DEF LegacyInit, JobName
<1>4. LegacyFlow
  <2>1. orchQ \in Seq(EventsIn(LegacyEvents)) BY <1>2
  <2>2. state \in LegacyStates BY <1>2 DEF LegacyStates, WorkflowState
  <2>3. \A o \in Orchestrators : OrchestratorIn(orch[o], LegacyEvents, LegacyStates, LegacyJobs)
    BY <1>2 DEF OrchestratorIn, IdleOrch
  <2> QED BY <1>2, <2>1, <2>2, <2>3 DEF LegacyFlow, Flow, Busy
<1>5. OneIngest BY <1>2, <1>3 DEF OneIngest, JobName
<1>6. \A r \in Requests : LegacyRequest(req[r]) BY DEF Init, LegacyRequest, IdleRequest
<1>7. FirstIngest /\ NoPrForBlockedPatch
  <2>1. worker["ingest_context"].pc = "idle" BY <1>2 DEF At, JobName
  <2>2. Len(patchSets) = 0 /\ PatchSetIds = {} BY <1>2 DEF PatchSetIds
  <2> QED BY <1>2, <2>1, <2>2 DEF FirstIngest, NoPrForBlockedPatch
<1> QED BY <1>4, <1>5, <1>6, <1>7 DEF LegacyInvariant, LegacyFlow

LEMMA LegacyInvariance ==
  ASSUME LegacyClients
  PROVE  Spec => []LegacyInvariant
<1>1. Init => LegacyInvariant BY InitLegacy
<1>2. TypeOK /\ TypeOK' /\ VerdictInvariant /\ LegacyInvariant /\ [Next]_vars => LegacyInvariant'
  BY AttemptsAssumption, PatchAssumption, NextLegacy
<1>3. Init => VerdictInvariant BY InitJudges
<1>4. TypeOK /\ VerdictInvariant /\ [Next]_vars => VerdictInvariant'
  BY PatchAssumption, NextJudges
<1> QED BY <1>1, <1>2, <1>3, <1>4, TypeCorrect, PTL DEF Spec

(* In the legacy flow patches are applied only when no patch set is left      *)
(* undecided, whatever the number of repositories, the faults and the crashes:*)
(* the policy verdict that opens the review finds every proposed set judged   *)
(* or decided, and ingest, over by then, adds no set afterwards.              *)
THEOREM ApplyingMeansAllDecidedHolds ==
  ASSUME LegacyClients
  PROVE  Spec => []ApplyingMeansAllDecided
<1>1. LegacyInvariant => ApplyingMeansAllDecided
  BY DEF LegacyInvariant, Flow, LegacyStates, AllDecided, ApplyingMeansAllDecided, HaltingStates
<1> QED BY <1>1, LegacyInvariance, PTL

-----------------------------------------------------------------------------
(* The late stages keep theirs *)

LateFlow == Flow(LateEvents, LateStates, LateJobs, LateJobs)
LateFrame == LateFlow /\ stage \in {"policy", "sandbox", "pr", "done"} /\ \A r \in Requests : LateRequest(req[r])

LEMMA LateWork ==
  ASSUME TypeOK, LateFlow
  PROVE  /\ \A n \in JobName : Busy(n) => n \in PatchJob
         /\ Busy("sandbox_validation") \/ Busy("apply_patches") => stage # "policy"
         /\ ~ Busy("ingest_context")
<1>1. \A n \in JobName : Busy(n) => n \in LateJobs BY DEF LateFlow, Flow
<1>2. {"sandbox_validation", "apply_patches", "ingest_context"} \subseteq JobName /\ "ingest_context" \notin PatchJob
  BY DEF JobName, PatchJob
<1> QED BY <1>1, <1>2 DEF LateJobs

LEMMA LateSets ==
  ASSUME TypeOK, [Next]_vars, LateFlow
  PROVE  SetsKept
<1>1. ~ GeneratePatchSet BY LateWork DEF GeneratePatchSet, Busy, At
<1> QED BY <1>1, NextKeepsSets

LEMMA VerdictsStayClean ==
  ASSUME TypeOK, [Next]_vars, SetsKept, VerdictsClean
  PROVE  VerdictsClean'
<1>1. CASE NumRepos = 1 BY <1>1 DEF VerdictsClean, SetsKept
<1>2. CASE NumRepos # 1
  <2>1. Calm' => Calm BY CalmBefore
  <2> QED BY <1>2, <2>1 DEF VerdictsClean, Clean, WithStatus, SetsKept
<1> QED BY <1>1, <1>2

(* The row changes only as a request says. *)
LEMMA StageWrites ==
  ASSUME TypeOK, PatchAssumption, [Next]_vars
  PROVE  \/ UNCHANGED stage
         \/ \E r \in Requests : UpdateWorkflow(r) /\ req[r].row.stage # Keep /\ stage' = req[r].row.stage
<1>1. \A r : CreateDecision(r) => UNCHANGED stage BY DEF CreateDecision, rowVars
<1>2. \A r : UpdateWorkflow(r) =>
        UNCHANGED stage \/ (req[r].row.stage # Keep /\ stage' = req[r].row.stage)
  BY DEF UpdateWorkflow, Written
<1> QED BY <1>1, <1>2, StageOrDecisionWrites

LEMMA StageMovesOn ==
  ASSUME TypeOK, PatchAssumption, [Next]_vars, LateFrame
  PROVE  /\ stage' \in {"policy", "sandbox", "pr", "done"}
         /\ stage # "policy" => stage' # "policy"
         /\ stage' # stage => VerdictsClean
<1>1. CASE UNCHANGED stage BY <1>1 DEF LateFrame
<1>2. CASE \E r \in Requests : UpdateWorkflow(r) /\ req[r].row.stage # Keep /\ stage' = req[r].row.stage
  <2>1. PICK r \in Requests : UpdateWorkflow(r) /\ req[r].row.stage # Keep /\ stage' = req[r].row.stage
    BY <1>2
  <2>2. LateRequest(req[r]) /\ "update" \in req[r].todo BY <2>1 DEF LateFrame, UpdateWorkflow, NextStep
  <2> QED BY <2>1, <2>2 DEF LateRequest
<1> QED BY <1>1, <1>2, StageWrites

LEMMA TransitionInLate ==
  ASSUME NEW s \in LateStates, NEW ev \in LateEvents, NEW c
  PROVE  LET result == Transition(s, ev, c) IN
         result.next \in LateStates /\ \A j \in result.jobs : j.name \in LateJobs
<1> DEFINE Ok(result) == result.next \in LateStates /\ \A j \in result.jobs : j.name \in LateJobs
<1>1. \A t \in LateStates : Ok(Result(t, {})) /\ Ok(Stay(t)) BY DEF Result, Stay
<1>2. {"BLOCKED_POLICY", "NEEDS_HUMAN", "REJECTED"} \subseteq LateStates BY DEF LateStates, HaltingStates
<1>3. \A ids : Ok(Result(s, JobsFor("evaluate_policy", ids)))
  BY DEF Result, LateJobs, JobsFor, PatchJob
<1>4. stage # "policy" => \A ids : \A n \in {"sandbox_validation", "apply_patches"} : Ok(Result(s, JobsFor(n, ids)))
  BY DEF Result, LateJobs, JobsFor, PatchJob
<1>e. /\ ev.type # "E_WORKFLOW_CREATED"
      /\ ev.type = "E_STAGE_APPROVED" => ev.stage \in {"patches", "policy", "sandbox", "pr"}
      /\ ev.type \in {"E_STAGE_CHANGES_REQUESTED", "E_STAGE_RETRY"} =>
           ev.stage \in {"policy", "sandbox", "pr"}
      /\ PastPolicy(ev) => stage # "policy"
  BY DEF LateEvents
<1> HIDE DEF Ok
<1>5. ASSUME ev.type = "E_STAGE_APPROVED" PROVE Ok(Result(s, OnStageApproved(NextStage[ev.stage], c)))
  <2>n. /\ NextStage["patches"] = "policy" /\ NextStage["policy"] = "sandbox"
        /\ NextStage["sandbox"] = "pr" /\ NextStage["pr"] = "done"
    BY DEF NextStage
  <2>1. CASE ev.stage = "patches"
    BY <2>n, <2>1, <1>3 DEF OnStageApproved
  <2>p. ev.stage # "patches" => stage # "policy" BY <1>5, <1>e DEF PastPolicy
  <2>2. CASE ev.stage = "policy"
    BY <2>n, <2>p, <2>2, <1>4 DEF OnStageApproved
  <2>3. CASE ev.stage = "sandbox"
    BY <2>n, <2>p, <2>3, <1>4 DEF OnStageApproved
  <2>4. CASE ev.stage = "pr"
    BY <2>n, <2>4, <1>1 DEF OnStageApproved, JobsForStage
  <2> QED BY <1>5, <1>e, <2>1, <2>2, <2>3, <2>4
<1>6. ASSUME ev.type \in {"E_STAGE_CHANGES_REQUESTED", "E_STAGE_RETRY"} PROVE Ok(Result(s, RerunJobs(ev.stage, c)))
  <2>1. CASE ev.stage = "policy" BY <2>1, <1>3 DEF RerunJobs
  <2>2. CASE ev.stage = "sandbox"
    <3>1. stage # "policy" BY <2>2, <1>6, <1>e DEF PastPolicy
    <3> QED BY <2>2, <3>1, <1>4 DEF RerunJobs
  <2>3. CASE ev.stage = "pr" BY <2>3, <1>1 DEF RerunJobs, JobsForStage
  <2> QED BY <1>6, <1>e, <2>1, <2>2, <2>3
<1>7. Ok(OnAnyState(s, ev, c)) BY <1>1, <1>2, <1>5, <1>6 DEF OnAnyState
<1>8. s \in HaltingStates \/ s = "INTAKE" BY DEF LateStates
<1>9. Ok(Transition(s, ev, c))
  <2>1. CASE s \in HaltingStates BY <1>1, <2>1 DEF Transition
  <2>2. CASE s = "INTAKE" BY <1>e, <1>7, <2>2 DEF Transition, HaltingStates
  <2> QED BY <1>8, <2>1, <2>2
<1> QED BY <1>9 DEF Ok

LEMMA LateFlowKept ==
  ASSUME TypeOK, AttemptsAssumption, PatchAssumption, LateFrame, [Next]_vars
  PROVE  LateFlow'
<1>a. LateFlow BY DEF LateFrame
<1>b. stage # "policy" => stage' # "policy" BY StageMovesOn
<1>c. LateEvents \subseteq LateEvents' /\ LateJobs \subseteq LateJobs'
  BY <1>b DEF LateEvents, LateJobs, PastPolicy
<1>1. ASSUME NEW o \in Orchestrators, DecideTransition(o)
      PROVE  orch'[o].next \in LateStates /\ \A j \in orch'[o].jobs : j.name \in LateJobs'
  <2> DEFINE result == Transition(orch[o].seen, orch[o].ev, TransitionContext)
             m == [orch[o] EXCEPT !.pc = "commit", !.next = result.next, !.jobs = result.jobs]
  <2>1. orch[o].seen \in LateStates /\ orch[o].ev \in LateEvents
    BY <1>1, <1>a DEF LateFlow, Flow, OrchestratorIn, DecideTransition
  <2>2. result.next \in LateStates /\ \A j \in result.jobs : j.name \in LateJobs
    BY <2>1, TransitionInLate
  <2> HIDE DEF result
  <2>3. orch' = [orch EXCEPT ![o] = m] BY <1>1 DEF DecideTransition, TypeOK, result
  <2>4. m.next = result.next /\ m.jobs = result.jobs BY DEF TypeOK, OrchRecord
  <2>5. orch'[o] = m BY <2>3 DEF TypeOK
  <2> QED BY <1>c, <2>2, <2>4, <2>5
<1>2. ASSUME NEW ev, Emitted(ev) PROVE ev \in LateEvents'
  <2>1. ev \in Event BY <1>2, EmittedIsEvent
  <2>2. ev.type \in ProcessorEvents
    <3>1. /\ \A s : OfStage("E_JOB_COMPLETED", s).type \in ProcessorEvents
          /\ \A s : OfStage("E_JOB_FAILED", s).type \in ProcessorEvents
          /\ \A f : Flagged("E_POLICY_EVALUATED", "none", f).type \in ProcessorEvents
          /\ \A f : \A t \in {"E_JOB_COMPLETED", "E_JOB_FAILED"} : Flagged(t, "apply_patches", f).type \in ProcessorEvents
      BY DEF OfStage, Flagged, ProcessorEvents
    <3> QED BY <1>2, <3>1 DEF Emitted
  <2> QED BY <2>1, <2>2 DEF LateEvents, ProcessorEvents, PastPolicy
<1>3. ASSUME NEW r \in Requests
      PROVE  /\ UpdateWorkflow(r) => state' = state \/ state' \in LateStates
             /\ EmitEvent(r) => req[r].ev \in LateEvents'
  <2>1. LateRequest(req[r]) BY DEF LateFrame
  <2>2. UpdateWorkflow(r) => state' = state \/ state' \in LateStates
    BY <2>1 DEF UpdateWorkflow, NextStep, LateRequest, Written
  <2>3. req[r].ev \in Event BY DEF TypeOK, RequestRecord
  <2>4. ASSUME EmitEvent(r) PROVE req[r].ev \in LateEvents'
    <3>1. "emit" \in req[r].todo /\ "update" \notin req[r].todo BY <2>4 DEF EmitEvent, NextStep, Order
    <3>2. PastPolicy(req[r].ev) => stage # "policy" BY <2>1, <3>1 DEF LateRequest
    <3>3. req[r].ev \in LateEvents BY <2>1, <2>3, <3>1, <3>2 DEF LateRequest, LateEvents
    <3> QED BY <1>c, <3>3
  <2> QED BY <2>2, <2>4
<1>4. WebhookEvents \subseteq LateEvents'
  <2>1. \A ev \in WebhookEvents : ev \in Event /\ ev.type \in {"E_PR_MERGED", "E_PR_CLOSED", "E_CI_COMPLETED"}
    BY EventTypes, EventKinds DEF WebhookEvents
  <2> QED BY <2>1 DEF LateEvents, PastPolicy
<1>5. FlowAfter(LateEvents', LateStates, LateJobs', LateJobs')
  BY <1>a, <1>c, <1>1, <1>2, <1>3, <1>4, NextFlow DEF LateFlow
<1> QED BY <1>5 DEF LateFlow, Flow, FlowAfter, EventsIn, OrchestratorIn, LateStates

LEMMA LateAsks ==
  ASSUME TypeOK, LateGated, LateFrame, NEW r \in Requests, Asked(r), UNCHANGED rowVars,
         stage # "policy" => VerdictsClean,
         stage = "policy" /\ stageStatus = "ready" => VerdictsClean,
         VerdictsClean => VerdictsClean'
  PROVE  LateRequest(req[r])'
<1> DEFINE q == req'[r]
<1>s. stage \in {"policy", "sandbox", "pr", "done"} /\ stage' = stage /\ state \in LateStates
  BY DEF LateFrame, LateFlow, Flow, rowVars
<1>n. /\ NextStage["policy"] = "sandbox" /\ NextStage["sandbox"] = "pr" /\ NextStage["pr"] = "done"
  BY DEF NextStage
<1>e. /\ \A t, sg : OfStage(t, sg).type = t /\ OfStage(t, sg).stage = sg
      /\ \A t : Plain(t).type = t
  BY DEF OfStage, Plain
<1>r. \A st, sg, ss : Row(st, sg, ss).state = st /\ Row(st, sg, ss).stage = sg /\ Row(st, sg, ss).stageStatus = ss
  BY DEF Row
<1>v. stage \in ValidStages => stage # "done" BY DEF ValidStages
<1>h. {"REJECTED", "DONE"} \subseteq LateStates /\ LateStates' = LateStates BY DEF LateStates, HaltingStates
<1>k. Keep = "keep" BY DEF Keep
<1>1. CASE /\ "approveStage" \in Actions /\ stage \in ValidStages /\ stageStatus = "ready"
           /\ Asks(r, {"decide", "update", "emit"} \cup (IF stage = "policy" THEN {"check"} ELSE {}),
                   ApprovedRow(stage, state), OfStage("E_STAGE_APPROVED", stage))
  <2>1. VerdictsClean' BY <1>1, <1>s
  <2>2. /\ q.row.state \in LateStates /\ q.row.stage \in {"sandbox", "pr", "done"}
        /\ q.row.stageStatus # "ready"
    BY <1>1, <1>s, <1>n, <1>r, <1>v, <1>h DEF Asks, ApprovedRow
  <2>3. q.ev.type = "E_STAGE_APPROVED" /\ q.ev.stage = stage BY <1>1, <1>e DEF Asks
  <2>4. "update" \in q.todo BY <1>1 DEF Asks
  <2> QED BY <1>s, <1>k, <1>h, <1>v, <1>1, <2>1, <2>2, <2>3, <2>4 DEF LateRequest, PastPolicy
<1>2. CASE /\ "rejectStage" \in Actions /\ stage \in ValidStages
           /\ Asks(r, {"decide", "update", "emit"}, Row("REJECTED", Keep, "rejected"),
                   OfStage("E_STAGE_REJECTED", stage))
           /\ q.decision # "approve"
  BY <1>2, <1>e, <1>r, <1>h DEF Asks, LateRequest, PastPolicy
<1>3. CASE /\ "requestStageChanges" \in Actions /\ stage \in ValidStages
           /\ Asks(r, {"decide", "update", "emit"}, Row(Keep, Keep, "needs_changes"),
                   OfStage("E_STAGE_CHANGES_REQUESTED", stage))
           /\ q.decision # "approve"
  BY <1>3, <1>e, <1>r, <1>h, <1>s, <1>v DEF Asks, LateRequest, PastPolicy
<1>4. CASE /\ "retryStage" \in Actions /\ stage \in ValidStages
           /\ Asks(r, {"update", "emit"}, Row(Keep, Keep, "pending"), OfStage("E_STAGE_RETRY", stage))
  BY <1>4, <1>e, <1>r, <1>h, <1>s, <1>v DEF Asks, LateRequest, PastPolicy
<1>5. CASE \/ Asks(r, {"approval", "mark", "emit"}, NoRow, Plain("E_APPROVAL_RECORDED"))
           \/ Asks(r, {"mark", "emit"}, NoRow, Plain("E_PATCH_SET_REJECTED"))
           \/ Asks(r, {"emit"}, NoRow, Plain("E_CHANGES_REQUESTED"))
  BY <1>5, <1>e DEF Asks, LateRequest, PastPolicy
<1>6. CASE state \in CancellableStates
  BY <1>6, <1>s DEF CancellableStates, LateStates, HaltingStates
<1> QED BY <1>1, <1>2, <1>3, <1>4, <1>5, <1>6 DEF Asked, LateGated

LEMMA LateRequestsKept ==
  ASSUME TypeOK, PatchAssumption, LateGated, LateFrame, [Next]_vars, NEW r \in Requests,
         stage # "policy" => VerdictsClean,
         stage = "policy" /\ stageStatus = "ready" => VerdictsClean
  PROVE  LateRequest(req[r])'
<1>q. LateRequest(req[r]) BY DEF LateFrame
<1>s. stage # "policy" => stage' # "policy" BY StageMovesOn
<1>c. VerdictsClean => VerdictsClean' BY LateSets, VerdictsStayClean DEF LateFrame
<1>h. LateStates' = LateStates /\ \A ev : PastPolicy(ev)' = PastPolicy(ev) BY DEF LateStates, PastPolicy
<1>k. Keep = "keep" BY DEF Keep
<1>i. req'[r] = IdleRequest => LateRequest(req[r])' BY DEF LateRequest, IdleRequest
<1>0. CASE req'[r] = req[r] BY <1>0, <1>q, <1>s, <1>c, <1>h DEF LateRequest
<1>1. ASSUME NEW step \in Steps, StepMade(r, step), step = "update" => UpdateWorkflow(r)
      PROVE  LateRequest(req[r])'
  <2>1. /\ req'[r].todo = req[r].todo \ {step} /\ req'[r].row = req[r].row /\ req'[r].ev = req[r].ev
        /\ req'[r].stage = req[r].stage /\ req'[r].decision = req[r].decision
    BY <1>1 DEF StepMade
  <2>2. CASE step # "update" BY <2>1, <2>2, <1>q, <1>s, <1>c, <1>h DEF LateRequest
  <2>3. CASE step = "update"
    <3>1. "update" \in req[r].todo /\ "decide" \notin req[r].todo
      BY <1>1, <2>3 DEF StepMade, NextStep, Order
    <3>2. req[r].row.stage # Keep => stage' = req[r].row.stage BY <1>1, <2>3 DEF UpdateWorkflow, Written
    <3>3. req[r].row.stage # Keep => stage' # "policy" BY <3>1, <3>2, <1>q, <1>k DEF LateRequest
    <3> QED BY <2>1, <2>3, <3>1, <3>3, <1>q, <1>s, <1>c, <1>h DEF LateRequest
  <2> QED BY <2>2, <2>3
<1>2. CASE \E p \in Requests : HandleRequest(p) \/ AbandonRequest(p)
  <2>1. CASE HandleRequest(r) \/ AbandonRequest(r)
    <3>1. \/ req'[r] = IdleRequest
          \/ \E step \in Steps : StepMade(r, step) /\ (step = "update" => UpdateWorkflow(r))
      BY <2>1, RequestSteps DEF Steps
    <3> QED BY <1>1, <1>i, <3>1
  <2>2. CASE \E p \in Requests : p # r /\ (HandleRequest(p) \/ AbandonRequest(p))
    BY <1>0, <2>2, RequestSteps
  <2> QED BY <1>2, <2>1, <2>2
<1>3. CASE \E p \in Requests : Client(p)
  <2>1. CASE Client(r) BY <2>1, <1>c, ClientAsks, LateAsks
  <2>2. CASE \E p \in Requests : p # r /\ Client(p) BY <1>0, <2>2, ClientAsks
  <2> QED BY <1>3, <2>1, <2>2
<1>4. CASE req' = req BY <1>0, <1>4
<1> QED
  BY <1>2, <1>3, <1>4
  DEF Next, OrchestratorStep, RequestStep, ProcessorStep, ClientStep, FaultStep, CrashStep,
      GitHub, PullRequestEvent, CiEvent, vars

(* Who writes "ready" while the workflow is at the policy stage *)
LEMMA ReadyWrites ==
  ASSUME TypeOK, PatchAssumption, LateFrame, [Next]_vars, stage' = "policy", stageStatus' = "ready"
  PROVE  stage = "policy" /\ (stageStatus = "ready" \/ ConcludePolicyStage)
<1>1. stage = "policy" BY StageMovesOn
<1>2. /\ ~ Busy("sandbox_validation") /\ ~ Busy("apply_patches") /\ ~ Busy("ingest_context")
      /\ \A n \in AnalysisJob : ~ Busy(n)
  BY <1>1, LateWork DEF LateFrame, AnalysisJob, JobName, PatchJob
<1>3. CASE \E r \in Requests : HandleRequest(r) \/ AbandonRequest(r)
  <2>1. PICK r \in Requests : HandleRequest(r) \/ AbandonRequest(r) BY <1>3
  <2>2. CASE UpdateWorkflow(r)
    <3>1. LateRequest(req[r]) /\ "update" \in req[r].todo BY <2>2 DEF LateFrame, UpdateWorkflow, NextStep
    <3> QED BY <1>1, <2>2, <3>1 DEF UpdateWorkflow, Written, LateRequest
  <2>3. CASE UNCHANGED stageStatus BY <1>1, <2>3
  <2> QED BY <2>1, <2>2, <2>3, RequestSteps
<1>4. CASE EvaluatePolicy
  <2>1. CASE StartEvaluation
    BY <2>1, <1>1 DEF StartEvaluation, BeginStage
  <2>2. CASE EvaluationCompleted \/ EvaluationFailed
    BY <1>1, <2>2 DEF EvaluationCompleted, EvaluationFailed, EmitAndReturn, rowVars
  <2>3. CASE ClearViolations \/ RecordViolations \/ RecordEvaluation
    BY <1>1, <2>3 DEF ClearViolations, RecordViolations, RecordEvaluation, rowVars
  <2> QED BY <1>1, <1>4, <2>1, <2>2, <2>3 DEF EvaluatePolicy
<1>5. CASE SandboxValidation
  <2>1. ~ At("sandbox_validation", "idle")
    BY <1>5 DEF SandboxValidation, StartSandbox, BeginStage, SkipSandbox, SandboxUnset, ValidatePatches,
                PushSandboxBranch, RecordSandboxRun, ConcludeSandboxStage, SandboxCompleted, SandboxCaught,
                EmitFailureAndThrow, At
  <2> QED BY <1>2, <2>1 DEF Busy
<1>6. CASE ApplyPatches
  <2>1. ~ At("apply_patches", "idle")
    BY <1>6 DEF ApplyPatches, StartApply, BeginStage, SkipApply, SkipApplyReady, PushPrBranch, OpenPullRequest,
                RecordPullRequest, MarkApplied, ConcludePrStage, ApplyCompleted, ApplyFailed, At
  <2> QED BY <1>2, <2>1 DEF Busy
<1>7. CASE IngestContext
  <2>1. ~ At("ingest_context", "idle")
    BY <1>7 DEF IngestContext, StartIngest, GeneratePatchSet, IngestReady, IngestCompleted, IngestCaught,
                EmitFailureAndThrow, At
  <2> QED BY <1>2, <2>1 DEF Busy
<1>8. CASE \E n \in AnalysisJob : ProcessAnalysis(n)
  <2>1. PICK n \in AnalysisJob : ProcessAnalysis(n) BY <1>8
  <2>2. ~ At(n, "idle")
    BY <2>1 DEF ProcessAnalysis, StartAnalysis, SaveArtifact, AnalysisReady, AnalysisCompleted, AnalysisCaught,
                EmitFailureAndThrow, At
  <2> QED BY <1>2, <2>1, <2>2 DEF Busy
<1>9. CASE UNCHANGED stageStatus BY <1>1, <1>9
<1>10. CASE WorkerFault \/ (\E n \in JobName : TakeJob(n) \/ CrashWorker(n))
  <2>1. \A n, pcs, handler : CallFails(n, pcs, handler) => UNCHANGED stageStatus BY DEF CallFails, rowVars
  <2>2. UNCHANGED stageStatus
    BY <1>10, <2>1 DEF WorkerFault, AnalysisFault, IngestFault, EvaluationFault, SandboxFault, ApplyFault,
                       FailBeforeTry, TakeJob, CrashWorker, rowVars
  <2> QED BY <1>9, <2>2
<1>11. CASE \E o \in Orchestrators : HandleEvent(o) \/ FailEvent(o) \/ CrashOrchestrator(o)
  BY <1>9, <1>11, OrchestratorSteps
<1>12. CASE (\E r \in Requests : Client(r)) \/ GitHub
  BY <1>9, <1>12, ClientAsks DEF rowVars, GitHub, PullRequestEvent, CiEvent
<1>13. CASE WorkerStep
  BY <1>13, <1>4, <1>5, <1>6, <1>7, <1>8, <1>10
  DEF WorkerStep, FeasibilityAnalysis, ArchitectureAnalysis, TimelineAnalysis, SummaryAnalysis, AnalysisJob
<1>14. CASE UNCHANGED vars BY <1>9, <1>14 DEF vars
<1> QED
  BY <1>3, <1>10, <1>11, <1>12, <1>13, <1>14
  DEF Next, OrchestratorStep, RequestStep, ProcessorStep, ClientStep, FaultStep, CrashStep

LEMMA EvaluationGoesOn ==
  ASSUME TypeOK, PatchAssumption, [Next]_vars, ~ EvaluationWrites
  PROVE  LET n == "evaluate_policy" IN
         /\ worker'[n] = worker[n] \/ worker'[n].pc \notin {"event", "conclude"}
         /\ Calm' /\ At(n, "record") => worker'[n] = worker[n]
<1> DEFINE n == "evaluate_policy"
<1>n. n \in PatchJob /\ n \in JobName BY DEF PatchJob, JobName
<1>g. \A pc : Goto(n, pc) => worker'[n].pc = pc BY <1>n DEF Goto, TypeOK, WorkerRecord
<1>i. worker'[n] = IdleWorker => worker'[n].pc \notin {"event", "conclude"} BY DEF IdleWorker
<1>1. CASE Runs(n)
  <2>1. EvaluatePolicy BY <1>1 DEF Runs
  <2>2. StartEvaluation => worker'[n].pc \notin {"event", "conclude"}
    BY <1>g DEF StartEvaluation, BeginStage
  <2>3. ConcludePolicyStage => worker'[n].pc \notin {"event", "conclude"}
    BY <1>g DEF ConcludePolicyStage
  <2>4. EvaluationCompleted => worker'[n].pc \notin {"event", "conclude"}
    BY <1>n, <1>i DEF EvaluationCompleted, EmitAndReturn, TypeOK
  <2>5. EvaluationFailed => worker'[n].pc \notin {"event", "conclude"}
    BY <1>n, <1>i DEF EvaluationFailed, EmitAndReturn, TypeOK
  <2>6. worker'[n].pc \notin {"event", "conclude"}
    BY <2>1, <2>2, <2>3, <2>4, <2>5 DEF EvaluatePolicy, EvaluationWrites
  <2>7. ~ At(n, "record")
    BY <2>1 DEF EvaluatePolicy, EvaluationWrites, StartEvaluation, BeginStage, ConcludePolicyStage,
                EvaluationCompleted, EvaluationFailed, At
  <2> QED BY <2>6, <2>7
<1>2. CASE CallBreaks(n)
  <2>1. EvaluationFault BY <1>2 DEF CallBreaks
  <2>2. worker'[n].pc = "fail" BY <2>1, <1>g DEF EvaluationFault, CallFails
  <2>3. ~ Calm' BY <2>1, CalmBefore DEF WorkerFault
  <2> QED BY <2>2, <2>3
<1>3. CASE TakeJob(n)
  <2>1. worker'[n].pc = "start" BY <1>n, <1>3 DEF TakeJob, TypeOK, IdleWorker
  <2> QED BY <2>1, <1>3 DEF TakeJob, At
<1>4. CASE FailBeforeTry(n)
  <2>1. worker'[n] = IdleWorker BY <1>n, <1>4, ThrowEffect DEF FailBeforeTry, Throw, TypeOK
  <2> QED BY <1>i, <1>4, <2>1 DEF FailBeforeTry, At
<1>5. CASE CrashWorker(n)
  <2>1. worker'[n] = IdleWorker BY <1>n, <1>5 DEF CrashWorker, TypeOK
  <2> QED BY <1>i, <1>n, <1>5, <2>1, CalmBefore
<1> QED BY <1>n, <1>1, <1>2, <1>3, <1>4, <1>5, PatchJobSteps

LEMMA EvaluationInHandKept ==
  ASSUME TypeOK, PatchAssumption, JobsNameSets, EvaluationInHand, SetsKept, [Next]_vars
  PROVE  EvaluationInHand'
<1> DEFINE n == "evaluate_policy"
           i == Current(n)
<1>n. n \in PatchJob /\ n \in JobName BY DEF PatchJob, JobName
<1>j. At(n, "idle") \/ i \in PatchSetIds BY <1>n DEF JobsNameSets
<1>g. ASSUME NEW pc, Goto(n, pc) PROVE worker'[n].pc = pc /\ Current(n)' = i
  BY <1>n, <1>g DEF Goto, TypeOK, WorkerRecord, Current
<1>p. PatchSetIds' = PatchSetIds BY DEF SetsKept
<1>e. /\ worker[n].pc \in {"event", "conclude"} => patchSets[i].rows = patchSets[i].verdict
      /\ Calm => \A k \in PatchSetIds :
           patchSets[k].evaluated /\ patchSets[k].rows # patchSets[k].verdict => At(n, "record") /\ i = k
  BY DEF EvaluationInHand
<1>1. CASE EvaluationWrites
  <2>1. ~ At(n, "idle") /\ i \in PatchSetIds
    BY <1>1, <1>j DEF EvaluationWrites, ClearViolations, RecordViolations, RecordEvaluation, At
  <2>2. patchSets[i] \in PatchSet BY <2>1, PatchSetElement
  <2>3. PICK row, pc :
          /\ SetPatchSet(i, row) /\ Goto(n, pc)
          /\ pc \in {"event", "conclude"} => row.rows = row.verdict
          /\ pc = "record" \/ row.rows = row.verdict
          /\ Calm /\ ~ At(n, "record") =>
               \A k \in PatchSetIds : patchSets[k].evaluated => patchSets[k].rows = patchSets[k].verdict
    <3>c. Calm /\ ~ At(n, "record") =>
            \A k \in PatchSetIds : patchSets[k].evaluated => patchSets[k].rows = patchSets[k].verdict
      BY <1>e
    <3>1. CASE ClearViolations
      <4> DEFINE row == [patchSets[i] EXCEPT !.rows = "none"]
      <4>1. SetPatchSet(i, row) /\ Goto(n, "record") BY <3>1 DEF ClearViolations
      <4> HIDE DEF row
      <4> QED BY <3>c, <4>1
    <3>2. CASE RecordViolations
      <4> DEFINE row == [patchSets[i] EXCEPT !.rows = patchSets[i].verdict]
      <4>1. SetPatchSet(i, row) /\ Goto(n, "event") BY <3>2 DEF RecordViolations
      <4>2. row.rows = row.verdict BY <2>2 DEF PatchSet
      <4> HIDE DEF row
      <4> QED BY <3>c, <4>1, <4>2
    <3>3. CASE RecordEvaluation
      <4> DEFINE row == [patchSets[i] EXCEPT !.evaluated = TRUE]
      <4>1. SetPatchSet(i, row) /\ \E pc : Goto(n, pc) BY <3>3 DEF RecordEvaluation
      <4>2. patchSets[i].rows = patchSets[i].verdict BY <1>e, <3>3 DEF RecordEvaluation, At
      <4>3. row.rows = row.verdict BY <2>2, <4>2 DEF PatchSet
      <4> HIDE DEF row
      <4> QED BY <3>c, <4>1, <4>3
    <3> QED BY <1>1, <3>1, <3>2, <3>3 DEF EvaluationWrites
  <2>4. \A k \in PatchSetIds : patchSets'[k] = IF k = i THEN row ELSE patchSets[k]
    BY <2>3, SetPatchSetRow
  <2>5. worker'[n].pc = pc /\ Current(n)' = i BY <1>g, <2>3
  <2>6. worker'[n].pc \in {"event", "conclude"} => patchSets'[i].rows = patchSets'[i].verdict
    BY <2>1, <2>3, <2>4, <2>5
  <2>7. ASSUME Calm', NEW k \in PatchSetIds, patchSets'[k].evaluated, patchSets'[k].rows # patchSets'[k].verdict
        PROVE  At(n, "record")' /\ i = k
    <3>1. Calm BY <2>7, CalmBefore
    <3>2. i = k BY <1>e, <2>3, <2>4, <2>7, <3>1
    <3>3. pc = "record" BY <2>3, <2>4, <2>7, <3>2
    <3> QED BY <2>5, <3>2, <3>3 DEF At
  <2> HIDE DEF i
  <2> QED BY <1>p, <2>5, <2>6, <2>7 DEF EvaluationInHand
<1>2. CASE ~ EvaluationWrites
  <2>1. \A k \in PatchSetIds : SameJudgement(patchSets'[k], patchSets[k])
    BY <1>2, NextKeepsRows DEF RowsKept
  <2>2. worker'[n].pc \in {"event", "conclude"} => patchSets'[Current(n)'].rows = patchSets'[Current(n)'].verdict
    <3> SUFFICES ASSUME worker'[n].pc \in {"event", "conclude"}
                 PROVE  patchSets'[Current(n)'].rows = patchSets'[Current(n)'].verdict
      OBVIOUS
    <3>1. worker'[n] = worker[n] BY <1>2, EvaluationGoesOn
    <3>2. Current(n)' = i /\ worker[n].pc \in {"event", "conclude"} BY <3>1 DEF Current
    <3>3. i \in PatchSetIds BY <1>j, <3>2 DEF At
    <3> HIDE DEF i
    <3> QED BY <1>e, <2>1, <3>2, <3>3 DEF SameJudgement
  <2>3. ASSUME Calm', NEW k \in PatchSetIds, patchSets'[k].evaluated, patchSets'[k].rows # patchSets'[k].verdict
        PROVE  At(n, "record")' /\ Current(n)' = k
    <3>1. Calm BY <2>3, CalmBefore
    <3>2. At(n, "record") /\ i = k BY <1>e, <2>1, <2>3, <3>1 DEF SameJudgement
    <3>3. worker'[n] = worker[n] BY <1>2, <2>3, <3>2, EvaluationGoesOn
    <3> QED BY <3>2, <3>3 DEF At, Current
  <2> QED BY <1>p, <2>2, <2>3 DEF EvaluationInHand
<1> QED BY <1>1, <1>2

(* The stage concludes "ready" on a set whose rows are its verdict, or when   *)
(* every proposed set is evaluated and none has a blocking row.               *)
LEMMA ConclusionIsClean ==
  ASSUME TypeOK, TypeOK', JobsNameSets, EvaluationInHand, Len(patchSets) = NumRepos, SetsKept, [Next]_vars,
         ConcludePolicyStage, stage = "policy", stageStatus # "ready", stageStatus' = "ready"
  PROVE  VerdictsClean'
<1> DEFINE n == "evaluate_policy"
           i == Current(n)
<1>n. n \in PatchJob BY DEF PatchJob
<1>1. /\ At(n, "conclude") /\ patchSets' = patchSets
      /\ \A k \in WithStatus("proposed") : patchSets[k].evaluated
      /\ ~ SomeBlockRow
  BY DEF ConcludePolicyStage
<1>2. i \in PatchSetIds /\ patchSets[i].rows = patchSets[i].verdict
  BY <1>1, <1>n DEF JobsNameSets, EvaluationInHand, At
<1>3. \A k \in PatchSetIds : patchSets[k].rows # "block" BY <1>1 DEF SomeBlockRow, HasBlockRow
<1>4. CASE NumRepos = 1
  <2>1. PatchSetIds = {1} BY <1>4 DEF PatchSetIds
  <2> QED BY <1>1, <1>2, <1>3, <1>4, <2>1 DEF VerdictsClean, SetsKept
<1>5. CASE NumRepos # 1
  <2>1. ASSUME Calm', NEW k \in WithStatus("proposed") PROVE patchSets[k].verdict # "block"
    <3>1. Calm BY <2>1, CalmBefore
    <3>2. k \in PatchSetIds /\ patchSets[k].evaluated BY <1>1, <2>1 DEF WithStatus
    <3>3. patchSets[k].rows = patchSets[k].verdict BY <1>1, <3>1, <3>2 DEF EvaluationInHand, At
    <3> QED BY <1>3, <3>2, <3>3
  <2>2. WithStatus("proposed")' = WithStatus("proposed") BY <1>1 DEF WithStatus, PatchSetIds
  <2> QED BY <1>1, <1>5, <2>1, <2>2 DEF VerdictsClean, Clean
<1> QED BY <1>4, <1>5

LEMMA NextLate ==
  ASSUME TypeOK, TypeOK', AttemptsAssumption, PatchAssumption, LateGated,
         JobsNameSets, LateInvariant, [Next]_vars
  PROVE  LateInvariant'
<1>1. LateFrame /\ LateFlow BY DEF LateInvariant, LateFrame, LateFlow, Flow
<1>2. SetsKept BY <1>1, LateSets
<1>3. VerdictsClean => VerdictsClean' BY <1>2, VerdictsStayClean
<1>4. /\ stage # "policy" => VerdictsClean
      /\ stage = "policy" /\ stageStatus = "ready" => VerdictsClean
  BY DEF LateInvariant
<1>5. LateFlow' BY <1>1, LateFlowKept
<1>6. Len(patchSets') = NumRepos BY <1>2 DEF SetsKept, LateInvariant
<1>7. stage' \in {"policy", "sandbox", "pr", "done"} BY <1>1, StageMovesOn
<1>8. \A r \in Requests : LateRequest(req[r])' BY <1>1, <1>4, LateRequestsKept
<1>9. EvaluationInHand' BY <1>2, EvaluationInHandKept DEF LateInvariant
<1>10. stage' = "policy" /\ stageStatus' = "ready" => VerdictsClean'
  <2> SUFFICES ASSUME stage' = "policy", stageStatus' = "ready" PROVE VerdictsClean' OBVIOUS
  <2>1. stage = "policy" /\ (stageStatus = "ready" \/ ConcludePolicyStage) BY <1>1, ReadyWrites
  <2>2. CASE stageStatus = "ready" BY <2>1, <2>2, <1>3, <1>4
  <2>3. CASE stageStatus # "ready" BY <2>1, <2>3, <1>2, ConclusionIsClean DEF LateInvariant
  <2> QED BY <2>2, <2>3
<1>11. stage' # "policy" => VerdictsClean' BY <1>1, <1>3, <1>4, StageMovesOn
<1>12. NumRepos = 1 => NoPrForBlockedPatch'
  <2> SUFFICES ASSUME NumRepos = 1 PROVE NoPrForBlockedPatch' OBVIOUS
  <2>1. ASSUME ApplyWrites
        PROVE  SetsKept /\ (Calm => \A i \in PatchSetIds : patchSets[i].verdict # "block")
    <3>1. Busy("apply_patches")
      BY <2>1 DEF ApplyWrites, SkipApply, MarkApplied, PushPrBranch, OpenPullRequest,
                  RecordPullRequest, Busy, At
    <3>2. stage # "policy" BY <1>1, <3>1, LateWork
    <3> QED BY <1>2, <1>4, <3>2 DEF VerdictsClean
  <2>2. NoPrForBlockedPatch BY DEF LateInvariant
  <2> QED BY <2>1, <2>2, PullRequestWrites
<1> QED
  BY <1>5, <1>6, <1>7, <1>8, <1>9, <1>10, <1>11, <1>12 DEF LateInvariant, LateFlow, Flow

LEMMA InitLate ==
  ASSUME PatchAssumption, Init, TypeOK, LateGated
  PROVE  LateInvariant
<1>1. GatedInit BY DEF Init, LateGated
<1>2. /\ state = "INTAKE" /\ stage = StartStage /\ stageStatus = "pending"
      /\ StartStage \in {"policy", "sandbox", "pr"}
      /\ \A o \in Orchestrators : orch[o] = IdleOrch
      /\ \A r \in Requests : req[r] = IdleRequest
      /\ \A n \in JobName : worker[n] = IdleWorker /\ jobQ[n] = <<>>
  BY <1>1 DEF Init, GatedInit, LateGated
<1>3. /\ Len(patchSets) = NumRepos
      /\ stage # "policy" => \A i \in PatchSetIds : patchSets[i].verdict # "block"
  <2>n. NumRepos \in Nat BY DEF PatchAssumption
  <2>1. "patches" \in Before(StartStage) /\ ("policy" \in Before(StartStage) <=> StartStage # "policy")
    <3>1. {"patches", "policy"} \subseteq ValidStages BY DEF ValidStages
    <3>2. CASE StartStage = "policy" BY <3>2 DEF Before
    <3>3. CASE StartStage = "sandbox" BY <3>1, <3>3 DEF Before
    <3>4. CASE StartStage = "pr" BY <3>1, <3>4 DEF Before
    <3> QED BY <1>2, <3>2, <3>3, <3>4
  <2> DEFINE judged(v) == [NewPatchSet(v) EXCEPT !.rows = v, !.evaluated = TRUE]
  <2>2. \A v : judged(v).verdict = v BY DEF NewPatchSet
  <2>3. \/ stage = "policy" /\ \E v : patchSets = [i \in 1..NumRepos |-> NewPatchSet(v[i])]
        \/ \E v \in [1..NumRepos -> Verdicts \ {"block"}] : patchSets = [i \in 1..NumRepos |-> judged(v[i])]
    BY <1>1, <1>2, <2>1 DEF GatedInit, StartPatchSets
  <2> HIDE DEF judged
  <2>4. DOMAIN patchSets = 1..NumRepos BY <2>3
  <2>5. Len(patchSets) = NumRepos BY <2>n, <2>4, LenProperties DEF TypeOK
  <2> QED BY <2>2, <2>3, <2>4, <2>5 DEF PatchSetIds
<1>4. LateFlow
  <2> DEFINE entry == [ev |-> StartEvent, left |-> 1, fresh |-> TRUE, stalls |-> 0]
  <2>1. StartEvent \in LateEvents
    <3> DEFINE s == CHOOSE p \in ValidStages : NextStage[p] = StartStage
    <3>1. {"patches", "policy", "sandbox"} \subseteq ValidStages /\ \E p \in ValidStages : NextStage[p] = StartStage
      BY <1>2 DEF ValidStages, NextStage
    <3>2. s \in ValidStages /\ NextStage[s] = StartStage BY <3>1
    <3> HIDE DEF s
    <3>3. s \in {"patches", "policy", "sandbox"} /\ (s # "patches" => stage # "policy")
      BY <1>2, <3>2 DEF ValidStages, NextStage
    <3>4. StartEvent = OfStage("E_STAGE_APPROVED", s) BY <1>2 DEF StartEvent, s
    <3>5. StartEvent \in Event BY <3>2, <3>4, EventTypes
    <3>6. StartEvent.type = "E_STAGE_APPROVED" /\ StartEvent.stage = s BY <3>4 DEF OfStage
    <3> QED BY <3>3, <3>5, <3>6 DEF LateEvents, PastPolicy
  <2>2. entry \in EventsIn(LateEvents) BY <2>1 DEF EventsIn, QueuedEvent, LateEvents
  <2>3. orchQ = <<entry>> BY <1>1 DEF GatedInit
  <2> HIDE DEF entry
  <2>4. orchQ \in Seq(EventsIn(LateEvents)) BY <2>2, <2>3
  <2>5. \A o \in Orchestrators : OrchestratorIn(orch[o], LateEvents, LateStates, LateJobs)
    BY <1>2 DEF OrchestratorIn, IdleOrch
  <2>6. \A n \in JobName : ~ Busy(n) BY <1>2 DEF Busy, At, IdleWorker
  <2> QED BY <1>2, <2>4, <2>5, <2>6 DEF LateFlow, Flow, LateStates
<1>5. \A r \in Requests : LateRequest(req[r]) BY <1>2 DEF LateRequest, IdleRequest
<1>6. EvaluationInHand
  <2>1. worker["evaluate_policy"].pc = "idle" BY <1>2 DEF IdleWorker, JobName, PatchJob
  <2> QED BY <2>1, InitRows DEF EvaluationInHand
<1>7. stage # "policy" => VerdictsClean BY <1>3 DEF VerdictsClean, Clean, WithStatus
<1>8. NoPrForBlockedPatch BY InitRows DEF NoPrForBlockedPatch
<1> QED BY <1>2, <1>3, <1>4, <1>5, <1>6, <1>7, <1>8 DEF LateInvariant, LateFlow

LEMMA LateInvariance ==
  ASSUME LateGated
  PROVE  Spec => []LateInvariant
<1>1. Init /\ TypeOK => LateInvariant BY InitLate, PatchAssumption
<1>2. TypeOK /\ TypeOK' /\ JobsNameSets /\ LateInvariant /\ [Next]_vars => LateInvariant'
  BY AttemptsAssumption, PatchAssumption, NextLate
<1>3. Init => JobsNameSets BY InitNames
<1>4. TypeOK /\ JobsNameSets /\ [Next]_vars => JobsNameSets' BY NextNames, PatchAssumption
<1> QED BY <1>1, <1>2, <1>3, <1>4, TypeCorrect, PTL DEF Spec

(* In a workflow of one repository no pull request is opened for a patch set  *)
(* with a BLOCK verdict while nothing fails or crashes, whatever the clients  *)
(* and the webhooks do: in the legacy flow, where the verdict event of the    *)
(* only set decides, and in a gated workflow that has reached the policy      *)
(* stage, where "ready" does.                                                 *)
THEOREM NoPrForBlockedPatchHolds ==
  ASSUME NumRepos = 1, LegacyClients \/ LateGated
  PROVE  Spec => []NoPrForBlockedPatch
<1>1. CASE LegacyClients
  <2>1. LegacyInvariant => NoPrForBlockedPatch BY DEF LegacyInvariant
  <2>2. Spec => []LegacyInvariant BY <1>1, LegacyInvariance
  <2> QED BY <2>1, <2>2, PTL
<1>2. CASE LateGated
  <2>1. LateInvariant => NoPrForBlockedPatch BY DEF LateInvariant
  <2>2. Spec => []LateInvariant BY <1>2, LateInvariance
  <2> QED BY <2>1, <2>2, PTL
<1> QED BY <1>1, <1>2

LEMMA NothingBreaks ==
  ASSUME MaxFaults = 0, MaxCrashes = 0
  PROVE  Spec => []Calm
<1>1. Init => Calm BY DEF Init, Calm
<1>2. TypeOK /\ Calm /\ [Next]_vars => Calm'
  <2> SUFFICES ASSUME TypeOK, Calm, [Next]_vars PROVE Calm' OBVIOUS
  <2>1. faults \in Nat /\ crashes \in Nat BY DEF TypeOK
  <2>2. faults = 0 /\ crashes = 0 BY <2>1 DEF Calm
  <2>3. UNCHANGED <<faults, crashes>> BY <2>2, FaultsGrow DEF FaultStep, CrashStep
  <2> QED BY <2>3 DEF Calm
<1> QED BY <1>1, <1>2, TypeCorrect, PTL DEF Spec

(* A gated workflow that has reached the policy stage never has that stage    *)
(* approved over a BLOCK verdict: always in a workflow of one repository,     *)
(* faults and crashes included, and for several repositories until the first  *)
(* fault or crash.  The check that counts is the "ready" the approval read,   *)
(* since nothing makes the stage ready again and no verdict changes after it. *)
THEOREM PolicyApprovalIsCleanHolds ==
  ASSUME LateGated
  PROVE  Spec => PolicyApprovalIsClean
<1> DEFINE Approves(r) == CreateDecision(r) /\ req[r].stage = "policy" /\ req[r].decision = "approve"
           Judged == \A i \in WithStatus("proposed") : patchSets[i].verdict # "block"
           Known == NumRepos = 1 \/ faults + crashes = 0
<1>1. LateInvariant /\ Known => \A r \in Requests : Approves(r) => Judged
  <2> SUFFICES ASSUME LateInvariant, Known, NEW r \in Requests, Approves(r) PROVE Judged
    OBVIOUS
  <2>1. LateRequest(req[r]) /\ "decide" \in req[r].todo /\ req[r].decision = "approve"
    BY DEF LateInvariant, CreateDecision, NextStep
  <2>2. VerdictsClean BY <2>1 DEF LateRequest
  <2> QED BY <2>2 DEF VerdictsClean, Clean, WithStatus, Calm
<1>2. LateInvariant => [Known => \A r \in Requests : Approves(r) => Judged]_vars BY <1>1
<1> QED BY <1>2, LateInvariance, PTL DEF PolicyApprovalIsClean

-----------------------------------------------------------------------------
(* What is under way for a pending stage *)

RetryAlone == "retryStage" \in Actions => \E r : Requests = {r}

PendingStages == {"policy", "sandbox"} \cup (IF "retryStage" \in Actions THEN {} ELSE {"pr"})
JobOf == [policy |-> "evaluate_policy", sandbox |-> "sandbox_validation", pr |-> "apply_patches"]

StartsStage(ev, s) ==
  \/ ev.type = "E_STAGE_APPROVED" /\ NextStage[ev.stage] = s
  \/ ev.type = "E_STAGE_RETRY" /\ ev.stage = s /\ s # "pr"

PendingRequest(q) ==
  "update" \in q.todo =>
    /\ q.row.state = Keep \/ q.row.state \in HaltingStates \/ q.row.stageStatus # Keep
    /\ q.row.stage # Keep => q.row.stageStatus # Keep
    /\ q.row.stageStatus = "pending" =>
         /\ q.row.stage = Keep => "retryStage" \in Actions
         /\ LET s == IF q.row.stage = Keep THEN stage ELSE q.row.stage IN
            /\ s # "done"
            /\ s \in PendingStages => "emit" \in q.todo /\ StartsStage(q.ev, s)

EventUnderWay(s) ==
  \/ \E i \in DOMAIN orchQ : StartsStage(orchQ[i].ev, s)
  \/ \E o \in Orchestrators :
       orch[o].pc = "decide" /\ StartsStage(orch[o].ev, s) /\ orch[o].seen \notin HaltingStates
  \/ \E r \in Requests : req[r].todo = {"emit"} /\ StartsStage(req[r].ev, s)
JobUnderWay(s) ==
  LET n == JobOf[s] IN
  \/ \E o \in Orchestrators :
       orch[o].pc \in {"commit", "enqueue"} /\ \E j \in orch[o].jobs : j.name = n
  \/ jobQ[n] # <<>>
  \/ At(n, "start") /\ Saw(n, s) /\ worker[n].sawStatus = "pending"

(* What an orchestrator concluded from a halted workflow leaves it halted.    *)
HaltedStays(m) == m.pc = "commit" /\ m.seen \in HaltingStates => m.next \in HaltingStates

PendingInvariant ==
  /\ \A o \in Orchestrators : HaltedStays(orch[o])
  /\ \A r \in Requests : PendingRequest(req[r])
  /\ stageStatus = "pending" =>
       /\ stage # "done"
       /\ state \notin HaltingStates /\ stage \in PendingStages =>
            EventUnderWay(stage) \/ JobUnderWay(stage)

LEMMA PendingWrites ==
  ASSUME TypeOK, PatchAssumption, [Next]_vars, stageStatus' = "pending"
  PROVE  stageStatus = "pending" \/ \E r \in Requests : UpdateWorkflow(r)
<1>a. \A n, ev : EmitAndReturn(n, ev) => UNCHANGED stageStatus BY DEF EmitAndReturn, rowVars
<1>b. \A n : EmitFailureAndThrow(n) => UNCHANGED stageStatus BY DEF EmitFailureAndThrow, rowVars
<1>c. \A n, pcs, handler : CallFails(n, pcs, handler) => UNCHANGED stageStatus BY DEF CallFails, rowVars
<1>1. CASE \E r \in Requests : HandleRequest(r) \/ AbandonRequest(r)
  <2>1. PICK r \in Requests : HandleRequest(r) \/ AbandonRequest(r) BY <1>1
  <2> QED BY <2>1, RequestSteps
<1>2. CASE \E o \in Orchestrators : HandleEvent(o) \/ FailEvent(o) \/ CrashOrchestrator(o)
  BY <1>2, OrchestratorSteps
<1>3. CASE (\E r \in Requests : Client(r)) \/ GitHub
  BY <1>3, ClientAsks DEF rowVars, GitHub, PullRequestEvent, CiEvent
<1>4. CASE EvaluatePolicy
  BY <1>4, <1>a DEF EvaluatePolicy, StartEvaluation, BeginStage, ClearViolations, RecordViolations,
                    RecordEvaluation, ConcludePolicyStage, EvaluationCompleted, EvaluationFailed, rowVars
<1>5. CASE SandboxValidation
  BY <1>5, <1>a, <1>b DEF SandboxValidation, StartSandbox, BeginStage, SkipSandbox, SandboxUnset,
                          ValidatePatches, PushSandboxBranch, RecordSandboxRun,
                          ConcludeSandboxStage, SandboxCompleted, SandboxCaught, rowVars
<1>6. CASE ApplyPatches
  BY <1>6, <1>a DEF ApplyPatches, StartApply, BeginStage, SkipApply, SkipApplyReady, PushPrBranch,
                    OpenPullRequest, RecordPullRequest, MarkApplied, ConcludePrStage,
                    ApplyCompleted, ApplyFailed, rowVars
<1>7. CASE IngestContext
  BY <1>7, <1>a, <1>b DEF IngestContext, StartIngest, GeneratePatchSet, IngestReady,
                          IngestCompleted, IngestCaught, rowVars
<1>8. CASE \E n \in AnalysisJob : ProcessAnalysis(n)
  BY <1>8, <1>a, <1>b DEF ProcessAnalysis, StartAnalysis, SaveArtifact, AnalysisReady,
                          AnalysisCompleted, AnalysisCaught, rowVars
<1>9. CASE WorkerFault \/ (\E n \in JobName : TakeJob(n) \/ CrashWorker(n))
  BY <1>9, <1>c DEF WorkerFault, AnalysisFault, IngestFault, EvaluationFault, SandboxFault, ApplyFault,
                    FailBeforeTry, TakeJob, CrashWorker, rowVars
<1>10. CASE WorkerStep
  BY <1>4, <1>5, <1>6, <1>7, <1>8, <1>9, <1>10
  DEF WorkerStep, FeasibilityAnalysis, ArchitectureAnalysis, TimelineAnalysis, SummaryAnalysis, AnalysisJob
<1>11. CASE UNCHANGED vars BY <1>11 DEF vars
<1> QED
  BY <1>1, <1>2, <1>3, <1>9, <1>10, <1>11
  DEF Next, OrchestratorStep, RequestStep, ProcessorStep, ClientStep, FaultStep, CrashStep

LEMMA PendingAsked ==
  ASSUME TypeOK, LateGated, LateFrame, NEW r \in Requests, Asked(r), UNCHANGED rowVars
  PROVE  PendingRequest(req[r])'
<1> DEFINE q == req'[r]
<1>s. stage' = stage /\ state \in LateStates BY DEF LateFrame, LateFlow, Flow, rowVars
<1>h. {"REJECTED", "DONE"} \subseteq HaltingStates BY DEF HaltingStates
<1>r. \A st, sg, ss : Row(st, sg, ss).state = st /\ Row(st, sg, ss).stage = sg /\ Row(st, sg, ss).stageStatus = ss
  BY DEF Row
<1>e. \A t, sg : OfStage(t, sg).type = t /\ OfStage(t, sg).stage = sg BY DEF OfStage
<1>k. Keep = "keep" BY DEF Keep
<1>v. stage \in ValidStages => stage # "done" BY DEF ValidStages
<1>1. CASE /\ "approveStage" \in Actions /\ stage \in ValidStages /\ stageStatus = "ready"
           /\ Asks(r, {"decide", "update", "emit"} \cup (IF stage = "policy" THEN {"check"} ELSE {}),
                   ApprovedRow(stage, state), OfStage("E_STAGE_APPROVED", stage))
  <2>1. "emit" \in q.todo /\ q.row = ApprovedRow(stage, state) /\ q.ev.type = "E_STAGE_APPROVED" /\ q.ev.stage = stage
    BY <1>1, <1>e DEF Asks
  <2>2. CASE NextStage[stage] = "done"
    BY <2>1, <2>2, <1>r, <1>h, <1>k DEF PendingRequest, ApprovedRow
  <2>3. CASE NextStage[stage] # "done"
    <3>1. q.row.stage = NextStage[stage] /\ q.row.stageStatus = "pending"
      BY <2>1, <2>3, <1>r DEF ApprovedRow
    <3>2. NextStage[stage] # Keep BY <1>1, <1>k DEF NextStage, ValidStages
    <3> QED BY <2>1, <2>3, <3>1, <3>2, <1>k DEF PendingRequest, StartsStage
  <2> QED BY <2>2, <2>3
<1>2. CASE /\ "rejectStage" \in Actions /\ stage \in ValidStages
           /\ Asks(r, {"decide", "update", "emit"}, Row("REJECTED", Keep, "rejected"),
                   OfStage("E_STAGE_REJECTED", stage))
           /\ q.decision # "approve"
  BY <1>2, <1>r, <1>h, <1>k DEF Asks, PendingRequest
<1>3. CASE /\ "requestStageChanges" \in Actions /\ stage \in ValidStages
           /\ Asks(r, {"decide", "update", "emit"}, Row(Keep, Keep, "needs_changes"),
                   OfStage("E_STAGE_CHANGES_REQUESTED", stage))
           /\ q.decision # "approve"
  BY <1>3, <1>r, <1>k DEF Asks, PendingRequest
<1>4. CASE /\ "retryStage" \in Actions /\ stage \in ValidStages
           /\ Asks(r, {"update", "emit"}, Row(Keep, Keep, "pending"), OfStage("E_STAGE_RETRY", stage))
  <2>1. stage \in PendingStages => stage # "pr" BY <1>4 DEF PendingStages
  <2> QED BY <1>4, <2>1, <1>r, <1>k, <1>s, <1>e, <1>v DEF Asks, PendingRequest, PendingStages, StartsStage
<1>5. CASE \/ Asks(r, {"approval", "mark", "emit"}, NoRow, Plain("E_APPROVAL_RECORDED"))
           \/ Asks(r, {"mark", "emit"}, NoRow, Plain("E_PATCH_SET_REJECTED"))
           \/ Asks(r, {"emit"}, NoRow, Plain("E_CHANGES_REQUESTED"))
  BY <1>5 DEF Asks, PendingRequest
<1>6. CASE state \in CancellableStates
  BY <1>6, <1>s DEF CancellableStates, LateStates, HaltingStates
<1> QED BY <1>1, <1>2, <1>3, <1>4, <1>5, <1>6 DEF Asked, LateGated

LEMMA PendingRequestsKept ==
  ASSUME TypeOK, PatchAssumption, LateGated, RetryAlone, LateFrame, [Next]_vars,
         NEW r \in Requests, PendingRequest(req[r])
  PROVE  PendingRequest(req[r])'
<1>1. CASE \E p \in Requests : Client(p)
  <2>1. CASE Client(r) BY <2>1, ClientAsks, PendingAsked
  <2>2. CASE \E p \in Requests : p # r /\ Client(p)
    BY <2>2, ClientAsks DEF PendingRequest, rowVars, PendingStages, StartsStage
  <2> QED BY <1>1, <2>1, <2>2
<1>2. CASE ~ \E p \in Requests : Client(p)
  <2> SUFFICES ASSUME "update" \in req'[r].todo PROVE PendingRequest(req[r])'
    BY DEF PendingRequest
  <2>i. IdleRequest.todo = {} BY DEF IdleRequest
  <2>u. ~ UpdateWorkflow(r) BY <2>i, DoneStep DEF UpdateWorkflow, StepMade
  <2>1. /\ "update" \in req[r].todo /\ req'[r].row = req[r].row /\ req'[r].ev = req[r].ev
        /\ "emit" \in req[r].todo => "emit" \in req'[r].todo
    <3>1. CASE HandleRequest(r) \/ AbandonRequest(r)
      <4>1. PICK step \in {"check", "approval", "mark", "decide", "emit"} : StepMade(r, step)
        BY <3>1, <2>i, <2>u, RequestSteps
      <4>2. "update" \in req[r].todo BY <4>1 DEF StepMade
      <4>3. step # "emit" BY <4>1, <4>2 DEF StepMade, NextStep, Order
      <4> QED BY <4>1, <4>2, <4>3 DEF StepMade
    <3>2. CASE \E p \in Requests : p # r /\ (HandleRequest(p) \/ AbandonRequest(p))
      BY <3>2, RequestSteps
    <3>3. CASE req' = req BY <3>3
    <3> QED
      BY <1>2, <3>1, <3>2, <3>3
      DEF Next, OrchestratorStep, RequestStep, ProcessorStep, ClientStep, FaultStep, CrashStep,
          GitHub, PullRequestEvent, CiEvent, vars
  <2>2. req[r].row.stage = Keep /\ req[r].row.stageStatus = "pending" => stage' = stage
    <3>1. SUFFICES ASSUME req[r].row.stage = Keep, req[r].row.stageStatus = "pending" PROVE stage' = stage
      OBVIOUS
    <3>2. \A p \in Requests : p = r BY <2>1, <3>1 DEF PendingRequest, RetryAlone
    <3> QED BY <2>u, <3>2, StageWrites
  <2> QED BY <2>1, <2>2 DEF PendingRequest, PendingStages, StartsStage
<1> QED BY <1>1, <1>2

(* While nothing breaks the queue of events only grows, but for what an       *)
(* orchestrator takes.                                                        *)
LEMMA EventQueueSteps ==
  ASSUME TypeOK, AttemptsAssumption, PatchAssumption, [Next]_vars, Calm'
  PROVE  \/ orchQ' = orchQ
         \/ \E o \in Orchestrators : TakeEvent(o)
         \/ \E entry \in QueuedEvent : orchQ' = Append(orchQ, entry)
<1>a. ASSUME NEW ev \in Event, EmitFromApi(ev)
      PROVE  \E entry \in QueuedEvent : orchQ' = Append(orchQ, entry)
  <2> DEFINE entry == [ev |-> ev, left |-> 1, fresh |-> TRUE, stalls |-> 0]
  <2>1. entry \in QueuedEvent BY DEF QueuedEvent
  <2>2. orchQ' = Append(orchQ, entry) BY <1>a DEF EmitFromApi
  <2> HIDE DEF entry
  <2> QED BY <2>1, <2>2
<1>b. ASSUME NEW ev \in Event, EmitFromWorker(ev)
      PROVE  \E entry \in QueuedEvent : orchQ' = Append(orchQ, entry)
  <2> DEFINE entry == [ev |-> ev, left |-> OrchAttempts, fresh |-> TRUE, stalls |-> 0]
  <2>1. entry \in QueuedEvent BY AttemptsAssumption DEF QueuedEvent, AttemptsAssumption
  <2>2. orchQ' = Append(orchQ, entry) BY <1>b DEF EmitFromWorker
  <2> HIDE DEF entry
  <2> QED BY <2>1, <2>2
<1>1. CASE \E o \in Orchestrators : OrchestratorStep(o)
  BY <1>1 DEF OrchestratorStep, HandleEvent, TakeEvent, DecideTransition, WriteTransitionResult,
              EnqueueJob, FinishEvent, queueVars
<1>2. CASE \E r \in Requests : HandleRequest(r) \/ AbandonRequest(r)
  <2>1. PICK r \in Requests : HandleRequest(r) \/ AbandonRequest(r) BY <1>2
  <2>2. req[r].ev \in Event BY DEF TypeOK, RequestRecord
  <2> QED BY <1>a, <2>1, <2>2, RequestSteps
<1>3. CASE WorkerStep
  BY <1>3, <1>b, ProcessorEmits, EmittedIsEvent
<1>4. CASE (\E r \in Requests : Client(r)) \/ GitHub
  <2>1. CASE \E r \in Requests : Client(r) BY <2>1, ClientAsks
  <2>2. CASE GitHub
    <3>1. orchQ' = orchQ \/ \E ev \in WebhookEvents : EmitFromApi(ev)
      BY <2>2 DEF GitHub, PullRequestEvent, CiEvent, WebhookEvents
    <3>2. WebhookEvents \subseteq Event BY EventTypes DEF WebhookEvents
    <3> QED BY <1>a, <3>1, <3>2
  <2> QED BY <1>4, <2>1, <2>2
<1>5. CASE UNCHANGED vars BY <1>5 DEF vars
<1>6. CASE FaultStep \/ CrashStep
  BY <1>2, <1>6, CalmBefore DEF FaultStep, CrashStep
<1> QED
  BY <1>1, <1>2, <1>3, <1>4, <1>5, <1>6
  DEF Next, RequestStep, ProcessorStep, ClientStep

LEMMA TransitionStarts ==
  ASSUME NEW ev \in LateEvents, NEW s \in PendingStages, StartsStage(ev, s),
         NEW c, c.latest # NoPatchSet
  PROVE  \E j \in Transition("INTAKE", ev, c).jobs : j.name = JobOf[s]
<1> DEFINE jobs == CASE s = "policy"  -> JobsFor("evaluate_policy", OrLatest(c.needPolicy, c))
                     [] s = "sandbox" -> JobsFor("sandbox_validation", OrLatest(c.needApproval, c))
                     [] s = "pr"      -> JobsFor("apply_patches", OrLatest(c.needApproval, c))
<1>1. /\ JobOf["policy"] = "evaluate_policy" /\ JobOf["sandbox"] = "sandbox_validation"
      /\ JobOf["pr"] = "apply_patches" /\ s \in {"policy", "sandbox", "pr"}
  BY DEF JobOf, PendingStages
<1>2. \A ids : OrLatest(ids, c) # {} BY DEF OrLatest
<1>3. ASSUME NEW n, NEW ids, ids # {} PROVE \E j \in JobsFor(n, ids) : j.name = n
  <2>1. PICK i \in ids : TRUE BY <1>3
  <2>2. [name |-> n, patchSet |-> i] \in JobsFor(n, ids) BY <2>1 DEF JobsFor
  <2> QED BY <2>2
<1>4. \E j \in jobs : j.name = JobOf[s] BY <1>1, <1>2, <1>3
<1>5. ev.type # "E_WORKFLOW_CREATED" BY DEF LateEvents
<1>6. Transition("INTAKE", ev, c) = OnAnyState("INTAKE", ev, c) BY <1>5 DEF Transition, HaltingStates
<1>7. CASE ev.type = "E_STAGE_APPROVED" /\ NextStage[ev.stage] = s
  <2>1. OnStageApproved(s, c) = jobs BY <1>1 DEF OnStageApproved
  <2>2. OnAnyState("INTAKE", ev, c) = Result("INTAKE", OnStageApproved(s, c)) BY <1>7 DEF OnAnyState
  <2> HIDE DEF jobs
  <2> QED BY <1>4, <1>6, <2>1, <2>2 DEF Result
<1>8. CASE ev.type = "E_STAGE_RETRY" /\ ev.stage = s /\ s # "pr"
  <2>1. RerunJobs(s, c) = jobs BY <1>1, <1>8 DEF RerunJobs
  <2>2. OnAnyState("INTAKE", ev, c) = Result("INTAKE", RerunJobs(s, c)) BY <1>8 DEF OnAnyState
  <2> HIDE DEF jobs
  <2> QED BY <1>4, <1>6, <2>1, <2>2 DEF Result
<1> QED BY <1>7, <1>8 DEF StartsStage

(* Where no stage is written and nothing breaks, an event under way for a     *)
(* stage goes on to be a job under way for it.                                *)
LEMMA EventStaysUnderWay ==
  ASSUME TypeOK, TypeOK', AttemptsAssumption, PatchAssumption, LateInvariant, [Next]_vars, Calm',
         state \notin HaltingStates, NEW s \in PendingStages, EventUnderWay(s)
  PROVE  EventUnderWay(s)' \/ JobUnderWay(s)'
<1>q. orchQ \in Seq(QueuedEvent) /\ orchQ' \in Seq(QueuedEvent) BY DEF TypeOK
<1>s. /\ \A ev : StartsStage(ev, s)' <=> StartsStage(ev, s)
      /\ HaltingStates' = HaltingStates /\ JobOf' = JobOf
  BY DEF StartsStage, HaltingStates, JobOf
<1>f. LateFlow BY DEF LateInvariant, LateFlow
<1>c. /\ crashes' = crashes /\ crashes \in Nat
      /\ ~ (\E o \in Orchestrators : FailEvent(o) \/ CrashOrchestrator(o))
  BY CalmBefore DEF TypeOK
<1>r. ~ \E r \in Requests : AbandonRequest(r) BY <1>c DEF AbandonRequest
<1>t. ASSUME NEW o \in Orchestrators, TakeEvent(o)
      PROVE  \E i \in DOMAIN orchQ :
               /\ orchQ' = Without(orchQ, i)
               /\ orch'[o].pc = "decide" /\ orch'[o].ev = orchQ[i].ev /\ orch'[o].seen = state
  <2>1. PICK i \in Takeable(orchQ) :
          /\ orchQ' = Without(orchQ, i)
          /\ orch' = [orch EXCEPT ![o] =
               [IdleOrch EXCEPT !.pc = "decide", !.ev = orchQ[i].ev,
                                !.left = orchQ[i].left, !.stalls = orchQ[i].stalls, !.seen = state]]
    BY <1>t DEF TakeEvent
  <2> DEFINE m == [IdleOrch EXCEPT !.pc = "decide", !.ev = orchQ[i].ev,
                                   !.left = orchQ[i].left, !.stalls = orchQ[i].stalls, !.seen = state]
  <2>2. m.seen = state /\ m.pc = "decide" /\ m.ev = orchQ[i].ev BY DEF IdleOrch
  <2>3. orch' = [orch EXCEPT ![o] = m] BY <2>1
  <2> HIDE DEF m
  <2>4. orch'[o] = m BY <2>3 DEF TypeOK
  <2>5. i \in DOMAIN orchQ BY <2>1, TakeableInDomain
  <2> QED BY <2>1, <2>2, <2>4, <2>5
<1>1. CASE \E i \in DOMAIN orchQ : StartsStage(orchQ[i].ev, s)
  <2>1. PICK i \in DOMAIN orchQ : StartsStage(orchQ[i].ev, s) BY <1>1
  <2>2. CASE orchQ' = orchQ BY <1>s, <2>1, <2>2 DEF EventUnderWay
  <2>3. CASE \E entry \in QueuedEvent : orchQ' = Append(orchQ, entry)
    BY <1>q, <1>s, <2>1, <2>3, AppendHolds DEF EventUnderWay
  <2>4. CASE \E o \in Orchestrators : TakeEvent(o)
    <3>1. PICK o \in Orchestrators : TakeEvent(o) BY <2>4
    <3>2. PICK k \in DOMAIN orchQ :
            /\ orchQ' = Without(orchQ, k)
            /\ orch'[o].pc = "decide" /\ orch'[o].ev = orchQ[k].ev /\ orch'[o].seen = state
      BY <1>t, <3>1
    <3>3. CASE k = i BY <1>s, <2>1, <3>2, <3>3 DEF EventUnderWay
    <3>4. CASE k # i
      <4>1. \E m \in DOMAIN orchQ' : orchQ'[m] = orchQ[i] BY <1>q, <3>2, <3>4, WithoutHolds
      <4> QED BY <1>s, <2>1, <4>1 DEF EventUnderWay
    <3> QED BY <3>3, <3>4
  <2> QED BY <2>2, <2>3, <2>4, EventQueueSteps
<1>2. CASE \E o \in Orchestrators :
             orch[o].pc = "decide" /\ StartsStage(orch[o].ev, s) /\ orch[o].seen \notin HaltingStates
  <2>1. PICK o \in Orchestrators :
          orch[o].pc = "decide" /\ StartsStage(orch[o].ev, s) /\ orch[o].seen \notin HaltingStates
    BY <1>2
  <2>2. CASE orch'[o] = orch[o] BY <1>s, <2>1, <2>2 DEF EventUnderWay
  <2>3. CASE DecideTransition(o)
    <3> DEFINE result == Transition(orch[o].seen, orch[o].ev, TransitionContext)
               m == [orch[o] EXCEPT !.pc = "commit", !.next = result.next, !.jobs = result.jobs]
    <3>1. orch[o].seen = "INTAKE" /\ orch[o].ev \in LateEvents
      BY <1>f, <2>1 DEF LateFlow, Flow, OrchestratorIn, LateStates
    <3>2. TransitionContext.latest # NoPatchSet
      BY DEF TransitionContext, NoPatchSet, LateInvariant, PatchAssumption
    <3>3. \E j \in result.jobs : j.name = JobOf[s] BY <2>1, <3>1, <3>2, TransitionStarts
    <3> HIDE DEF result
    <3>4. orch' = [orch EXCEPT ![o] = m] BY <2>3 DEF DecideTransition, TypeOK, result
    <3>5. m.pc = "commit" /\ m.jobs = result.jobs BY DEF TypeOK, OrchRecord
    <3> HIDE DEF m
    <3>6. orch'[o] = m BY <3>4 DEF TypeOK
    <3> QED BY <1>s, <3>3, <3>5, <3>6 DEF JobUnderWay
  <2>4. ASSUME NEW p \in Orchestrators, HandleEvent(p) PROVE orch'[o] = orch[o] \/ DecideTransition(o)
    <3>1. p # o => orch'[o] = orch[o] BY <2>4, OrchestratorSteps
    <3>2. HandleEvent(o) => DecideTransition(o)
      BY <2>1 DEF HandleEvent, TakeEvent, WriteTransitionResult, EnqueueJob, FinishEvent
    <3> QED BY <2>4, <3>1, <3>2
  <2> QED
    BY <1>c, <2>2, <2>3, <2>4
    DEF Next, OrchestratorStep, RequestStep, ProcessorStep, ClientStep, FaultStep, CrashStep, vars
<1>3. CASE \E r \in Requests : req[r].todo = {"emit"} /\ StartsStage(req[r].ev, s)
  <2>1. PICK r \in Requests : req[r].todo = {"emit"} /\ StartsStage(req[r].ev, s) BY <1>3
  <2>2. CASE req'[r] = req[r] BY <1>s, <2>1, <2>2 DEF EventUnderWay
  <2>3. CASE HandleRequest(r)
    <3>1. EmitEvent(r)
      BY <2>1, <2>3 DEF HandleRequest, CheckViolations, CreateApproval, MarkPatchSets, CreateDecision,
                        UpdateWorkflow, NextStep
    <3> DEFINE entry == [ev |-> req[r].ev, left |-> 1, fresh |-> TRUE, stalls |-> 0]
    <3>2. orchQ' = Append(orchQ, entry) BY <3>1 DEF EmitEvent, EmitFromApi
    <3>3. entry \in QueuedEvent /\ entry.ev = req[r].ev BY DEF QueuedEvent, TypeOK, RequestRecord
    <3> HIDE DEF entry
    <3> QED BY <1>q, <1>s, <2>1, <3>2, <3>3, AppendHolds DEF EventUnderWay
  <2>4. ASSUME NEW p \in Requests, p # r, HandleRequest(p) \/ Client(p) PROVE req'[r] = req[r]
    BY <2>4, RequestSteps, ClientAsks
  <2>5. ~ Client(r)
    BY <2>1 DEF Client, ApproveStage, RejectStage, RequestStageChanges, RetryStage, RegeneratePatches,
                Approve, Reject, RequestChanges, Cancel, Begin, Idle
  <2> QED
    BY <1>r, <2>2, <2>3, <2>4, <2>5
    DEF Next, OrchestratorStep, RequestStep, ProcessorStep, ClientStep, FaultStep, CrashStep,
        GitHub, PullRequestEvent, CiEvent, vars
<1> QED BY <1>1, <1>2, <1>3 DEF EventUnderWay

(* A job under way for a pending stage stays so until its processor starts,   *)
(* and with that the stage is no longer pending.                              *)
LEMMA JobStaysUnderWay ==
  ASSUME TypeOK, TypeOK', AttemptsAssumption, PatchAssumption, [Next]_vars, Calm',
         NEW s \in PendingStages, stage = s, stageStatus = "pending", stageStatus' = "pending",
         JobUnderWay(s)
  PROVE  JobUnderWay(s)'
<1> DEFINE n == JobOf[s]
<1>n. n \in PatchJob /\ n \in JobName /\ JobOf' = JobOf
  BY DEF JobOf, PendingStages, PatchJob, JobName
<1>q. jobQ[n] \in Seq(QueuedJob) /\ jobQ'[n] \in Seq(QueuedJob) BY <1>n DEF TypeOK
<1>c. /\ ~ (\E m \in JobName : CrashWorker(m)) /\ ~ WorkerFault
      /\ ~ (\E o \in Orchestrators : FailEvent(o) \/ CrashOrchestrator(o))
  BY CalmBefore
<1>i. IdleWorker.pc = "idle" BY DEF IdleWorker
<1>a. \A entry \in QueuedJob : Append(jobQ[n], entry) # <<>>
  <2> DEFINE Q == jobQ[n]
  <2>1. Q \in Seq(QueuedJob) BY <1>q
  <2> HIDE DEF Q
  <2>2. \A entry \in QueuedJob : Append(Q, entry) # <<>> BY <2>1, AppendProperties
  <2> QED BY <2>2 DEF Q
<1>e. ASSUME NEW o \in Orchestrators, EnqueueJob(o)
      PROVE  \E k \in orch[o].jobs :
               /\ orch'[o].jobs = orch[o].jobs \ {k} /\ orch'[o].pc = "enqueue"
               /\ k.name = n => jobQ'[n] # <<>>
               /\ k.name # n => jobQ'[n] = jobQ[n]
  <2>1. PICK k \in orch[o].jobs :
          /\ jobQ' = [jobQ EXCEPT ![k.name] =
                        Append(@, [patchSet |-> k.patchSet, left |-> JobAttempts, fresh |-> TRUE, stalls |-> 0])]
          /\ orch' = [orch EXCEPT ![o].jobs = @ \ {k}]
    BY <1>e DEF EnqueueJob
  <2>2. orch'[o].jobs = orch[o].jobs \ {k} /\ orch'[o].pc = "enqueue"
    <3> DEFINE m == [orch[o] EXCEPT !.jobs = @ \ {k}]
    <3>1. orch' = [orch EXCEPT ![o] = m] BY <2>1
    <3>2. m.jobs = orch[o].jobs \ {k} /\ m.pc = "enqueue" BY <1>e DEF EnqueueJob, TypeOK, OrchRecord
    <3> HIDE DEF m
    <3> QED BY <3>1, <3>2 DEF TypeOK
  <2>3. [patchSet |-> k.patchSet, left |-> JobAttempts, fresh |-> TRUE, stalls |-> 0] \in QueuedJob
    <3>1. k.patchSet \in Nat BY DEF TypeOK, OrchRecord
    <3> QED BY <3>1, AttemptsAssumption DEF AttemptsAssumption, QueuedJob
  <2>4. k.name = n => jobQ'[n] # <<>> BY <1>n, <1>a, <2>1, <2>3 DEF TypeOK
  <2>5. k.name # n => jobQ'[n] = jobQ[n] BY <1>n, <2>1 DEF TypeOK
  <2> HIDE DEF n
  <2> QED BY <2>2, <2>4, <2>5
<1> HIDE DEF n
<1>1. CASE \E o \in Orchestrators :
             orch[o].pc \in {"commit", "enqueue"} /\ \E j \in orch[o].jobs : j.name = n
  <2>1. PICK o \in Orchestrators :
          orch[o].pc \in {"commit", "enqueue"} /\ \E j \in orch[o].jobs : j.name = n
    BY <1>1
  <2>2. ASSUME orch'[o].pc \in {"commit", "enqueue"}, \E j \in orch'[o].jobs : j.name = n
        PROVE  JobUnderWay(s)'
    BY <1>n, <2>2 DEF JobUnderWay, n
  <2>3. CASE orch'[o] = orch[o] BY <2>1, <2>2, <2>3
  <2>4. CASE HandleEvent(o)
    <3>1. CASE WriteTransitionResult(o)
      <4>1. orch'[o].pc = "enqueue" /\ orch'[o].jobs = orch[o].jobs
        BY <3>1 DEF WriteTransitionResult, TypeOK, OrchRecord
      <4> QED BY <2>1, <2>2, <4>1
    <3>2. CASE EnqueueJob(o)
      <4>1. PICK j \in orch[o].jobs : j.name = n BY <2>1
      <4>2. PICK k \in orch[o].jobs :
               /\ orch'[o].jobs = orch[o].jobs \ {k} /\ orch'[o].pc = "enqueue"
               /\ k.name = n => jobQ'[n] # <<>>
        BY <1>e, <3>2
      <4>3. CASE k.name = n BY <1>n, <4>2, <4>3 DEF JobUnderWay, n
      <4>4. CASE k.name # n
        <5>1. j \in orch'[o].jobs BY <4>1, <4>2, <4>4
        <5> QED BY <2>2, <4>1, <4>2, <5>1
      <4> QED BY <4>3, <4>4
    <3> QED BY <2>1, <2>4, <3>1, <3>2 DEF HandleEvent, TakeEvent, DecideTransition, FinishEvent
  <2>5. \A p \in Orchestrators : p # o /\ HandleEvent(p) => orch'[o] = orch[o] BY OrchestratorSteps
  <2> QED
    BY <1>c, <2>3, <2>4, <2>5
    DEF Next, OrchestratorStep, RequestStep, ProcessorStep, ClientStep, FaultStep, CrashStep, vars
<1>2. CASE jobQ[n] # <<>>
  <2>1. CASE jobQ'[n] = jobQ[n] BY <1>n, <1>2, <2>1 DEF JobUnderWay, n
  <2>2. CASE \E o \in Orchestrators : EnqueueJob(o)
    <3>1. jobQ'[n] # <<>> BY <1>2, <1>e, <2>2
    <3> QED BY <1>n, <3>1 DEF JobUnderWay, n
  <2>3. CASE IsOfferedAgain(n)
    <3>1. PICK left \in Nat, stalls \in Nat :
            jobQ'[n] = Append(jobQ[n], [patchSet |-> Current(n), left |-> left, fresh |-> FALSE, stalls |-> stalls])
      BY <2>3 DEF IsOfferedAgain
    <3>2. [patchSet |-> Current(n), left |-> left, fresh |-> FALSE, stalls |-> stalls] \in QueuedJob
      BY <1>n DEF TypeOK, WorkerRecord, Current, QueuedJob
    <3>3. jobQ'[n] # <<>> BY <1>a, <3>1, <3>2
    <3> QED BY <1>n, <3>3 DEF JobUnderWay, n
  <2>4. CASE TakeJob(n)
    <3>1. worker'[n].pc = "start" /\ worker'[n].sawStage = s /\ worker'[n].sawStatus = "pending"
      BY <1>n, <2>4 DEF TakeJob, TypeOK, IdleWorker
    <3> QED BY <1>n, <3>1 DEF JobUnderWay, At, Saw, n
  <2> QED BY <1>n, <2>1, <2>2, <2>3, <2>4, JobInHand DEF GoesOn, IsOver
<1>3. CASE At(n, "start") /\ Saw(n, s) /\ worker[n].sawStatus = "pending"
  <2>1. CASE worker'[n] = worker[n] BY <1>n, <1>3, <2>1 DEF JobUnderWay, At, Saw, n
  <2>2. ~ CallBreaks(n) /\ ~ FailBeforeTry(n) /\ ~ CrashWorker(n) /\ ~ TakeJob(n)
    BY <1>n, <1>c, <1>3 DEF CallBreaks, WorkerFault, TakeJob, At
  <2>3. ~ Runs(n)
    <3>1. \A pc : ~ BeginStage(n, s, pc) BY <1>3 DEF BeginStage
    <3>2. CASE s = "policy"
      <4>1. n = "evaluate_policy" BY <3>2 DEF JobOf, n
      <4>2. Runs(n) => EvaluatePolicy BY <4>1 DEF Runs
      <4> QED
        BY <1>3, <3>1, <3>2, <4>1, <4>2
        DEF EvaluatePolicy, StartEvaluation, ClearViolations, RecordViolations, RecordEvaluation,
            ConcludePolicyStage, EvaluationCompleted, EvaluationFailed, At
    <3>3. CASE s = "sandbox"
      <4>1. n = "sandbox_validation" BY <3>3 DEF JobOf, n
      <4>2. Runs(n) => SandboxValidation BY <4>1 DEF Runs
      <4> QED
        BY <1>3, <3>1, <3>3, <4>1, <4>2
        DEF SandboxValidation, StartSandbox, SkipSandbox, SandboxUnset, ValidatePatches,
            PushSandboxBranch, RecordSandboxRun, ConcludeSandboxStage, SandboxCompleted, SandboxCaught,
            EmitFailureAndThrow, At
    <3>4. CASE s = "pr"
      <4>1. n = "apply_patches" BY <3>4 DEF JobOf, n
      <4>2. Runs(n) => ApplyPatches BY <4>1 DEF Runs
      <4> QED
        BY <1>3, <3>1, <3>4, <4>1, <4>2
        DEF ApplyPatches, StartApply, SkipApply, SkipApplyReady, PushPrBranch, OpenPullRequest,
            RecordPullRequest, MarkApplied, ConcludePrStage, ApplyCompleted, ApplyFailed, At
    <3> QED BY <3>2, <3>3, <3>4 DEF PendingStages
  <2> QED BY <1>n, <2>1, <2>2, <2>3, PatchJobSteps
<1> QED BY <1>1, <1>2, <1>3 DEF JobUnderWay, n

LEMMA HaltedStaysHalted ==
  ASSUME TypeOK, [Next]_vars, NEW o \in Orchestrators, HaltedStays(orch[o])
  PROVE  HaltedStays(orch'[o])
<1>1. CASE DecideTransition(o)
  <2> DEFINE result == Transition(orch[o].seen, orch[o].ev, TransitionContext)
             m == [orch[o] EXCEPT !.pc = "commit", !.next = result.next, !.jobs = result.jobs]
  <2>1. orch[o].seen \in HaltingStates => result.next = orch[o].seen BY DEF Transition, Stay, Result
  <2> HIDE DEF result
  <2>2. orch' = [orch EXCEPT ![o] = m] BY <1>1 DEF DecideTransition, TypeOK, result
  <2>3. m.seen = orch[o].seen /\ m.next = result.next BY DEF TypeOK, OrchRecord
  <2> HIDE DEF m
  <2>4. orch'[o] = m BY <2>2 DEF TypeOK
  <2> QED BY <2>1, <2>3, <2>4 DEF HaltedStays
<1>2. CASE orch'[o] = orch[o] BY <1>2 DEF HaltedStays
<1>3. ASSUME NEW p \in Orchestrators, HandleEvent(p) \/ FailEvent(p) \/ CrashOrchestrator(p)
      PROVE  orch'[o] = orch[o] \/ DecideTransition(o) \/ orch'[o].pc # "commit"
  <2>1. CASE p # o BY <1>3, <2>1, OrchestratorSteps
  <2>2. CASE p = o
    <3>1. IdleOrch.pc = "idle" BY DEF IdleOrch
    <3> QED BY <1>3, <2>2, <3>1, OrchestratorSteps
  <2> QED BY <2>1, <2>2
<1> QED
  BY <1>1, <1>2, <1>3
  DEF Next, OrchestratorStep, RequestStep, ProcessorStep, ClientStep, FaultStep, CrashStep, vars,
      HaltedStays

(* Outside of the requests the engine does not take a halted workflow on.     *)
LEMMA HaltedStateStays ==
  ASSUME TypeOK, PatchAssumption, LateFlow, [Next]_vars, state \in HaltingStates,
         \A o \in Orchestrators : HaltedStays(orch[o]),
         ~ \E r \in Requests : UpdateWorkflow(r)
  PROVE  state' \in HaltingStates
<1>1. CASE \E o \in Orchestrators : WriteTransitionResult(o)
  <2>1. PICK o \in Orchestrators : WriteTransitionResult(o) BY <1>1
  <2>2. state' = state \/ (orch[o].next # orch[o].seen /\ state' = orch[o].next)
    BY <2>1 DEF WriteTransitionResult
  <2>3. orch[o].pc = "commit" BY <2>1 DEF WriteTransitionResult
  <2>4. orch[o].seen \in LateStates /\ orch[o].next \in LateStates
    BY <2>3 DEF LateFlow, Flow, OrchestratorIn
  <2> QED BY <2>2, <2>3, <2>4 DEF HaltedStays, LateStates
<1>2. CASE ~ \E o \in Orchestrators : WriteTransitionResult(o)
  <2>1. state' = state
    <3>1. CASE \E o \in Orchestrators : HandleEvent(o) \/ FailEvent(o) \/ CrashOrchestrator(o)
      BY <1>2, <3>1
      DEF HandleEvent, TakeEvent, DecideTransition, EnqueueJob, FinishEvent, FailEvent,
          CrashOrchestrator, rowVars
    <3>2. CASE \E r \in Requests : HandleRequest(r) \/ AbandonRequest(r)
      <4>1. PICK r \in Requests : HandleRequest(r) \/ AbandonRequest(r) BY <3>2
      <4> QED BY <4>1, RequestSteps
    <3>3. CASE ProcessorStep \/ WorkerFault \/ (\E n \in JobName : CrashWorker(n))
      BY <3>3, ProcessorSteps DEF ProcessorEffect, ProcessorStep
    <3>4. CASE (\E r \in Requests : Client(r)) \/ GitHub \/ UNCHANGED vars
      BY <3>4, ClientAsks DEF rowVars, GitHub, PullRequestEvent, CiEvent, vars
    <3> QED
      BY <3>1, <3>2, <3>3, <3>4
      DEF Next, OrchestratorStep, RequestStep, ProcessorStep, ClientStep, FaultStep, CrashStep
  <2> QED BY <2>1 DEF HaltingStates
<1> QED BY <1>1, <1>2

(* The request that makes a stage pending has its event still to emit.        *)
LEMMA UpdateStarts ==
  ASSUME TypeOK, NEW r \in Requests, UpdateWorkflow(r), PendingRequest(req[r]),
         req[r].row.stageStatus = "pending"
  PROVE  /\ stage' # "done"
         /\ stage' \in PendingStages => EventUnderWay(stage)'
<1> DEFINE s == IF req[r].row.stage = Keep THEN stage ELSE req[r].row.stage
<1>1. stage' = s /\ NextStep(r, "update") /\ Done(r, "update") BY DEF UpdateWorkflow, Written
<1>2. "update" \in req[r].todo BY <1>1 DEF NextStep
<1>3. s # "done" /\ (s \in PendingStages => "emit" \in req[r].todo /\ StartsStage(req[r].ev, s))
  BY <1>2 DEF PendingRequest
<1> HIDE DEF s
<1>4. ASSUME s \in PendingStages PROVE EventUnderWay(stage)'
  <2>1. "emit" \in req[r].todo /\ StartsStage(req[r].ev, s) BY <1>3, <1>4
  <2>2. req[r].todo \subseteq {"update", "emit"}
    <3>1. req[r].todo \subseteq {"check", "approval", "mark", "decide", "update", "emit"}
      BY DEF TypeOK, RequestRecord, Steps
    <3> QED BY <1>1, <3>1 DEF NextStep, Order
  <2>3. req'[r] # IdleRequest
    <3>1. req[r].todo # {"update"} BY <2>1
    <3> DEFINE left == [req[r] EXCEPT !.todo = @ \ {"update"}]
    <3>2. req'[r] = left BY <1>1, <3>1 DEF Done, TypeOK
    <3>3. "emit" \in left.todo BY <2>1 DEF TypeOK, RequestRecord
    <3>4. IdleRequest.todo = {} BY DEF IdleRequest
    <3> QED BY <3>2, <3>3, <3>4
  <2>4. StepMade(r, "update") BY <1>1, <2>3, DoneStep
  <2>5. req'[r].todo = {"emit"} /\ req'[r].ev = req[r].ev BY <2>1, <2>2, <2>4 DEF StepMade
  <2>6. StartsStage(req'[r].ev, stage') BY <1>1, <2>1, <2>5
  <2>7. StartsStage(req[r].ev, stage)' BY <2>6 DEF StartsStage
  <2> QED BY <2>5, <2>7 DEF EventUnderWay
<1> QED BY <1>1, <1>3, <1>4

LEMMA NextPending ==
  ASSUME TypeOK, TypeOK', AttemptsAssumption, PatchAssumption, LateGated, RetryAlone,
         LateInvariant, PendingInvariant, [Next]_vars, Calm'
  PROVE  PendingInvariant'
<1>1. LateFrame /\ LateFlow BY DEF LateInvariant, LateFrame, LateFlow, Flow
<1>2. \A o \in Orchestrators : HaltedStays(orch[o]) BY DEF PendingInvariant
<1>3. \A r \in Requests : PendingRequest(req[r]) BY DEF PendingInvariant
<1>4. \A o \in Orchestrators : HaltedStays(orch'[o]) BY <1>2, HaltedStaysHalted
<1>5. \A r \in Requests : PendingRequest(req[r])' BY <1>1, <1>3, PendingRequestsKept
<1>6. ASSUME stageStatus' = "pending"
      PROVE  /\ stage' # "done"
             /\ state' \notin HaltingStates /\ stage' \in PendingStages =>
                  EventUnderWay(stage)' \/ JobUnderWay(stage)'
  <2>1. CASE \E r \in Requests : UpdateWorkflow(r) /\ req[r].row.stageStatus # Keep
    <3>1. PICK r \in Requests : UpdateWorkflow(r) /\ req[r].row.stageStatus # Keep BY <2>1
    <3>2. req[r].row.stageStatus = "pending" BY <1>6, <3>1 DEF UpdateWorkflow, Written
    <3> QED BY <1>3, <3>1, <3>2, UpdateStarts
  <2>2. CASE ~ \E r \in Requests : UpdateWorkflow(r) /\ req[r].row.stageStatus # Keep
    <3>1. /\ stageStatus = "pending" /\ stage' = stage
          /\ state' \notin HaltingStates => state \notin HaltingStates
      <4>1. CASE \E r \in Requests : UpdateWorkflow(r)
        <5>1. PICK r \in Requests : UpdateWorkflow(r) BY <4>1
        <5>2. req[r].row.stageStatus = Keep BY <2>2, <5>1
        <5>3. "update" \in req[r].todo BY <5>1 DEF UpdateWorkflow, NextStep
        <5>4. req[r].row.stage = Keep /\ (req[r].row.state = Keep \/ req[r].row.state \in HaltingStates)
          BY <1>3, <5>2, <5>3 DEF PendingRequest
        <5> QED BY <1>6, <5>1, <5>2, <5>4 DEF UpdateWorkflow, Written
      <4>2. CASE ~ \E r \in Requests : UpdateWorkflow(r)
        BY <1>1, <1>2, <1>6, <4>2, PendingWrites, StageWrites, HaltedStateStays
      <4> QED BY <4>1, <4>2
    <3>2. stage # "done" BY <3>1 DEF PendingInvariant
    <3>3. ASSUME state' \notin HaltingStates, NEW s \in PendingStages, s = stage
          PROVE  EventUnderWay(s)' \/ JobUnderWay(s)'
      <4>1. CASE EventUnderWay(s) BY <3>1, <3>3, <4>1, EventStaysUnderWay
      <4>2. CASE JobUnderWay(s) BY <1>6, <3>1, <3>3, <4>2, JobStaysUnderWay
      <4> QED BY <3>1, <3>3, <4>1, <4>2 DEF PendingInvariant
    <3>4. ASSUME NEW s, s = stage', EventUnderWay(s)' \/ JobUnderWay(s)'
          PROVE  EventUnderWay(stage)' \/ JobUnderWay(stage)'
      BY <3>4 DEF EventUnderWay, JobUnderWay, StartsStage, At, Saw
    <3> QED BY <3>1, <3>2, <3>3, <3>4
  <2> QED BY <2>1, <2>2
<1> QED BY <1>4, <1>5, <1>6 DEF PendingInvariant, HaltedStays, HaltingStates

LEMMA InitPending ==
  ASSUME Init, LateGated
  PROVE  PendingInvariant
<1>1. GatedInit BY DEF Init, LateGated
<1>2. /\ stage = StartStage /\ StartStage \in {"policy", "sandbox", "pr"}
      /\ \A o \in Orchestrators : orch[o] = IdleOrch
      /\ \A r \in Requests : req[r] = IdleRequest
  BY <1>1 DEF Init, GatedInit, LateGated
<1>3. \A o \in Orchestrators : HaltedStays(orch[o]) BY <1>2 DEF HaltedStays, IdleOrch
<1>4. \A r \in Requests : PendingRequest(req[r]) BY <1>2 DEF PendingRequest, IdleRequest
<1>5. StartsStage(StartEvent, stage)
  <2> DEFINE s == CHOOSE p \in ValidStages : NextStage[p] = StartStage
  <2>1. {"patches", "policy", "sandbox"} \subseteq ValidStages /\ \E p \in ValidStages : NextStage[p] = StartStage
    BY <1>2 DEF ValidStages, NextStage
  <2>2. s \in ValidStages /\ NextStage[s] = StartStage BY <2>1
  <2>3. StartEvent = OfStage("E_STAGE_APPROVED", s) BY <1>2 DEF StartEvent
  <2> HIDE DEF s
  <2>4. StartEvent.type = "E_STAGE_APPROVED" /\ StartEvent.stage = s BY <2>3 DEF OfStage
  <2> QED BY <1>2, <2>2, <2>4 DEF StartsStage
<1>6. EventUnderWay(stage)
  <2> DEFINE entry == [ev |-> StartEvent, left |-> 1, fresh |-> TRUE, stalls |-> 0]
  <2>1. orchQ = <<entry>> BY <1>1 DEF GatedInit
  <2>2. entry.ev = StartEvent OBVIOUS
  <2> HIDE DEF entry
  <2>3. 1 \in DOMAIN orchQ /\ orchQ[1].ev = StartEvent BY <2>1, <2>2
  <2> QED BY <1>5, <2>3 DEF EventUnderWay
<1> QED BY <1>2, <1>3, <1>4, <1>6 DEF PendingInvariant

(* Work under way shows in a queue, an orchestrator, a request or a worker.   *)
LEMMA UnderWayIsWork ==
  ASSUME PendingInvariant, LateInvariant, state \notin HaltingStates,
         stage = "pr" => "retryStage" \notin Actions
  PROVE  PendingHasWork
<1> SUFFICES ASSUME stageStatus = "pending", Quiescent PROVE FALSE BY DEF PendingHasWork
<1>1. stage \in PendingStages
  BY DEF PendingInvariant, LateInvariant, PendingStages
<1>2. /\ orchQ = <<>>
      /\ \A o \in Orchestrators : orch[o].pc = "idle"
      /\ \A r \in Requests : req[r].todo = {}
      /\ \A n \in JobName : jobQ[n] = <<>> /\ worker[n].pc = "idle"
  BY DEF Quiescent, Idle, At
<1>3. JobOf[stage] \in JobName BY <1>1 DEF PendingStages, JobOf, JobName, PatchJob
<1>4. ~ EventUnderWay(stage) BY <1>2 DEF EventUnderWay
<1>5. ~ JobUnderWay(stage) BY <1>2, <1>3 DEF JobUnderWay, At
<1> QED BY <1>1, <1>4, <1>5 DEF PendingInvariant

(* While nothing fails or crashes, a stage from policy on that is pending in  *)
(* a workflow that goes on has its work under way: an event that starts it,   *)
(* an orchestrator at it, a job for it, or the request that made it pending.  *)
(* The pull request stage is included where no client retries it, since       *)
(* retrying it enqueues nothing; and where clients retry, one request is made *)
(* at a time, since a retry names the stage it read and not the one it makes  *)
(* pending.                                                                   *)
THEOREM PendingHasWorkHolds ==
  ASSUME LateGated, RetryAlone, MaxFaults = 0, MaxCrashes = 0
  PROVE  Spec => [](state \notin HaltingStates /\ (stage = "pr" => "retryStage" \notin Actions)
                      => PendingHasWork)
<1>1. Init => PendingInvariant BY InitPending
<1>2. TypeOK /\ TypeOK' /\ LateInvariant /\ PendingInvariant /\ [Next]_vars /\ Calm' => PendingInvariant'
  BY AttemptsAssumption, PatchAssumption, NextPending
<1>3. Spec => [](LateInvariant /\ PendingInvariant)
  BY <1>1, <1>2, NothingBreaks, LateInvariance, TypeCorrect, PTL DEF Spec
<1>4. LateInvariant /\ PendingInvariant =>
        (state \notin HaltingStates /\ (stage = "pr" => "retryStage" \notin Actions) => PendingHasWork)
  BY UnderWayIsWork
<1> QED BY <1>3, <1>4, PTL
================================================================================
