-------------------------- MODULE AnalysisProcessors --------------------------
(***************************************************************************)
(* The four LLM analysis processors (feasibility-, architecture-,          *)
(* timeline- and summary-analysis.processor.ts).  They differ in prompt    *)
(* and schema only: each sets the stage status to processing, runs the     *)
(* LLM, saves a new version of its artifact, sets the status to ready and  *)
(* emits E_JOB_COMPLETED.  None of them asks which stage the workflow is   *)
(* at: the status they write is that of whatever stage it is.              *)
(***************************************************************************)
EXTENDS Processors

StartAnalysis(n) ==
  /\ At(n, "start")
  /\ stageStatus' = "processing"
  /\ Goto(n, "run")
  /\ UNCHANGED <<state, stage, decisions, artifacts, patchSets, approved, queueVars, boundVars>>

(* The LLM answers with a document that parses; artifact.create *)
SaveArtifact(n) ==
  /\ At(n, "run")
  /\ artifacts' = artifacts \cup {StageName[n]}
  /\ Goto(n, "ready")
  /\ UNCHANGED <<rowVars, decisions, patchSets, approved, queueVars, boundVars>>

AnalysisReady(n) ==
  /\ At(n, "ready")
  /\ stageStatus' = "ready"
  /\ Goto(n, "emit")
  /\ UNCHANGED <<state, stage, decisions, artifacts, patchSets, approved, queueVars, boundVars>>

AnalysisCompleted(n) ==
  /\ At(n, "emit")
  /\ EmitAndReturn(n, OfStage("E_JOB_COMPLETED", StageName[n]))

AnalysisFault(n) == CallFails(n, {"start", "run", "ready", "emit"}, "caught")

(* catch: blocked, then failRun, the event, and the rethrow *)
AnalysisCaught(n) ==
  /\ At(n, "caught")
  /\ stageStatus' = "blocked"
  /\ Goto(n, "throw")
  /\ UNCHANGED <<state, stage, decisions, artifacts, patchSets, approved, queueVars, boundVars>>

ProcessAnalysis(n) ==
  \/ StartAnalysis(n) \/ SaveArtifact(n) \/ AnalysisReady(n) \/ AnalysisCompleted(n)
  \/ AnalysisCaught(n) \/ EmitFailureAndThrow(n)

FeasibilityAnalysis  == ProcessAnalysis("feasibility_analysis")
ArchitectureAnalysis == ProcessAnalysis("architecture_analysis")
TimelineAnalysis     == ProcessAnalysis("timeline_analysis")
SummaryAnalysis      == ProcessAnalysis("summary_analysis")
=============================================================================
