---------------------------- MODULE WorkflowStore ----------------------------
(***************************************************************************)
(* What the API and the worker share: the Postgres rows of one workflow,   *)
(* the BullMQ queues in Redis, and the pull requests on GitHub.  The       *)
(* handlers that read and write them are in the modules that extend this   *)
(* one; the queries they have in common are here, the context loader       *)
(* (apps/worker/src/orchestrator/context-loader.ts) among them.            *)
(***************************************************************************)
EXTENDS Transition, Sequences, FiniteSets

CONSTANTS
  JobAttempts,   \* attempts of a processor job (DEFAULT_/LLM_JOB_OPTIONS: 3)
  OrchAttempts,  \* attempts of an event the worker emits (ORCHESTRATE_JOB_OPTIONS: 5)
  MaxStalledCount  \* how often BullMQ offers a stalled job again (its default, 1)

ASSUME AttemptsAssumption ==
  JobAttempts \in Nat \ {0} /\ OrchAttempts \in Nat \ {0} /\ MaxStalledCount \in Nat

VARIABLES
  state, stage, stageStatus,  \* columns of the Workflow row
  decisions,   \* StageDecision rows, as a set of [stage, decision]
  artifacts,   \* stages whose analysis artifact has been saved
  patchSets,   \* PatchSet rows by creation order, with what hangs on them
  approved,    \* an Approval row of kind apply_patches exists
  orchQ,       \* the orchestrate queue: events waiting
  jobQ,        \* for each job name, the jobs waiting in its queue
  faults,      \* failures of external calls so far (bound of the checked instances)
  crashes      \* process crashes so far (bound of the checked instances)

rowVars    == <<state, stage, stageStatus>>
boundVars  == <<faults, crashes>>
queueVars  == <<orchQ, jobQ>>

Decision == [stage : ValidStages, decision : {"approve", "reject", "request_changes"}]
Approvals == {s \in ValidStages : [stage |-> s, decision |-> "approve"] \in decisions}

(* A patch set, its patch's policy verdict (a function of the diff, which    *)
(* nobody edits), the PolicyViolation rows stored for it, whether an         *)
(* evaluate_policy.completed event names it, the statuses of the             *)
(* sandbox.completed events that name it, and its branches and pull requests.*)
Verdict == {"none", "warn", "block"}
PatchSet ==
  [status : {"proposed", "approved", "rejected", "applied"},
   verdict : Verdict, rows : Verdict, evaluated : BOOLEAN,
   sandbox : SUBSET {"pass", "fail"},
   branch : BOOLEAN,                 \* some branch of it was pushed to GitHub
   prs : Nat, prRows : Nat,          \* PRs opened, and PullRequest rows recorded
   pr : {"none", "open", "closed"},  \* its newest PR on GitHub
   merged : BOOLEAN]                 \* some PR of it was merged

NewPatchSet(v) ==
  [status |-> "proposed", verdict |-> v, rows |-> "none", evaluated |-> FALSE,
   sandbox |-> {}, branch |-> FALSE, prs |-> 0, prRows |-> 0, pr |-> "none",
   merged |-> FALSE]

PatchSetIds == DOMAIN patchSets
WithStatus(st) == {i \in PatchSetIds : patchSets[i].status = st}
HasBlockRow(i) == patchSets[i].rows = "block"
\* Mutant: only the newest patch set is asked, as context-loader.ts does.
SomeBlockRowNewest == Len(patchSets) > 0 /\ HasBlockRow(Len(patchSets))
SomeBlockRow == \E i \in PatchSetIds : HasBlockRow(i)

-----------------------------------------------------------------------------
(* Queues.  A queue hands out fresh jobs first in, first out.  A job that    *)
(* failed waits for its backoff, and one whose worker died for the stalled   *)
(* check, before the queue offers it again: such a job may be taken at any   *)
(* time, ahead of or behind the fresh ones.  A job whose worker died more    *)
(* than MaxStalledCount times is not run again, and nothing is emitted.      *)

QueuedEvent == [ev : Event, left : Nat, fresh : BOOLEAN, stalls : Nat]
QueuedJob   == [patchSet : Nat, left : Nat, fresh : BOOLEAN, stalls : Nat]

Takeable(q) ==
  {i \in DOMAIN q : ~ q[i].fresh \/ \A k \in 1..(i - 1) : ~ q[k].fresh}
Without(q, i) == SubSeq(q, 1, i - 1) \o SubSeq(q, i + 1, Len(q))

(* queue.add on the orchestrate queue.  The worker registers the queue with  *)
(* ORCHESTRATE_JOB_OPTIONS; the API registers it with no options, so that    *)
(* BullMQ's default of one attempt holds for the events the API emits.       *)
EmitFromWorker(ev) ==
  orchQ' = Append(orchQ, [ev |-> ev, left |-> OrchAttempts, fresh |-> TRUE, stalls |-> 0])
EmitFromApi(ev) ==
  orchQ' = Append(orchQ, [ev |-> ev, left |-> 1, fresh |-> TRUE, stalls |-> 0])

-----------------------------------------------------------------------------
(* loadTransitionContext.  A proposed patch set needs policy until it has a  *)
(* violation row or a completed evaluation, and then approval unless a row   *)
(* blocks.  Only the newest set is asked for blocking rows.                  *)

WasEvaluated(i) == patchSets[i].evaluated \/ patchSets[i].rows # "none"
Unevaluated == {i \in WithStatus("proposed") : ~ WasEvaluated(i)}

\* Mutant: no fallback.
PatchSetsNeedingPolicyStrict == Unevaluated

(* "Fall back to all proposed for re-runs" *)
PatchSetsNeedingPolicy ==
  IF Unevaluated # {} THEN Unevaluated ELSE WithStatus("proposed")

PatchSetsNeedingApproval ==
  {i \in WithStatus("proposed") : WasEvaluated(i) /\ ~ HasBlockRow(i)}

TransitionContext ==
  [stage        |-> stage,
   total        |-> Len(patchSets),
   applied      |-> Cardinality(WithStatus("applied")),
   latest       |-> Len(patchSets),
   needPolicy   |-> PatchSetsNeedingPolicy,
   needApproval |-> PatchSetsNeedingApproval,
   approved     |-> WithStatus("approved"),
   blocking     |-> Len(patchSets) > 0 /\ HasBlockRow(Len(patchSets)),
   hasApproval  |-> approved]
=============================================================================
