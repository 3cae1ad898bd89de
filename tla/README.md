# TLA+ models of arch-orchestrator

arch-orchestrator takes a request for a code change through a fixed series of stages (LLM analyses,
patch generation, policy evaluation, a sandbox CI run, a pull request), each closed by a human
approval. Its state is spread over one Postgres row, the tables that hang on it, two kinds of Redis
queue and GitHub, and four kinds of process write to them without transactions or row versions: the
API, the orchestrator, the processors and, through the API, the pages of a web console that polls.
These modules model that engine, what its jobs produce, the services beside it and the page in front
of it; TLC checks them on small instances and TLAPS proves the main safety properties for every value
of the constants.

Contents: 1 the system, 2 the modules, 3 the modelling decisions, 4 properties and runs, 5 proofs,
6 known disagreements, 7 what is not modelled, 8 plan.

## 1. The system

### Parts

| part | code | state it keeps | operations |
|---|---|---|---|
| Transition function | `packages/core/src/workflow/{states,transition}.ts` | none | `transition(state, event, ctx)`: next state and jobs to enqueue |
| Orchestrator | `apps/worker/src/orchestrator/*`, `processors/orchestrate.processor.ts` | handler locals | read state, load context, decide, write the state, enqueue jobs one by one |
| Client actions | `apps/api/src/workflows.service.ts` | handler locals | create, approve, reject, requestChanges, cancel, approveStage, rejectStage, requestStageChanges, retryStage, regeneratePatchesFromSandbox, delete, queries |
| Webhook intake | `apps/api/src/webhooks.controller.ts` | none | pull request and check events become orchestrator events |
| Analysis processors | `processors/{feasibility,architecture,timeline,summary}-analysis.processor.ts`, `packages/core/src/llm/zod-schemas.ts` | job locals | status, inputs and feedback, LLM call, retry, document, task rows, status, event |
| Context | `apps/api/src/repos.service.ts`, `processors/refresh-context.processor.ts` | RepoContext | store the description of a repository at a commit, mark it stale, refresh it |
| Ingest processor | `processors/ingest-context.processor.ts` | job locals | base commits, plan, patches, one patch set per repository |
| LLM runner | `packages/core/src/llm/runner.ts` | the call's attempts, a budget | `run` |
| Policy evaluation | `processors/evaluate-policy.processor.ts` | job locals | judge the files and the diff by rules of its own, replace the violation rows, conclude the stage |
| Sandbox validation | `processors/sandbox-validation.processor.ts` | job locals | check the patches, push a branch, wait for CI, conclude the stage |
| Apply processor | `processors/apply-patches.processor.ts`, `packages/core/src/github/patch-applicator.ts` | job locals | branch, one GitHub call per file, PR, PullRequest row, `applied` |
| Diffs | `packages/core/src/github/diff-generator.ts`, `packages/core/src/policy/diff-parser.ts` | none | generate, parse, count |
| Write gate | `packages/core/src/policy/write-gate.ts` | none | counts Approval rows before each write to GitHub |
| Checkpoints | `packages/core/src/diagnosis/checkpoint-service.ts` | Checkpoint | create, restore with cleanup, prune, delete |
| Diagnosis | `packages/core/src/diagnosis/{diagnosis-service,diagnoser}.ts` | fix proposals, Approval | diagnose, propose, approve, reject |
| Webhook service | `packages/core/src/github/webhook-service.ts`, `packages/core/src/policy/gate3.ts` | GitHubWebhook | ingest a delivery once, process it, record its result |
| Agents and proposals | `packages/core/src/agents/{registry,proposal-service}.ts`, `packages/core/src/policy/{gate2,policy-engine}.ts` | registry | select agents, collect and merge their patches, judge them by Gate 2, store |
| Queues | BullMQ in Redis, configured in `worker.module.ts`, `app.module.ts` | waiting jobs, attempts left, stalls so far | add, take, retry, redeliver, give up |
| Store | `prisma/schema.prisma` | the tables | single-row reads and writes |
| Console | `apps/web/src/{hooks/use-workflow.ts,pages/WorkflowDetailPage.tsx,api/client.ts}` | component state, timers | load, poll, act, refetch |
| Cost tracker, memory tiers, run recorder, PRD pipeline, auth, other pages, adapters | | | section 7 |

### How they interact

A client action is an HTTP handler: it reads the Workflow row, checks that the action is allowed, and
then makes a series of awaited single-row writes whose values it computed from that first read; the
last one puts an event on the *orchestrate* queue. The orchestrator takes the event, reads
`Workflow.state`, loads a context from other rows, calls `transition`, writes the new state if it
differs from the one it read, and puts jobs on the processor queues. A processor reads the row once,
writes `stageStatus` (and the rows that are its product) and puts an event back on the orchestrate
queue. GitHub's webhooks also become events. So:

* `Workflow.state` is written by the orchestrator **and** by the API;
* `Workflow.stage` is written by the API only, from a row read earlier;
* `Workflow.stageStatus` is written by the API and by every processor, whichever stage the workflow is
  at by then;
* the gated flow (stages) and the older flow (patch set approvals: INGESTED, PATCHES_PROPOSED,
  WAITING_USER_APPROVAL, APPLYING_PATCHES, PR_OPEN, VERIFYING_CI, DONE) share all of this;
* an analysis reads the newest documents of the stages before it and `Workflow.feedback`, which the API
  writes while analyses may run; ingest reads the stored context of a repository and its head by
  separate calls, while the branch moves and the context is refreshed by another job;
* checkpoints, diagnosis and the webhook service read and write the same rows and are called by nobody
  in a fixed order;
* the page polls the row while the workflow is in a state it takes to be moving, and refetches after
  each of its own actions; several such requests are in flight at once.

### What is hard

Stale reads between overlapping requests, orchestrator and processors; handlers that die between two
writes; events and jobs delivered again after a throw or a crash; failure events emitted for attempts
that will be retried; `deleteMany` and `createMany` as two statements; several patch sets (one per
repository) concluded one at a time; the policy, sandbox and apply stages that depend on which sets are
still `proposed`; commits that pass between reading a head and reading its files; documents of the
model that parse in part; a diff that is written, read, validated and applied by four pieces of code;
rows told apart by their time stamp alone in a restore; answers that arrive after the effect that asked
for them is gone. `PROJECT.json` lists each hazard at its line.

### What makes each part correct

* Gates: the workflow is never at a stage, and no gated job is queued or running, ahead of the
  approvals before it (`StageBehindGates`, `WorkBehindGates`, `LedgerSpec`).
* Write gate: nothing is written to GitHub without an Approval row (`WritesAreApproved`).
* Policy: verdicts are not lost and not overruled (`ViolationsKept`, `PolicyApprovalIsClean`,
  `NoPrForBlockedPatch`).
* Apply: GitHub and the PullRequest rows agree as far as the order of calls allows
  (`AppliedHasPullRequest`); applying follows approval and waits for every decision
  (`ApplyingIsApproved`, `ApplyingMeansAllDecided`); DONE is earned (`DoneIsEarned`).
* Scheduling: a pending stage has something under way for it and is picked up, and the event and job
  loops come to an end (`PendingHasWork`, `PendingIsPickedUp`, `WorkedOff`).
* Analyses: task rows are those of the newest timeline, feedback is taken up, documents build on
  approved ones, and what is at rest can be answered (`TasksMatchTimeline`, `FeedbackIsHeeded`,
  `BuiltOnApproved`, `RestIsAnswered`).
* Generation: contexts and patch sets are of the commits they name, contexts do not get older, a refresh
  takes hold or leaves the context marked stale, and an ingest ends (`ContextIsOfItsCommit`,
  `SetNamesItsSources`, `ContextNeverOlder`, `RefreshTakesHold`, `IngestEnds`).
* Diffs: what is applied is what was asked for, what validates applies, nothing is mangled, no
  secret gets by the evaluation (`AppliedIsWanted`, `ValidApplies`, `NeverMangled`, `SecretsAreSeen`).
* Records: a restore keeps what its checkpoint lists, pruning keeps the first and the manual ones and
  keeps the rest few, approvals match their sets, what is marked processed is recorded
  (`RestoreKeepsSnapshot`, `FirstAndManualKept`, `PruningKeepsBound`, `FixApprovalsAgree`,
  `ProcessedIsRecorded`).
* Proposals: what is stored passed the gate, conflicts are settled file by file, warnings have rows
  (`ReadableDiffsAreClean`, `ConflictsGoToFirst`, `WarningsAreStored`).
* Console: polling is not lost, what is offered is accepted, a row that is watched is shown, no spinner
  stays (`PollingGoesOn`, `OfferedIsAccepted`, `WatchedRowIsShown`, `WaitingEnds`).

## 2. The modules

| module | models | extends |
|---|---|---|
| `Transition` | `transition()` and `getJobsForStage()`, as operators | Integers, FiniteSets |
| `WorkflowStore` | rows, queues, the context loader's queries | Transition |
| `Orchestrator` | `handleEvent`, its failures and redelivery | WorkflowStore |
| `ClientActions` | the API handlers and the webhooks | WorkflowStore |
| `Processors` | what all processors share: take, throw, retry, crash | WorkflowStore |
| `AnalysisProcessors` | feasibility, architecture, timeline, summary | Processors |
| `PatchProcessors` | ingest, evaluate, sandbox, apply; patch applicator, write gate | Processors |
| `Pipeline` | all of them over one store: `Init`, `Next`, `Spec`, `FairSpec`, `TypeOK` | the above |
| `StageLedger` | the abstract specification: a ledger of approvals and a position | Transition |
| `PipelineSafety` | the properties; `Ledger` is the refinement mapping | Pipeline |
| `PipelineClaims` | claims of the documents that the engine does not meet | PipelineSafety |
| `GateProofs`, `PatchProofs` | the proofs about `Pipeline` | PipelineSafety, TLAPS |
| `Analyses` | what the four analyses make, and from what | SequencesExt, Bags |
| `AnalysesProofs` | its proofs | Analyses, TLAPS |
| `LlmRunner` | a call of the runner as a record that each reply moves on | Integers |
| `Generation` | stored contexts, the refresh job, the ingest job; branches that move | LlmRunner |
| `GenerationProofs` | its proofs | Generation, TLAPS |
| `DiffText` | diffs: generation, parsing, hunks, validation and application, as operators | SequencesExt |
| `PatchText` | a model's changes on their way to a branch: ingest, the policy job, sandbox, applicator | DiffText |
| `PatchTextProofs` | the proofs about `DiffText` and `PatchText` | PatchText, TLAPS |
| `Records` | the rows the services below share | Sequences |
| `Checkpoints`, `Diagnosis`, `Deliveries` | the three services, one await a step | Records |
| `History` | any calls of the three side by side, and a workflow that moves on | the three |
| `HistoryProofs` | its proofs | History, TLAPS |
| `Proposals` | registry and proposal service | SequencesExt |
| `ProposalsProofs` | its proofs | Proposals, TLAPS |
| `Console` | the workflow page | Transition |
| `ConsoleProofs` | its proofs | Console, TLAPS |
| `MC...` | the values of the constants for TLC | one module each |

### State and code: the engine

* `state`, `stage`, `stageStatus`: the columns of the Workflow row. `decisions`: StageDecision rows as
  a set (nothing counts them). `artifacts`: the stages whose document exists. `patchSets`: PatchSet
  rows in creation order with their PolicyViolation rows (`rows`), the events that queries look for
  (`evaluated`, `sandbox`), and what is on GitHub (`branch`, `prs`, `pr`, `merged`) beside what the
  database says of it (`prRows`). `approved`: an Approval row of kind `apply_patches` exists.
* `orchQ`, `jobQ`: waiting entries with their attempts left and their stalls so far; `fresh` tells a
  first delivery from a repeated one.
* `orch[o]`: where a `handleEvent` is: `decide` (state read), `commit` (transition computed), `enqueue`.
* `req[r]`: the writes a handler still has to make (`todo`) and the values it computed; the writes run
  in the order `Order` gives.
* `worker[n]`: where the processor of job `n` is, and the stage and status it read at its start.

Every `HandleRequest`, `HandleEvent` and processor step is one await of the code, with everything up to
the next await.

### State and code: the other modules

* `Analyses`: `docs[s]` is the sequence of artifact rows of a stage (the version is the position), each
  with what it was made from; the task rows are a bag beside them; the job in progress carries what it
  read at its start. A reply of the model is a record of what parses and what the schema finds in it.
* `Generation`: commits of a branch are numbered, a file or a context read at a commit is that number.
  `context[r]` is the RepoContext row; `refresh` and `ingest` are the locals of the two processors, and
  one step is one call of GitHub, the database or the runner.
* `PatchText`: a text is a sequence of lines, a diff a sequence of marked lines; `case` is what a run
  starts from, and the variables follow the code from generation to the branch. `verdict` is what the
  policy job makes of the patch: the rules of `evaluate-policy.processor.ts`, which are not those of
  `policy-engine.ts`. That engine judges the diffs of agents, in `Proposals`.
* `History`: `calls[c]` is a service call with its locals; `rows` are the rows a snapshot counts or a
  restore deletes, each with its time; `checkpoints`, `hooks`, `proposals`, `approvals` are tables.
* `Proposals`: `call` is the one call in progress; `Offers` says what an agent may return.
* `Console`: `row` is the database's row, `shown` the hook's copy, `chain[i]` a polling chain (timer
  armed, request in flight), `tracked` the one `pollTimeoutRef` names, `hand[i]` a click whose handler
  has not returned.

## 3. Modelling decisions

* **One workflow.** Workflows share nothing but the queues and the PR number lookup of the webhooks.
* **Atomicity.** One step is one await that changes shared state. Merged in `Pipeline`: the queries of
  `loadTransitionContext` (one context load is one step); a read directly followed by the write that
  depends on it at the end of the policy and sandbox processors; the WriteGate's count with the write
  after it (an Approval row is never deleted, so the count cannot become wrong in between). In
  `Analyses` a client's action with its event is one step: what happens in between is a matter of
  `Pipeline`. In `Console` a step is what runs between two awaits, with the render and the effects it
  causes; React's doubled effects in development are left out.
* **Composition by contract.** `Analyses`, `Generation` and `PatchText` are what happens inside one job
  of `Pipeline`; each keeps the job's skeleton (start, failure, redelivery, event) and adds the data.
  `Console` takes the row from `Rows` and lets others move it to any of `Turns`.
* **Queues.** One job at a time per processor queue (BullMQ's default concurrency). Fresh entries are
  taken in order. An entry that is offered again after a throw (backoff) or as stalled may be taken at
  any time, before or after fresh ones. Job attempts are the constants `JobAttempts` and `OrchAttempts`
  (3 and 5 in `worker.module.ts`, 2 in the runs, enough to have a retry and a last attempt); what the
  API adds, its events and the refresh jobs, has one attempt, for `app.module.ts` registers both queues
  without options. A job whose worker dies has stalled: it is offered again with the attempts it had,
  `MaxStalledCount` times, and is then given up without a trace in the database. The repository does not
  set that limit, so it is BullMQ's default of 1 in every run.
* **Failures.** `MaxFaults` bounds calls that throw (database, queue, LLM, GitHub); each leads where the
  code's `try`/`catch` leads. `MaxCrashes` bounds process deaths between any two awaits: an event or job
  is offered again or given up as above, an API handler is just gone. `MaxEvents` bounds calls, faults
  and crashes together (in `Generation` pushes, requests, faults and crashes; in `History` the workflow's
  moves and faults), so that a run may allow each kind without all of them at once.
* **Data.** In `Pipeline` a patch is its policy verdict (`none`, `warn`, `block`), drawn when the set is
  created; a CI run is `pass` or `fail`, and patches that do not validate are `invalid`. The LLM's
  answer is an artifact or an exception. Lines of a text are model values that differ in what the code
  tells apart (blank, a secret, a beginning like a diff header). Reason strings and logs are left out.
* **Client actions.** A stage action that names another stage than the workflow's returns WRONG_STAGE
  and changes nothing, so `Pipeline` has no stage as parameter; `Console` has it, for a modal may be
  older than the page. Clients act at any time, at most `MaxCalls` times.
* **Initial states.** `Origin = "gated"`: a workflow made by `create`, started where `StartStage` has
  just become pending, with the approvals, documents, and judged patch sets the stages before it leave.
  `Origin = "legacy"`: a row from before the gated pipeline, with `ingest_context` queued.
* **Deadlock.** The runs say `CHECK_DEADLOCK FALSE`: a workflow really stops, waiting for a client or
  finished, and a call or a text ends. Waiting that should not be is what `PendingHasWork`,
  `PendingIsPickedUp`, `RestIsAnswered`, `IngestEnds` and `WaitingEnds` are about.

**Fairness.** `Pipeline` (`FairSpec`): weak fairness of each orchestrator, each request in progress, and
the processors as a whole. BullMQ hands out waiting jobs as long as the worker lives, and Node's event
loop resumes a handler whose await is done. `Generation` (`FairSpec`): weak fairness of each of its two
processors, for the same reason. `Console` (in `Spec`): weak fairness of each polling chain (a timer
fires; a request answers or `fetchJson`'s abort timer ends it) and of each handler. That timer is
cleared when the headers are there, so fairness also assumes that bodies arrive. Nothing is assumed of
clients, of GitHub, or of the moves of others. Strong fairness is not needed: a queue entry, an armed
timer and a finished await stay until they are taken.

## 4. Properties and runs

Bounds that are the same in most runs of `Pipeline`: one orchestrator, attempts of 2. The searches are
complete; the largest have well over a million states.

| run | constants that matter | checks | shows |
|---|---|---|---|
| `analysis_gates` | 2 overlapping requests, all four stage actions, 3 calls | `StageBehindGates`, `WorkBehindGates`, `LedgerSpec` | 1.04M states: no interleaving of stale requests enters a stage or starts a gated job ahead of the ledger, and the engine implements `StageLedger` |
| `pending_has_work` | from policy, sandbox not configured, 3 calls, `FairSpec` | `PendingHasWork`, `PendingIsPickedUp` | 55k states: a pending stage always has something under way and is picked up |
| `policy_verdicts` | from policy, 2 repositories, 2 overlapping requests, 1 crash, 2 events in all, both SKIP settings | `TypeOK`, `ViolationsKept`, `PolicyApprovalIsClean` | 94k states: two requests without a crash, or one with it: no approval of policy slips in between an evaluation and its rows while nothing crashes, and a crash between `deleteMany` and `createMany` is repaired by the redelivered job; what an approval may do before that is in section 6, and that it may not with one repository, whatever fails, is proved (section 5) |
| `sandbox_writes` | from sandbox, invalid patches, regeneration, 1 fault | `WritesAreApproved` | 983k states: no branch or PR without an Approval row |
| `legacy_flow` | legacy flow, verdicts none and block, six actions, 1 fault, 1 crash, 3 events in all | `NoPrForBlockedPatch`, `DoneIsEarned`, `ApplyingIsApproved`, `AppliedHasPullRequest` | 1.24M states: an applied set has a recorded PR and no row lacks its PR, DONE only after a merge, applying only after an approval |
| `legacy_repos` | legacy flow, 2 repositories, 2 overlapping requests, `FairSpec` | `ApplyingMeansAllDecided`, `WorkedOff` | 131k states: no set is left undecided, and the loop of PATCHES_PROPOSED terminates |
| `analyses` | from feasibility, architecture and summary; replies of every kind; 2 requests, 1 fault, 2 crashes, 2 events in all | `TasksMatchTimeline`, `FeedbackIsHeeded`, `BuiltOnApproved`, `RestIsAnswered` | 1.15M states: documents, task rows and feedback agree whatever the model answers, and a workflow at rest can be answered |
| `generation` | 1 repository, 1 push, 2 refresh requests, 1 retry of the runner, 2 attempts of ingest, 2 faults, 2 crashes, 3 events in all | `ContextIsOfItsCommit`, `SetNamesItsSources`, `ContextNeverOlder`, `RefreshTakesHold`, `IngestEnds` | 222k states: what is stored is of the commit it names although the branch moves between the calls, and a refresh that fails leaves the row stale |
| `patch_text` | texts of up to 2 lines with and without a final newline, texts with changes further apart than two contexts, pairs of changes on two files, 1 fault | `NeverMangled`, `AppliedIsWanted`, `ValidApplies`, `SecretsAreSeen` | 96k states: the readers and writers of diffs agree |
| `history` | 2 callers (symmetric), 2 deliveries, 1 move or fault | `FixApprovalsAgree`, `ProcessedIsRecorded`, `PruningKeepsBound`, `RestoreKeepsSnapshot`, `FirstAndManualKept` | 1.12M states: any two calls of the services side by side, also two on one delivery |
| `proposals` | 3 agents, 2 asked, 2 files, 2 tasks, 1 change of the registry or fault each | `ReadableDiffsAreClean`, `ConflictsGoToFirst`, `WarningsAreStored` | 1.35M states: each way of the service |
| `console` | 2 clicks of 4 kinds, 1 move by others, 3 chains | `PollingGoesOn`, `OfferedIsAccepted`, `WatchedRowIsShown`, `WaitingEnds` | overlapping polls, refetches, failures, clicks and modals |

Why the bounds are enough: the races of the gates need two requests whose reads precede each other's
writes, and a third call to make use of what they left; the policy races need two patch sets, one whose
verdict is BLOCK and one whose verdict makes the stage ready; one fault and one crash reach every catch
block and every gap between two writes, and a second crash a job that is given up (`analyses`,
`generation`; the other runs have at most one, within the limit). `analysis_gates` has no crashes: its
invariants are proved with them (section 5). The gated runs that begin at a later stage start in the
state the earlier stages leave. `analyses` starts at three stages because the timeline is reached from
architecture and each start has the documents the stages before it leave; one approval and two requests
let a job run while the feedback, the stage or the document it read is replaced. `generation` needs one
push to make a context old, a second request to race the first, one retry and one redelivery, and a
second fault and crash to lose the mark or the job. In `patch_text` a context of 1 keeps texts short and
still gives hunks that merge, hunks that stay apart and hunks at either end of the file. In `history` two
callers give every pair of calls; a third would only repeat a pair. In `console` no state needs more than
the three chains `MaxChains` allows.

Each property has a mutant of the code in `PROJECT.json` (a swapped order of writes, a dropped check, a
forgotten case) under which TLC finds it violated.

Several properties hold under a condition that the property or its comment states, because without it
the code breaks them: those conditions are the disagreements of section 6.

## 5. Proofs

| theorem | module | statement |
|---|---|---|
| `TypeCorrect` | `GateProofs` | `Spec => []TypeOK` |
| `GateInvariance` | `GateProofs` | `Spec => []GateInvariant` |
| `StageBehindGatesHolds` | `GateProofs` | `Spec => []StageBehindGates` |
| `WorkBehindGatesHolds` | `GateProofs` | `Spec => []WorkBehindGates` |
| `ImplementsLedger` | `GateProofs` | `Spec => LedgerSpec` |
| `WritesAreApprovedHolds` | `GateProofs` | `Spec => []WritesAreApproved` |
| `ApplyingIsApprovedHolds` | `PatchProofs` | `Spec => []ApplyingIsApproved` |
| `DoneIsEarnedHolds` | `PatchProofs` | `Spec => []DoneIsEarned` |
| `AppliedHasPullRequestHolds` | `PatchProofs` | `Spec => []AppliedHasPullRequest` |
| `ViolationsKeptHolds` | `PatchProofs` | `Spec => []ViolationsKept` |
| `ApplyingMeansAllDecidedHolds` | `PatchProofs` | `LegacyClients`: `Spec => []ApplyingMeansAllDecided` |
| `NoPrForBlockedPatchHolds` | `PatchProofs` | `NumRepos = 1`, `LegacyClients` or `LateGated`: `Spec => []NoPrForBlockedPatch` |
| `PolicyApprovalIsCleanHolds` | `PatchProofs` | `LateGated`: `Spec => PolicyApprovalIsClean` |
| `PendingHasWorkHolds` | `PatchProofs` | `LateGated`, `RetryAlone`, nothing breaks: `Spec => [](state \notin HaltingStates /\ (stage = "pr" => "retryStage" \notin Actions) => PendingHasWork)` |
| `ContextsAreOfTheirCommits` | `GenerationProofs` | `Spec => []ContextIsOfItsCommit` |
| `SetsNameTheirSources` | `GenerationProofs` | `Spec => []SetNamesItsSources` |
| `ContextsNeverGoBack` | `GenerationProofs` | `Spec => ContextNeverOlder` |
| `TypeCorrect` | `HistoryProofs` | `Spec => []TypeOK` |
| `RestoreKeepsSnapshotHolds` | `HistoryProofs` | `Spec => RestoreKeepsSnapshot` |
| `FirstAndManualKeptHolds` | `HistoryProofs` | `Spec => FirstAndManualKept` |
| `FixApprovalsHold` | `HistoryProofs` | `Spec => []FixApprovalsAgree` |
| `ProcessedIsRecordedHolds` | `HistoryProofs` | `Spec => []ProcessedIsRecorded` |
| `BuiltOnApprovedHolds` | `AnalysesProofs` | `Spec => []BuiltOnApproved` |
| `FeedbackIsHeededHolds` | `AnalysesProofs` | `Spec => []FeedbackIsHeeded` |
| `RestIsAnsweredHolds` | `AnalysesProofs` | `Spec => []RestIsAnswered` |
| `TasksMatchTimelineHolds` | `AnalysesProofs` | `Spec => []TasksMatchTimeline` |
| `ReadableDiffsAreCleanHolds` | `ProposalsProofs` | `Spec => []ReadableDiffsAreClean` |
| `ConflictsGoToFirstHolds` | `ProposalsProofs` | `Spec => []ConflictsGoToFirst` |
| `WarningsAreStoredHolds` | `ProposalsProofs` | `Spec => []WarningsAreStored` |
| `NeverMangledHolds` | `PatchTextProofs` | `Spec => []NeverMangled` |
| `AppliedIsWantedHolds` | `PatchTextProofs` | `Spec => []AppliedIsWanted` |
| `ValidAppliesHolds` | `PatchTextProofs` | `Spec => []ValidApplies` |
| `SecretsAreSeenHolds` | `PatchTextProofs` | `Spec => []SecretsAreSeen` |
| `AppliedGivesNew` | `PatchTextProofs` | `Applied(old, ModifyDiff(path, old, new).patch) = new` for texts without header-like lines that agree about the final newline |
| `FileChangesAre` | `PatchTextProofs` | `FileChanges` of joined diffs is those diffs, with their paths and marks |
| `TouchedFilesAreListed` | `PatchTextProofs` | `Spec => [](patch # NoPatch => TouchedFiles(patch.diff) = PatchedPaths)` |
| `PollingGoesOnHolds` | `ConsoleProofs` | `Spec => []PollingGoesOn` |
| `OfferedIsAcceptedHolds` | `ConsoleProofs` | `Spec => []OfferedIsAccepted` |

Those about `Pipeline` hold for any sets of orchestrators and requests, any numbers of repositories,
attempts, calls, faults, crashes and stalls allowed, and every choice of actions and initial stage; those
about `Console` for any rows and turns, kinds of clicks and bounds; those about `Generation` for any list
of repositories, any replies, pushes, requests and failures; those about `History` for any callers,
deliveries, commits and bounds; those about `Analyses` for any texts of the model, any first stages,
requests, failures, crashes and attempts; those about `Proposals` for any agents, profiles, registry and
changes of it, files, tasks, policies and proposals of any length; those about `PatchText` for any base
commits, responses, texts of any length, context and failing calls. They assume only the named
assumptions on the constants (`AttemptsAssumption`, `PatchAssumption`, `PipelineAssumption`;
`ConsoleAssumption`; `GenerationAssumption`; `AnalysesAssumption`; `ProposalsAssumption`;
`DiffAssumption`, `PatchTextAssumption`; `RecordsAssumption`, `CheckpointsAssumption`,
`DiagnosisAssumption`, `DeliveriesAssumption`), which TLC evaluates in every run of their module. The
last four of `PatchProofs` fix some of the constants, and section 6 has what TLC finds where they are
free:

* `LegacyClients`: the legacy flow, and its clients (approve, reject, requestChanges, cancel, rejectStage).
  The API would take a change request of the gated flow there too, and start an analysis in it.
* `LateGated`: a gated workflow that has reached the policy stage, where verdicts come to count, whose
  patches are not regenerated.
* `NumRepos = 1`: of two sets one may be approved before its verdict is known, and is then never asked for
  again.
* nothing breaks, `MaxFaults = 0` and `MaxCrashes = 0`: one lost event leaves a stage pending.
* `RetryAlone`: where clients retry stages, one request is made at a time. A retry writes `pending` over
  the stage the row has by then, but its event names the stage it read.
* a workflow that is not halted, and `pr` only where it is not retried: `transition` enqueues nothing for
  a retry in NEEDS_HUMAN, and nothing for a retry of `pr`.

Two properties count what went wrong in their own statement. `ViolationsKept` is of states in which no
call has failed and there were at most `MaxStalledCount` crashes, so that no job can have been given up;
`PolicyApprovalIsClean` is, where there are several repositories, of the steps before the first failure
or crash. `RestIsAnswered` likewise leaves out states after more than `MaxStalledCount` crashes. The
inductive invariants of `PatchProofs`, `GenerationProofs`, `AnalysesProofs`, `HistoryProofs`,
`ProposalsProofs` and `PatchTextProofs` were first checked by TLC on the instances of the runs.

*Types.* One lemma per handler step; the queues are the part that needs the library's facts on
sequences (`WithoutType`: taking an entry out of a queue).

*Gates.* `StageBehindGates` and `WorkBehindGates` are not inductive. What carries a stage forward is not
the `stage` column but the values in flight: the row a request will write, the event it will emit, the
events in the queue or in an orchestrator's hands, and the jobs that orchestrator will enqueue. A
request that read the row long ago will write the stage it computed then. `GateInvariant` says which
approvals back each of them: events and jobs the recorded ones; a request's row and event the recorded
ones and, while its `decide` step is still to come, the approval it is about to record. That a request
may not count on it after that step is why the order decide, update, emit matters, and the mutants that
change the order break the properties. Approvals only grow (`ApprovalsGrow`), so every backing survives
the steps of the others; the proof has one lemma per kind of step.

*Ledger.* `ImplementsLedger` maps `position` to `stage` and `ledger` to the approvals. A `decide` step of
an approval is `Sign`, an `update` that changes the stage is `Move`, everything else stutters; that
`Sign` and `Move` are allowed is `GateInvariant` before the step.

*Writes.* An Approval row is never deleted, and each step that pushes or opens something asks the gate:
`GuardedWrites` is proved for each processor and makes `WritesAreApproved` inductive with `TypeOK`.

*States.* `ApplyingIsApproved` and `DoneIsEarned` fail at the write of a state that was decided on long
ago, so `RoadInvariant` says what stands behind each state and event in flight: what an orchestrator saw
and computed, the row a request will write, the event it will emit, the queue. An Approval row is never
deleted, a merge is never undone and approvals only grow, so what is behind a value stays there; the one
value that is ahead is the row with which the approval of the last stage completes the workflow, which
`GateInvariant` covers.

*Patch sets.* What a row says depends on how far the processor got that works on it. `JobsNameSets`:
every queued job, job in hand and job an orchestrator will enqueue names a set that exists.
`ApplyInHand`: between opening a PR and recording it one is unrecorded, and a set is marked applied only
with a record; a redelivered job opens a second PR and cannot lose that. `JudgedInHand`: once the rows
are written they are the verdict, and a job that died between the two statements is either in the
worker's hand or offered again, which is what `Reevaluating` asks for. It is offered again as long as it
has not stalled too often, and each of its stalls was a crash (`StallsCounted`). `RowsKept` is the frame:
who writes which part of a row.

*Verdicts.* `Flow(EV, ST, JB, WB)` bounds what is on its way: events, states, jobs to be enqueued and
jobs queued or at work. They move with the work. In the legacy flow (`LegacyInvariant`) there is one
ingest job; until it is over nothing else has a job, and the state is INGESTED or a final one.
WAITING_USER_APPROVAL and APPLYING_PATCHES are seen, decided or written only when no set is left
undecided, and ingest, over by then, adds none. A gated workflow from the policy stage on
(`LateInvariant`) never goes back to it, has no sandbox or apply job before it leaves it, and leaves it
only by an approval that read `ready`. `EvaluationInHand` follows a verdict through the evaluation
processor, so that the step that writes `ready` (`ConcludePolicyStage`, the only one: `ReadyWrites`)
finds every set judged and none blocked, which no later step undoes (`VerdictsStayClean`). With faults
the step sees fewer verdicts than there are; with one repository the processor still judges the only set
before it writes.

*Pending.* `PendingInvariant` says where the work for a pending stage is, in the order it takes: the
request that made it pending and has only its event left to emit, the event in the queue or in an
orchestrator's hands, the job that orchestrator will enqueue, the job in the queue, the worker that took
it and read the row as pending. One lemma takes an event from each place to the next
(`EventStaysUnderWay`) and one a job (`JobStaysUnderWay`), which ends where the processor writes
`processing`. It needs `LateInvariant` (a set exists, so that the job is for one), that a request still to
write `pending` will emit an event that starts the stage it writes it for (`PendingRequest`), and that
what an orchestrator decided on a halted workflow does not take it on (`HaltedStays`).

*Generation.* Only the refresh processor writes contexts, one job at a time. From the read of the branch to
the upsert its commit lies between the stored one and the head (`RefreshBetween`), whatever is pushed;
that is why a context never goes back. `RefreshHoldsCommit` and `IngestHoldsSources` say that what the
two processors hold between two calls is from the commit they hold, or is nothing.

*Analyses.* First every step of a processor is shown to be of one of six kinds (`StepKinds`: it takes a
job, goes on, saves, is done, puts its job back, drops it), so that each invariant is a matter of six
cases. `BuiltInvariant`: the stages beyond the row's have no document, job or event, so nothing has read
a document before it was approved; and a job that is under way read versions that are at least the
approved ones. `FeedbackInvariant`: the feedback in a job's hand lies between that of the newest document
and that of the row, and what was asked is in a document, in a job's hand, or has a job or event under
way that will read it. `RestInvariant` counts: a job that is given up without its event has used each of
its attempts up in a call that failed, so `left + faults >= JobAttempts`, or has stalled more than
`MaxStalledCount` times, each time in a crash; until then a status that answers
nothing has something under way that writes another. `TasksInvariant` follows the timeline's worker
through the deletion, the creation and the document; that `tasksToPhases` and `TaskIds` lose no task
(`PhasesHoldTasks`, `TaskIdsFacts`) rests on what joining sequences up does (`Flattened`, by the least
place at which it would fail).

*Records.* `TimesInvariant`: what a call has listed is not newer than the clock, and what a checkpoint or
the target of a restore lists is older than it; so what a restore deletes, the rows newer than the
target, was not listed. `PruningInvariant`: what a caller has listed to prune is, as long as it exists,
automatic and not the oldest. It is kept because the oldest of all is in no caller's list, so it survives
every other caller's deletion; that there is an oldest is `LeastNumber`. `ApprovalInvariant` says that a
call between the two writes of an approval is of an approved set; `DeliveryInvariant` that a
delivery which some call found to concern the workflow is recorded, or a call at work on it is about to,
or a call failed. A call that matched a delivery records it itself, so it does not matter who else
processes the delivery at the same time.

*Proposals.* The set that is stored is the one that was judged: `PatchesInHand` says that what a call holds
after its agents have answered is what they proposed, merged where several were asked, and `SetInHand`
that the set created last is the one in hand and that each of its warnings has a row or is still to be
stored. A call that throws drops both and announces nothing (`AnnouncedLast`). That the merge keeps every
file is `MergedFacts`: the recursive function is shown to go patch by patch (`MergedStepwise`), and at the
least number of patches after which a file would be missing the patch that lists it first has just been
skipped, which it is only for a task or files that are there already (`MergeOneHolds`).
`ProposalsAssumption` says of the agents only that the diff of each patch they return names some file,
as every diff that `base-agent.ts` makes does.

*Console.* That polling goes on depends on what the page shows, on which timer the hook tracks and on
what is in flight. `ConsoleInv` adds to the property that chains and the tracked one are well formed
(`Chained`) and that every row, shown, in flight or in the database, is one the API serves (`Rowed`).
`ConsoleAssumption` says of the rows what `approveStage`, the only writer of `done`, ensures: a stage
that is `done` is `approved`. That what the page offers the service accepts follows from `Rowed`, for the
buttons are chosen from the row that is shown and the service's checks are on the same columns.

*Diffs.* A recursive function is a `CHOOSE`, and no library induction can be cited, so both are built up:
`Iteration` and `SameFold` say that the fold over a sequence of lines exists and is the only function that
takes these steps, and `Induction` rests on the least number at which a statement would fail
(`LeastNumber`). Of the edit script the proofs use only that it walks from the start of both texts to
their ends over equal lines, old lines or new lines (`ScriptExists`), so they hold for any edit script,
minimal or not. `ModifyDrawn` says where in the diff each shown step has its lines, and with which numbers
its hunk begins. The applicator is then followed step by step of the script: before a hidden step it is
*behind*, the old lines from its place on being the new lines still missing; a hunk header makes it
*exact* (`HeaderStep`), and the rest of the file is copied at the end (`BehindWritten`). That is
`AppliedGivesNew`. `Placed` and
`PartIsRead` take both from one file's diff to the patch of several files.

*Patch texts.* `Kept` says that the patch is made of the response, that a valid one fits the base commit
when no call failed, and that the verdict is of that patch. `InPlace` says of the k-th file change that the
file is the base's until the applicator gets there and the base's or the wanted one after; it needs that
each path is changed once (`OncePaths`), for a second change of a path would be applied to a text its diff
was not made for. `ApplyMeans` sums the applicator's branches up in two: the change goes through with a
text that `NewText` names, or the patch set fails, and with no failed call only where validation had found
it not to fit (`Refused`). For secrets `Sourced` says where a line of the branch can come from: its file on
the base commit, an added line of the patch, or nothing but the blank one. The diff that is applied need
not have been made for the text it meets, so `AppliedStepwise` is used for any text with lines of a set
`S` and any diff whose shown lines are of `S` (`ModifyGives`): whatever it writes is of `S` again. The
evaluator reads the additions of the whole patch, and those of each part are among them (`PartAdds`).

Only model-checked is liveness (`PendingIsPickedUp`, `WorkedOff`, `RefreshTakesHold`, `IngestEnds`,
`WatchedRowIsShown`, `WaitingEnds`): under fairness it is beyond the prover. Every safety invariant and
action property of the runs is stated by a theorem. Of `DiffText` nothing is proved about the counts of
`parseDiff` (`ParsedFiles`) and of the generator (`additions`, `deletions`).

## 6. Known disagreements between code and documents

### Of the engine

Each row is a property of `PipelineClaims`, or of the module named, and gives the constants under which
TLC refutes it. Those not given: `Origin = "gated"`, `StartStage = "feasibility"`, `Requests = {r1}`,
`Orchestrators = {o1}`, `NumRepos = 1`, `Verdicts = {"none"}`, `SandboxMode = "run"`,
`SandboxRuns = {"pass", "fail"}`, `SkipPr = FALSE`, `JobAttempts = 2`, `OrchAttempts = 2`,
`MaxCalls = 1`, `MaxFaults = 0`, `MaxCrashes = 0`, and `MaxEvents` the sum of the last three.

| property | constants | what happens |
|---|---|---|
| `RetryEnqueuesJob` | `Actions = {"retryStage"}`, `MaxFaults = 1` | one attempt of an analysis fails: the stage is blocked and E_JOB_FAILED moves the workflow to NEEDS_HUMAN; the retried stage becomes pending, but `transition` ignores every event in NEEDS_HUMAN (`workflows.service.ts:757`: "Sets stageStatus to pending and enqueues the stage job.") |
| `NoPrForBlockedPatch` (`PipelineSafety`) | `Origin = "legacy"`, `NumRepos = 2`, `Verdicts = {"none", "block"}`, `Actions = {"approve"}`, `MaxCalls = 2` | a set approved before its evaluation is no longer `proposed`, is never asked for again, and gets its PR although its verdict is BLOCK (`CONTEXT.md:44`: "Policy engine blocks forbidden diffs") |
| `PrOpenMeansAllApplied` | `Origin = "legacy"`, `NumRepos = 2`, `Actions = {"approve"}`, `MaxCalls = 2` | the set just applied is counted twice (`applied + 1`), and the workflow enters PR_OPEN while the other is still to be applied (`transition.ts:210`) |
| `HaltingIsFinal` | `Actions = {"rejectStage"}`, `MaxFaults = 1` | NEEDS_HUMAN becomes REJECTED: the API writes terminal states too (`transition.ts:58`) |
| `OnlyStateWriterWrites` | `Actions = {"rejectStage"}` | rejectStage writes `Workflow.state` itself (`state-writer.ts:6`) |
| `ApprovesReadyStage` | `Requests = {r1, r2}`, `Actions = {"approveStage"}`, `MaxCalls = 2` | of two overlapping approvals the second takes effect on a stage that is pending |
| `ReadyStageHasArtifact` | `Actions = {"approveStage"}`, `MaxFaults = 1` | a repeated analysis job sets the next stage ready although that stage has no document |
| `ArchitectureBeforeCode` | `Actions = {"approveStage"}`, `MaxCrashes = 1` | E_WORKFLOW_CREATED delivered again after the first approval takes the legacy path and generates patches |
| `RejectedNotReprocessed` | `StartStage = "sandbox"`, `NumRepos = 2`, `Actions = {"regeneratePatches"}` | a sandbox job queued before regeneration validates a rejected set |
| `PendingHasWork` (`PipelineSafety`) | `Actions = {}`, `MaxFaults = 1` | an event of the API has one attempt; one failure in the orchestrator loses it, and the stage stays pending |
| `PendingHasWork` (`PipelineSafety`) | `StartStage = "sandbox"`, `SandboxRuns = {"invalid"}`, `Actions = {"regeneratePatches"}` | a failed sandbox job leaves NEEDS_HUMAN, in which regeneration enqueues nothing |
| `PendingHasWork` (`PipelineSafety`) | `StartStage = "policy"`, `SandboxMode = "skip"`, `Requests = {r1, r2}`, `Actions = {"approveStage", "retryStage"}`, `MaxCalls = 2` | a retry of policy overlaps its approval: the retry's `pending` lands on the sandbox stage, whose job is over, and its event re-runs policy (`workflows.service.ts:757`) |
| `PendingHasWork` (`PipelineSafety`) | `StartStage = "pr"`, `Actions = {"retryStage", "requestStageChanges"}`, `MaxCalls = 2` | a retry of the pull request stage makes it pending and enqueues nothing |
| `FailedSandboxBlocks` | `StartStage = "sandbox"`, `Actions = {"approve"}` | the approval that the branch push needs takes the set out of those whose results count: ready with a failed run |
| `ViolationsKept` (`PipelineSafety`) without `faults = 0` | `StartStage = "policy"`, `Verdicts = {"none", "block"}`, `Actions = {"retryStage"}`, `MaxFaults = 1` | a re-evaluation that fails between the two statements is reported as non-blocking and not retried |
| `ViolationsKept` without `crashes <= MaxStalledCount` | `StartStage = "policy"`, `Verdicts = {"none", "block"}`, `Actions = {"retryStage"}`, `MaxCrashes = 2` | a re-evaluation that dies twice between the two statements is given up: the evaluated set stays without rows, although no call failed |
| `PolicyApprovalIsClean` (`PipelineSafety`) without its condition | `StartStage = "policy"`, `Verdicts = {"none", "block"}`, `NumRepos = 2`, `Actions = {"approveStage"}`, `MaxCrashes = 2` | the job of a BLOCK set dies after its event, and its redelivery dies between the two statements and is given up; the other set's job finds no BLOCK row and makes the stage ready, and `approveStage` (`workflows.service.ts:577`) passes ("verify no blocking violations exist") |
| the same | the same, `MaxFaults = 1`, `MaxCrashes = 1` | the redelivered job fails between the two statements instead, and is reported as non-blocking |
| `OnlyApprovedApplied` | `Origin = "legacy"`, `Requests = {r1, r2}`, `Actions = {"approve", "reject"}`, `MaxCalls = 2` | a reject after the decision to apply does not stop the job |
| `Gate2PassedMovesOn` | `Origin = "legacy"`, `Actions = {}` | the fallback to all proposed sets keeps PATCHES_PROPOSED after every evaluation passed (`README.md:73`) |
| `CancelStopsWork` | `Origin = "legacy"`, `Actions = {"approve", "cancel"}`, `MaxCalls = 2` | a PR is opened for a cancelled workflow (`WorkflowDetailPage.tsx:396`) |

### Of the other parts

An item with (TLC) was refuted by TLC, as a stronger form of the property named or by the constants
named; the property of the run excludes the case. The others were met while the code was translated.

**Analyses**

* (TLC, `FeedbackIsHeeded` without its `TakesFeedback`) Changes requested at the summary stage are not
  taken up: its prompt has no section for feedback.
* (TLC) A document is superseded after its approval, by a job queued when changes were requested while
  another ran.
* (TLC) The legacy parser stores a recommendation outside its type.
* (TLC, `TasksMatchTimeline` without its condition on the run) A timeline that fails between its
  `deleteMany` and `createMany` (repeated ids violate the unique key) leaves no task rows while the newest
  timeline is an older one.
* `Workflow.feedback` is never cleared, though retryStage says "no feedback, just re-run"; the mapping of
  complexities to priorities loses `critical`; a job whose catch block itself fails at its last attempt
  leaves `processing`, which retryStage refuses; when the event cannot be emitted after `completeRun`, a
  completed run becomes a failed one whose document stays.

**Generation**

* (TLC, `RefreshTakesHold` without the failed attempt) A refresh is not tried again: the processor throws
  for a retry, and the worker registers its queue with three attempts (`worker.module.ts:303`), but the
  jobs are added by the API, whose queue has no options (`app.module.ts:21`).
* A fresh context row may keep an old path beside a missing summary, and ingest then records that it
  used the stored context; analyses use a stale context without asking; a context may be newer than the
  base of the patch made with it; `Workflow.baseSha` is read again and may differ from the sets'.
* An ingest that fails and is tried again leaves its first sets proposed, possibly without a patch.
* `create` with repositories that have no role takes the first as primary.

**Diffs**

* (TLC, `ValidApplies` without `Once` or `CreatesOnlyNew`) A validated set does not apply when it creates
  a path that exists, or changes one file twice: each change is diffed against the original.
* (TLC, `AppliedIsWanted` without `Carried`) Lines that begin with `++` or `--`, and changes of the final
  newline alone, are lost.
* (TLC, `AppliedIsWanted` without `faults = 0`) A delete whose GitHub call fails is skipped and the whole
  reported as applied.
* The policy job judges generated diffs by rules of its own, not by `evaluateGate2`: a secret is reported
  under the title of the patch, without a line (`evaluate-policy.processor.ts:112`, `:160`), so that
  `SecretsAreSeen` says that it is seen and not where. `evaluateGate2`, which names file and line, is
  called for the diffs of agents alone.
* `$` in a replacement is a pattern (`diff-generator.ts:169`); overlapping occurrences are counted once.

**Records**

* (TLC) After a restore, newer checkpoints remain whose listed rows are gone.
* (TLC) Approval and rejection of a fix proposal do not look at its status.
* (TLC, `FirstAndManualKept` without `dropped`) A `deleteCheckpoint` between the listing and the deletion
  of `pruneCheckpoints` makes it delete the first one left despite `keepFirstCheckpoint`.
* (TLC, at most one event row per delivery) One delivery is recorded more than once: by Gate 3 beside
  `process()`, and again by each call of it (`gate3.ts:260`); by two `process()` calls that overlap, both of
  which found it not processed (`webhook-service.ts:151`); and by one that runs after another had recorded
  it and failed before the mark.
* (TLC, `PruningKeepsBound` without `faults = 0`) A caller that fails between creating its checkpoint and
  pruning leaves one more than `maxCheckpointsPerWorkflow` allows.
* State and base of a checkpoint are read by two queries; stage, approvals, violations and PRs are not
  restored; a restore that fails late reports `cleanedUp: 0` after deleting; fix patch sets bypass Gate 2
  (`proposal-service.ts:5`); the webhook service looks for a PR state `merged` that GitHub does not send.

**Proposals**

* The repository's own agents make diffs without a `diff --git` header, in which no added line and no
  second file is seen (`ReadableDiffsAreClean` is about the diffs that are read).
* Every specialist names the same task, so merging drops all patches after the first agent's
  (`ConflictsGoToFirst` is about agents with tasks of their own).
* A filtered patch keeps its whole diff; warnings of merged sets are not stored (`WarningsAreStored` is
  about an agent's own set); one agent's exception loses all proposals of a parallel call; `**` in a
  pattern never matches.

**Console** (the model has all but the last)

* A chain whose request is in flight survives the cleanup of its effect and the unmount, and chains
  multiply.
* One failed poll ends polling until "Try again"; a late answer with a terminal state ends it too.
* REJECTED and CANCELLED are not terminal for the hook, which polls for ever.
* "Click Retry to restart" is shown for a stage the API will not retry (`WorkflowDetailPage.tsx:2770`).
* For a deleted workflow the API answers 200 with an empty body (its controller documents 404), which
  becomes `{}`, is polled for ever and offered for deletion.
* A modal opened at one stage is sent for the next.
* Together with `Gate2PassedMovesOn`: a workflow never waits in WAITING_USER_APPROVAL with a proposed set,
  and gated ones stay in INTAKE, so the button that would create the `apply_patches` approval the write
  gate asks for is not offered for a row the engine makes.
* A reply `{ok: false}` is ignored and the reason typed is lost.

## 7. Not modelled

* `delete` with jobs in flight (the console sees its answer), the PR-number lookup across repositories,
  the verification of signatures: the first two need a second workflow or rows that vanish under every
  handler, and would multiply the state of `Pipeline`.
* The cost tracker's sums and limits (the budget check of the runner is in `LlmRunner`), the tiers of
  `memory/context-loader.ts`, the run recorder's hashes: nothing in the engine decides by them.
* The glob language and the regular expressions of the policy rules: sets of paths and of lines. The lines
  of violations that `policy-engine.ts` counts (`extractAddedLines`) are not modelled: the
  console only shows them.
* The limits BullMQ puts on a stalled job beyond their number, such as the time until it is found.
* The other pages of the console, the content of the tabs, the lists and cost queries of the API.
* Out of scope: OAuth sessions and HTTP plumbing, the PRD pipeline (no worker calls it), LLM and GitHub
  adapters (stateless wrappers), prompts.

## 8. Plan

1. *done* The engine (`Transition` to `Pipeline`), `StageLedger`, the proofs of section 5.
2. *done* What the jobs make: `Analyses`, `Generation` with `LlmRunner`, `PatchText` with `DiffText`.
3. *done* The services beside the engine: `History`, `Proposals`. The page in front of it: `Console`.
4. *done* Proofs about patch sets and states (`PatchProofs`), about contexts and patch sets' sources
   (`GenerationProofs`), about documents (`AnalysesProofs`) and about the services (`HistoryProofs`,
   `ProposalsProofs`).
5. *done* Proofs about verdicts and pending stages, from their conditions (`PatchProofs`).
6. *done* Proofs about diffs and what is applied, for texts of any length (`PatchTextProofs`).
7. `delete` and a second workflow, for the rows they share.

Running: `tlc -config <run>.cfg <module>` with the module `PROJECT.json` gives for the run, and
`tlapm <module>.tla` for the modules of section 5.
