------------------------------ MODULE Generation ------------------------------
(***************************************************************************)
(* How patches are made while the repositories move: the stored context of *)
(* a repository and the job that refreshes it (repos.service.ts,           *)
(* refresh-context.processor.ts), and the two passes in which the ingest   *)
(* job turns a plan of the language model into a patch set per repository  *)
(* (ingest-context.processor.ts).  Each processor runs one job at a time;  *)
(* the branches move, calls fail and processes die in between.             *)
(***************************************************************************)
EXTENDS LlmRunner, SequencesExt

CONSTANTS
  Repos,          \* the workflow's repositories, in order; the first is primary
  ContextAt,      \* ContextAt[r]: the commits of r that have a context file
  Replies,        \* what the providers answer in the checked instance
  AllowFallback,  \* ALLOW_PATCH_FALLBACK
  JobAttempts,    \* attempts of an ingest job, LLM_JOB_OPTIONS; a refresh job has one
  MaxStalledCount,  \* how often BullMQ offers the job of a dead worker again
  MaxPushes, MaxRequests, MaxFaults, MaxCrashes, MaxEvents  \* bounds of the checked instances

RepoSet == Range(Repos)

ASSUME GenerationAssumption ==
  /\ Repos \in Seq(STRING) /\ Repos # <<>> /\ IsInjective(Repos)
  /\ ContextAt \in [RepoSet -> SUBSET Nat]
  /\ Replies \subseteq Reply /\ AllowFallback \in BOOLEAN
  /\ JobAttempts \in Nat \ {0} /\ MaxStalledCount \in Nat
  /\ MaxPushes \in Nat /\ MaxRequests \in Nat /\ MaxFaults \in Nat /\ MaxCrashes \in Nat /\ MaxEvents \in Nat

VARIABLES
  heads,     \* heads[r]: the number of the commit at the head of r's branch
  context,   \* context[r]: the RepoContext row, or NoRow
  jobs,      \* refresh jobs waiting; seen is the head when the job was asked for
  refresh,   \* locals of the refresh processor
  ingest,    \* locals of the ingest processor
  sets,      \* the PatchSet rows, oldest first
  workflowBase,  \* Workflow.baseSha
  pushes, requests, faults, crashes

vars == <<heads, context, jobs, refresh, ingest, sets, workflowBase, pushes, requests, faults, crashes>>

None == 0   \* commits count from 1
NoRow == [sha |-> None, path |-> "none", content |-> None, summary |-> None, stale |-> FALSE]
NoJob == [id |-> 0, repo |-> Repos[1], stalls |-> 0, seen |-> None]

IdleRefresh ==
  [pc |-> "idle", job |-> NoJob, sha |-> None, path |-> "none",
   content |-> None, summary |-> None, call |-> NewCall]
NewIngest(left, stalls) ==
  [pc |-> "waiting", left |-> left, stalls |-> stalls, repo |-> 1, sha |-> None, contextSha |-> None,
   guide |-> None, files |-> None, diff |-> "none", call |-> NewCall]

Init ==
  /\ heads = [r \in RepoSet |-> 1] /\ context = [r \in RepoSet |-> NoRow]
  /\ jobs = {} /\ refresh = IdleRefresh
  /\ ingest = NewIngest(JobAttempts, 0) /\ sets = <<>> /\ workflowBase = None
  /\ pushes = 0 /\ requests = 0 /\ faults = 0 /\ crashes = 0

Events == pushes + requests + faults + crashes

(* Somebody pushes to a branch.                                               *)
Push(r) ==
  /\ pushes < MaxPushes /\ Events < MaxEvents
  /\ heads' = [heads EXCEPT ![r] = @ + 1] /\ pushes' = pushes + 1
  /\ UNCHANGED <<context, jobs, refresh, ingest, sets, workflowBase, requests, faults, crashes>>

(* The call a step makes fails, or does not.                                  *)
Fault == faults < MaxFaults /\ Events < MaxEvents /\ faults' = faults + 1
NoFault == UNCHANGED faults

-----------------------------------------------------------------------------
(* The refresh of a repository's context *)

(* ReposService.refreshContext.  The API's queue has no job options.           *)
RequestRefresh(r) ==
  /\ requests < MaxRequests /\ Events < MaxEvents
  /\ requests' = requests + 1
  /\ jobs' = jobs \cup {[id |-> requests', repo |-> r, stalls |-> 0, seen |-> heads[r]]}
  /\ UNCHANGED <<heads, context, refresh, ingest, sets, workflowBase, pushes, faults, crashes>>

TakeRefresh ==
  /\ refresh.pc = "idle"
  /\ \E j \in jobs :
       /\ refresh' = [IdleRefresh EXCEPT !.pc = "branch", !.job = j]
       /\ jobs' = jobs \ {j}
  /\ UNCHANGED context /\ NoFault

Locals(changes) == refresh' = changes /\ UNCHANGED <<context, jobs>>
RefreshRepo == refresh.job.repo
RefreshGoto(pc) == [refresh EXCEPT !.pc = pc, !.call = NewCall]

\* Mutant: the commit is the one the job was asked for with.
ReadBranchOfRequest ==
  /\ refresh.pc = "branch"
  /\ \/ NoFault /\ Locals([RefreshGoto("file") EXCEPT !.sha = refresh.job.seen])
     \/ Fault /\ Locals(RefreshGoto("caught"))

ReadBranch ==
  /\ refresh.pc = "branch"
  /\ \/ NoFault /\ Locals([RefreshGoto("file") EXCEPT !.sha = heads[RefreshRepo]])
     \/ Fault /\ Locals(RefreshGoto("caught"))

(* The context files in turn: one that cannot be read counts as absent.       *)
ReadContextFile ==
  /\ refresh.pc = "file"
  /\ \/ /\ NoFault /\ refresh.sha \in ContextAt[RefreshRepo]
        /\ Locals([RefreshGoto("summary") EXCEPT !.content = refresh.sha, !.path = "file"])
     \/ /\ IF refresh.sha \in ContextAt[RefreshRepo] THEN Fault ELSE NoFault
        /\ Locals(RefreshGoto("tree"))

(* Without a file one is generated from the tree, unless that cannot be read. *)
ReadTree ==
  /\ refresh.pc = "tree"
  /\ \/ NoFault /\ Locals(RefreshGoto("document"))
     \/ Fault /\ Locals(RefreshGoto("upsert"))

(* What the reply makes of the call; a run that gave nothing leaves the       *)
(* content, or the summary, empty.                                            *)
Answered(call) == {Attempted(call, reply) : reply \in Replies}

AfterDocument(call) ==
  IF HasContent(call)
    THEN [RefreshGoto("summary") EXCEPT !.content = refresh.sha, !.path = "generated"]
  ELSE RefreshGoto("upsert")

WriteDocument ==
  /\ refresh.pc = "document" /\ NoFault
  /\ \E call \in Answered(refresh.call) :
       Locals(IF call.pc = "running" THEN [refresh EXCEPT !.call = call] ELSE AfterDocument(call))

AfterSummary(call) ==
  [RefreshGoto("upsert") EXCEPT !.summary = IF HasContent(call) THEN refresh.sha ELSE None]

Summarize ==
  /\ refresh.pc = "summary" /\ NoFault
  /\ \E call \in Answered(refresh.call) :
       Locals(IF call.pc = "running" THEN [refresh EXCEPT !.call = call] ELSE AfterSummary(call))

\* Mutant: a summary that was not made leaves the one before.
UpsertedKeepingSummary(row) ==
  [sha |-> refresh.sha, content |-> refresh.content,
   summary |-> IF refresh.summary = None THEN row.summary ELSE refresh.summary,
   path |-> IF refresh.path # "none" THEN refresh.path
            ELSE IF row = NoRow THEN "default" ELSE row.path,
   stale |-> FALSE]

(* The path of a context that was not found is that of the one before.        *)
Upserted(row) ==
  [sha |-> refresh.sha, content |-> refresh.content, summary |-> refresh.summary,
   path |-> IF refresh.path # "none" THEN refresh.path
            ELSE IF row = NoRow THEN "default" ELSE row.path,
   stale |-> FALSE]

UpsertContext ==
  /\ refresh.pc = "upsert"
  /\ \/ /\ NoFault
        /\ context' = [context EXCEPT ![RefreshRepo] = Upserted(@)]
        /\ refresh' = RefreshGoto("event") /\ UNCHANGED jobs
     \/ Fault /\ Locals(RefreshGoto("caught"))

(* context.refreshed or context.missing                                       *)
RefreshedEvent ==
  /\ refresh.pc = "event"
  /\ \/ NoFault /\ Locals(IdleRefresh)
     \/ Fault /\ Locals(RefreshGoto("caught"))

\* Mutant: the row stays as it is.
RefreshCaughtKeepingRow == refresh.pc = "caught" /\ NoFault /\ Locals(IdleRefresh)

(* The catch block: stale if there is a row.  The job had one attempt.         *)
RefreshCaught ==
  /\ refresh.pc = "caught" /\ refresh' = IdleRefresh /\ UNCHANGED jobs
  /\ LET row == context[RefreshRepo]
     IN \/ /\ NoFault
           /\ context' = IF row = NoRow THEN context ELSE [context EXCEPT ![RefreshRepo].stale = TRUE]
        \/ Fault /\ row # NoRow /\ UNCHANGED context

(* The process dies: the stalled job is offered again, but not too often.      *)
Crashes == crashes < MaxCrashes /\ Events < MaxEvents /\ crashes' = crashes + 1
RefreshCrash ==
  /\ refresh.pc # "idle" /\ Crashes
  /\ jobs' = IF refresh.job.stalls < MaxStalledCount
               THEN jobs \cup {[refresh.job EXCEPT !.stalls = @ + 1]} ELSE jobs
  /\ refresh' = IdleRefresh
  /\ UNCHANGED <<heads, context, ingest, sets, workflowBase, pushes, requests, faults>>

RefreshContext ==
  /\ \/ TakeRefresh \/ ReadBranch \/ ReadContextFile \/ ReadTree \/ WriteDocument
     \/ Summarize \/ UpsertContext \/ RefreshedEvent \/ RefreshCaught
  /\ UNCHANGED <<heads, ingest, sets, workflowBase, pushes, requests, crashes>>

-----------------------------------------------------------------------------
(* The ingest job *)

IngestRepo == Repos[ingest.repo]
IngestGoto(pc) == [ingest EXCEPT !.pc = pc, !.call = NewCall]
Becomes(changes) == ingest' = changes /\ UNCHANGED <<sets, workflowBase>>
OrCaught(step) == (NoFault /\ step) \/ (Fault /\ Becomes(IngestGoto("caught")))

Restarted == NewIngest(ingest.left, ingest.stalls)

TakeIngest ==
  ingest.pc = "waiting" /\ NoFault /\ Becomes([Restarted EXCEPT !.pc = "branch"])

(* fetchRepoContext: the head of the branch, then the stored context, which   *)
(* is used unless it is stale or cannot be read.                              *)
IngestReadBranch ==
  /\ ingest.pc = "branch"
  /\ OrCaught(Becomes([IngestGoto("context") EXCEPT !.sha = heads[IngestRepo]]))

IngestReadContext ==
  /\ ingest.pc = "context"
  /\ LET row == context[IngestRepo]
     IN IF row # NoRow /\ ~ row.stale
          THEN \/ NoFault /\ Becomes([IngestGoto("base") EXCEPT !.contextSha = row.sha, !.guide = row.summary])
               \/ Fault /\ Becomes(IngestGoto("base"))
        ELSE NoFault /\ Becomes(IngestGoto("base"))

(* workflowRepo.updateMany, fetchApprovedArtifacts                            *)
IngestRecordBase == ingest.pc = "base" /\ OrCaught(Becomes(IngestGoto("plan")))

Accepted(call) == HasContent(call) /\ call.text = "good"
Asking(call) == [ingest EXCEPT !.call = call]

(* "Block progression if LLM didn't produce a usable diff"                    *)
Finish(diff) ==
  IF diff = "changes" THEN [IngestGoto("set") EXCEPT !.diff = diff]
  ELSE IF AllowFallback THEN [IngestGoto("set") EXCEPT !.diff = "stub"]
  ELSE IngestGoto("caught")

NoFallback == IF AllowFallback THEN Finish("none") ELSE IngestGoto("caught")

(* Pass 1 plans the files; an answer that is no plan is asked for once more.  *)
AfterPlan(call) ==
  IF Accepted(call) THEN IngestGoto("fetch")
  ELSE IF HasContent(call) THEN IngestGoto("planAgain")
  ELSE Finish("none")

PlanFiles ==
  /\ ingest.pc = "plan" /\ NoFault
  /\ \E call \in Answered(ingest.call) :
       Becomes(IF call.pc = "running" THEN Asking(call) ELSE AfterPlan(call))

\* Mutant: asked for until it is a plan.
AfterSecondPlanAsk(call) == IF Accepted(call) THEN IngestGoto("fetch") ELSE IngestGoto("planAgain")

AfterSecondPlan(call) == IF Accepted(call) THEN IngestGoto("fetch") ELSE NoFallback

PlanFilesAgain ==
  /\ ingest.pc = "planAgain" /\ NoFault
  /\ \E call \in Answered(ingest.call) :
       Becomes(IF call.pc = "running" THEN Asking(call) ELSE AfterSecondPlan(call))

\* Mutant: the files are read from the branch.
FetchFilesOfBranch ==
  /\ ingest.pc = "fetch"
  /\ \/ NoFault /\ Becomes([IngestGoto("change") EXCEPT !.files = heads[IngestRepo]])
     \/ Fault /\ Becomes(IngestGoto("change"))

(* fetchSelectedFiles, all of the plan's files or none.                       *)
FetchFiles ==
  /\ ingest.pc = "fetch"
  /\ \/ NoFault /\ Becomes([IngestGoto("change") EXCEPT !.files = ingest.sha])
     \/ Fault /\ Becomes(IngestGoto("change"))

(* The changes become a diff, unless each is skipped (the files were not read,*)
(* say) or each failed to be replaced.                                        *)
Diffed == {Finish("changes"), Finish("none"), NoFallback}

(* Pass 2 asks for the changes, and once more like pass 1.                    *)
AfterChanges(call) ==
  IF Accepted(call) THEN Diffed
  ELSE IF HasContent(call) THEN {IngestGoto("changeAgain")}
  ELSE {Finish("none")}

MakeChanges ==
  /\ ingest.pc = "change" /\ NoFault
  /\ \E call \in Answered(ingest.call) :
       \E next \in (IF call.pc = "running" THEN {Asking(call)} ELSE AfterChanges(call)) : Becomes(next)

AfterSecondChanges(call) == IF Accepted(call) THEN Diffed ELSE {NoFallback}

MakeChangesAgain ==
  /\ ingest.pc = "changeAgain" /\ NoFault
  /\ \E call \in Answered(ingest.call) :
       \E next \in (IF call.pc = "running" THEN {Asking(call)} ELSE AfterSecondChanges(call)) : Becomes(next)

PatchSetRow(contextSha) ==
  [repo |-> IngestRepo, baseSha |-> ingest.sha, contextSha |-> contextSha, guide |-> ingest.guide,
   files |-> ingest.files, diff |-> ingest.diff, patch |-> FALSE]

CreatePatchSet ==
  /\ ingest.pc = "set"
  /\ OrCaught(/\ sets' = Append(sets, PatchSetRow(ingest.contextSha))
              /\ ingest' = IngestGoto("patch") /\ UNCHANGED workflowBase)

CreatePatch ==
  /\ ingest.pc = "patch"
  /\ OrCaught(/\ sets' = [sets EXCEPT ![Len(sets)].patch = TRUE]
              /\ ingest' = IngestGoto("event") /\ UNCHANGED workflowBase)

(* worker.ingest_context.repo_completed, and on to the next repository        *)
RepoCompleted ==
  /\ ingest.pc = "event"
  /\ OrCaught(Becomes(
       IF ingest.repo = Len(Repos) THEN IngestGoto("primary")
       ELSE [Restarted EXCEPT !.pc = "branch", !.repo = ingest.repo + 1]))

(* The primary's branch is read again for Workflow.baseSha.                   *)
IngestCompleted ==
  /\ ingest.pc = "primary"
  /\ OrCaught(/\ workflowBase' = heads[Repos[1]]
              /\ ingest' = [Restarted EXCEPT !.pc = "completed"] /\ UNCHANGED sets)

(* The catch block, and the queue.                                            *)
IngestCaught ==
  /\ ingest.pc = "caught" /\ NoFault
  /\ Becomes(IF ingest.left > 1 THEN NewIngest(ingest.left - 1, ingest.stalls) ELSE IngestGoto("failed"))

IngestCrash ==
  /\ ingest.pc \notin {"waiting", "completed", "failed"}
  /\ Crashes
  /\ ingest' = IF ingest.stalls < MaxStalledCount THEN NewIngest(ingest.left, ingest.stalls + 1)
                ELSE IngestGoto("failed")
  /\ UNCHANGED <<heads, context, jobs, refresh, sets, workflowBase, pushes, requests, faults>>

IngestContext ==
  /\ \/ TakeIngest \/ IngestReadBranch \/ IngestReadContext \/ IngestRecordBase \/ PlanFiles
     \/ PlanFilesAgain \/ FetchFiles \/ MakeChanges \/ MakeChangesAgain \/ CreatePatchSet \/ CreatePatch \/ RepoCompleted \/ IngestCompleted \/ IngestCaught
  /\ UNCHANGED <<heads, context, jobs, refresh, pushes, requests, crashes>>

Next ==
  \/ \E r \in RepoSet : Push(r) \/ RequestRefresh(r)
  \/ RefreshContext \/ RefreshCrash
  \/ IngestContext \/ IngestCrash

Spec == Init /\ [][Next]_vars

(* The workers run; nobody has to push or to ask.                             *)
FairSpec == Spec /\ WF_vars(RefreshContext) /\ WF_vars(IngestContext)

-----------------------------------------------------------------------------
Commit == 1..(MaxPushes + 1)

(* schema.prisma, RepoContext.baseSha, "SHA when context was fetched": what a *)
(* row says about the repository is from the commit it names, whatever moved, *)
(* failed or was run again while it was made.                                 *)
ContextIsOfItsCommit ==
  \A r \in RepoSet :
    /\ context[r].content \in {None, context[r].sha}
    /\ context[r].summary \in {None, context[r].content}

(* A refresh never takes a stored context back to an older commit, in         *)
(* whatever order requests, retries and redeliveries run.                     *)
ContextNeverOlder ==
  [][\A r \in RepoSet : context'[r].sha >= context[r].sha]_vars

(* A patch set says what it was made of: its files are those of its base       *)
(* commit, to which the sandbox and the pull request apply it, wherever the    *)
(* branch is by then, and the context that guided the model is the one it      *)
(* names ("context audit trail", ingest-context.processor.ts:163), although    *)
(* that may be refreshed meanwhile.                                            *)
SetNamesItsSources ==
  \A i \in DOMAIN sets :
    sets[i].files \in {None, sets[i].baseSha} /\ sets[i].guide \in {None, sets[i].contextSha}

(* A context asked for comes to be stored and fresh, no older than the branch  *)
(* was then, unless its one attempt fails or it stalled more often than BullMQ *)
(* allows; and where an attempt fails, the row that stays comes to be marked   *)
(* stale ("Mark as stale if exists", refresh-context.processor.ts:292), so     *)
(* that no later ingest job takes it for fresh, unless that call fails too or  *)
(* a process dies, whose job begins again.                                     *)
Stored(r, c) == context[r].sha >= c /\ ~ context[r].stale
Failing(r) == refresh.pc = "caught" /\ refresh.job.repo = r
RefreshTakesHold ==
  \A r \in RepoSet :
    /\ \A c \in Commit :
         (\E j \in jobs : j.repo = r /\ j.seen = c)
           ~> (Stored(r, c) \/ (Failing(r) /\ refresh.job.seen = c) \/ crashes > MaxStalledCount)
    /\ Failing(r) ~> (context[r] = NoRow \/ context[r].stale \/ faults > 1 \/ crashes > 0)

(* The retries of the runner, of the two passes and of the queue end.         *)
IngestEnds == <>(ingest.pc \in {"completed", "failed"})
=============================================================================
