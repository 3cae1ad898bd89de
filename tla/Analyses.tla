------------------------------- MODULE Analyses -------------------------------
(***************************************************************************)
(* What the four analysis processors make (feasibility-, architecture-,    *)
(* timeline- and summary-analysis.processor.ts) and from what: the earlier *)
(* documents and the client's feedback a job reads when it starts, the two *)
(* calls in which the language model's text becomes a document             *)
(* (zod-schemas.ts), and the task rows of the timeline.  Pipeline has what *)
(* the engine makes of it; here a client's action and its event are one    *)
(* step each, for what happens in between is a matter of that module.      *)
(***************************************************************************)
EXTENDS Integers, SequencesExt, Bags

CONSTANTS
  Replies,        \* Replies[s]: what the model answers to stage s in the checked instance
  AllowFallback,  \* ALLOW_SUMMARY_FALLBACK
  JobAttempts,    \* attempts of LLM_JOB_OPTIONS
  MaxStalledCount,  \* how often BullMQ offers the job of a dead worker again
  Starts,         \* the stages the checked instance begins at
  MaxApprovals, MaxRequests, MaxFaults, MaxCrashes, MaxEvents  \* bounds of the checked instances

Stages == <<"feasibility", "architecture", "timeline", "summary">>
Stage == Range(Stages)
After(s) == IF s = "summary" THEN "patches" ELSE Stages[1 + CHOOSE i \in 1..3 : Stages[i] = s]

\* Mutant: the query asks for the oldest first.
NewestOldest(docs, s) == IF docs[s] = <<>> THEN 0 ELSE 1

(* The artifactVersion a query for the newest document of a kind finds; 0: none *)
Newest(docs, s) == Len(docs[s])

(* The documents that go into the prompt of a stage.                          *)
Reads(s) ==
  CASE s = "feasibility" -> {}
    [] s = "architecture" -> {"feasibility"}
    [] s = "timeline" -> {"architecture"}
    [] s = "summary" -> {"feasibility", "architecture", "timeline"}

(* The prompt of the summary has no section for it.                           *)
TakesFeedback(s) == s # "summary"

-----------------------------------------------------------------------------
(* Texts.  What a text holds: whether it has a JSON object that parses, and   *)
(* whether what the schema asks for is in it; a recommendation; the ids of    *)
(* its tasks and of the tasks of each milestone.  A text may instead put the  *)
(* tasks into phases, for which milestones stands then.  An id is <<>> where  *)
(* the model left it out and <<n>> for the n-th name it uses.                 *)
Id == Seq(Nat)
Text ==
  {text \in [json : BOOLEAN, complete : BOOLEAN, verdict : STRING, nested : BOOLEAN,
             tasks : Seq(Id), milestones : Seq(Seq(Id))] : text.nested => text.tasks = <<>>}
NoText ==
  [json |-> FALSE, complete |-> FALSE, verdict |-> "", nested |-> FALSE,
   tasks |-> <<>>, milestones |-> <<>>]

ASSUME AnalysesAssumption ==
  /\ \A s \in Stage : Replies[s] \subseteq Text
  /\ AllowFallback \in BOOLEAN /\ JobAttempts \in Nat \ {0} /\ MaxStalledCount \in Nat
  /\ Starts \subseteq Stage /\ MaxApprovals \in Nat
  /\ MaxRequests \in Nat /\ MaxFaults \in Nat /\ MaxCrashes \in Nat /\ MaxEvents \in Nat

(* extractJson, sanitizeJson and JSON.parse                                   *)
Readable(text) == text.json

(* The schemas, as far as they tell texts apart                               *)
FeasibilitySchema(text) ==
  text.verdict \in {"proceed", "proceed_with_caution", "needs_clarification", "not_recommended"}
TimelineSchema(text) == text.tasks # <<>>
SummarySchema(text) == text.verdict \in {"proceed", "hold"}

(* safeParseLLMResponse                                                       *)
Valid(s, text) ==
  /\ Readable(text) /\ text.complete
  /\ s = "feasibility" => FeasibilitySchema(text)
  /\ s = "timeline" => TimelineSchema(text)
  /\ s = "summary" => SummarySchema(text)

(* tasksToPhases: a phase for each milestone, one for the tasks of none       *)
Those(ids, keep) == FlattenSeq([i \in DOMAIN ids |-> IF ids[i] \in keep THEN <<ids[i]>> ELSE <<>>])
TasksToPhases(tasks, milestones) ==
  LET known == [m \in DOMAIN milestones |-> Those(milestones[m], Range(tasks))]
      rest == Those(tasks, Range(tasks) \ UNION {Range(known[m]) : m \in DOMAIN known})
  IN IF milestones = <<>> THEN <<tasks>>
     ELSE IF rest = <<>> THEN known ELSE Append(known, rest)

(* The ids of the rows for a timeline: a task without one gets its place.     *)
TaskIds(phases) ==
  FlattenSeq([p \in DOMAIN phases |-> [t \in DOMAIN phases[p] |->
    IF phases[p][t] = <<>> THEN <<p, t>> ELSE phases[p][t]]])

(* What becomes of a text: a recommendation and phases.  planned, which no    *)
(* column holds, is the tasks the text has.                                   *)
Content(text, verdict, phases) ==
  [verdict |-> verdict, phases |-> phases,
   planned |-> Range(text.tasks) \cup (IF text.nested THEN UNION {Range(m) : m \in Range(text.milestones)} ELSE {})]

FeasibilityOf(text) ==
  Content(text, CASE text.verdict = "proceed" -> "proceed"
                  [] text.verdict = "not_recommended" -> "reject"
                  [] OTHER -> "hold", <<>>)
ArchitectureOf(text) == Content(text, "none", <<>>)
TimelineOf(text) == Content(text, "none", TasksToPhases(text.tasks, text.milestones))
SummaryOf(text) == Content(text, text.verdict, <<>>)

Validated(s, text) ==
  CASE s = "feasibility" -> FeasibilityOf(text)
    [] s = "architecture" -> ArchitectureOf(text)
    [] s = "timeline" -> TimelineOf(text)
    [] s = "summary" -> SummaryOf(text)

(* The legacy parsing, which takes what is there: the recommendation as it is *)
(* spelled, phases as they are given, and a timeline without tasks.           *)
LegacyFeasibility(text) == Content(text, IF text.verdict = "" THEN "hold" ELSE text.verdict, <<>>)
LegacyTimeline(text) ==
  Content(text, "none", IF text.nested THEN text.milestones
                        ELSE IF text.tasks # <<>> THEN TasksToPhases(text.tasks, text.milestones)
                        ELSE <<>>)
Legacy(s, text) ==
  CASE s = "feasibility" -> LegacyFeasibility(text)
    [] s = "architecture" -> ArchitectureOf(text)
    [] s = "timeline" -> LegacyTimeline(text)

FallbackSummary == Content(NoText, "hold", <<>>)

-----------------------------------------------------------------------------
VARIABLES
  row,       \* of the Workflow row: stage, status, and the number of the last feedback
  docs,      \* docs[s]: the documents of a stage, by artifactVersion
  tasks,     \* the taskIds of the WorkflowTask rows
  run,       \* run[s]: the status of the newest WorkflowRun row of the stage's job
  jobs,      \* the bag of jobs in the queues
  orders,    \* the bag of events in the orchestrate queue that the engine acts on
  halted,    \* Workflow.state is NEEDS_HUMAN
  worker,    \* locals of each processor
  seen,      \* history: the version of a stage's document when it was approved
  asked,     \* history: the feedback a job of the stage still has to take up; 0: none
  approvals, requests, faults, crashes

histories == <<seen, asked>>
bounds == <<approvals, requests, faults, crashes>>
vars == <<row, docs, tasks, run, jobs, orders, halted, worker, histories, bounds>>

NoContent == Content(NoText, "none", <<>>)
IdleWorker ==
  [pc |-> "idle", left |-> 0, stalls |-> 0, feedback |-> 0, inputs |-> [s \in {} |-> 0],
   text |-> NoText, content |-> NoContent]

JobOf(s, left, stalls) == SetToBag({[stage |-> s, left |-> left, stalls |-> stalls]})
Order(type, s) == SetToBag({[type |-> type, stage |-> s]})

(* The event of the stage is emitted: by create, or by the approval of the    *)
(* stage before.  Each earlier stage has a document, of a text with no more   *)
(* than an object in it.                                                      *)
Earlier(s) == {Stages[i] : i \in 1..(CHOOSE i \in 1..4 : Stages[i] = s) - 1}
Document(content, feedback, inputs) == [content |-> content, feedback |-> feedback, inputs |-> inputs]
EarlierDocument(s) == Document(Legacy(s, NoText), 0, [p \in Reads(s) |-> 1])

Init ==
  /\ \E first \in Starts :
       LET passed == Earlier(first) IN
       /\ row = [stage |-> first, status |-> "pending", feedback |-> 0]
       /\ docs = [s \in Stage |-> IF s \in passed THEN <<EarlierDocument(s)>> ELSE <<>>]
       /\ run = [s \in Stage |-> IF s \in passed THEN "completed" ELSE "none"]
       /\ seen = [s \in Stage |-> IF s \in passed THEN 1 ELSE 0]
       /\ orders = Order("run", first)
  /\ tasks = <<>> /\ jobs = EmptyBag /\ halted = FALSE
  /\ worker = [s \in Stage |-> IdleWorker]
  /\ asked = [s \in Stage |-> 0]
  /\ approvals = 0 /\ requests = 0 /\ faults = 0 /\ crashes = 0

Events == requests + faults + crashes

-----------------------------------------------------------------------------
(* The client *)

ApproveStage ==
  /\ row.stage \in Stage /\ row.status = "ready"
  /\ approvals < MaxApprovals /\ approvals' = approvals + 1
  /\ row' = [row EXCEPT !.stage = After(row.stage), !.status = "pending"]
  /\ orders' = orders (+) (IF row.stage = "summary" THEN EmptyBag ELSE Order("run", After(row.stage)))
  /\ seen' = [seen EXCEPT ![row.stage] = Len(docs[row.stage])]
  /\ UNCHANGED <<docs, tasks, run, jobs, halted, worker, asked, requests, faults, crashes>>

Requested ==
  /\ row.stage \in Stage /\ requests < MaxRequests /\ Events < MaxEvents
  /\ requests' = requests + 1 /\ orders' = orders (+) Order("run", row.stage)
  /\ UNCHANGED <<docs, tasks, run, jobs, halted, worker, seen, approvals, faults, crashes>>

(* At any status, also while a job of the stage runs.                         *)
RequestStageChanges ==
  /\ Requested
  /\ row' = [row EXCEPT !.status = "needs_changes", !.feedback = requests']
  /\ asked' = [asked EXCEPT ![row.stage] = requests']

RetryStage ==
  /\ row.status \in {"ready", "needs_changes", "blocked"}
  /\ Requested /\ row' = [row EXCEPT !.status = "pending"] /\ UNCHANGED asked

-----------------------------------------------------------------------------
(* The engine: an approval, a request for changes and a retry enqueue the job *)
(* of their stage, until a failed job has halted the workflow.                *)

\* Mutant: no second job for a stage whose job runs.
OrchestrateUnlessRunning ==
  \E o \in BagToSet(orders) :
    /\ orders' = orders (-) SetToBag({o})
    /\ halted' = (halted \/ o.type = "failed")
    /\ jobs' = IF halted \/ o.type = "failed" \/ worker[o.stage].pc # "idle" THEN jobs
               ELSE jobs (+) JobOf(o.stage, JobAttempts, 0)
    /\ UNCHANGED <<row, docs, tasks, run, worker, histories, bounds>>

Orchestrate ==
  \E o \in BagToSet(orders) :
    /\ orders' = orders (-) SetToBag({o})
    /\ halted' = (halted \/ o.type = "failed")
    /\ jobs' = IF halted \/ o.type = "failed" THEN jobs ELSE jobs (+) JobOf(o.stage, JobAttempts, 0)
    /\ UNCHANGED <<row, docs, tasks, run, worker, histories, bounds>>

-----------------------------------------------------------------------------
(* A processor.  Each queue's jobs run one at a time, in any order, since a   *)
(* retried one waits its backoff.                                             *)

At(s, pc) == worker[s].pc = pc
Moves(s, locals) == worker' = [worker EXCEPT ![s] = locals]
Goto(s, pc) == [worker[s] EXCEPT !.pc = pc]
OnlyMoves(s, locals) ==
  Moves(s, locals) /\ UNCHANGED <<row, docs, tasks, run, jobs, orders, halted, histories, bounds>>

(* The first query reads the row and the documents; nothing reads them again. *)
TakeJob(s) ==
  /\ At(s, "idle")
  /\ \E j \in BagToSet(jobs) :
       /\ j.stage = s /\ jobs' = jobs (-) SetToBag({j})
       /\ Moves(s, [IdleWorker EXCEPT !.pc = "start", !.left = j.left, !.stalls = j.stalls,
                      !.feedback = IF TakesFeedback(s) THEN row.feedback ELSE 0,
                      !.inputs = [p \in Reads(s) |-> Newest(docs, p)]])
  /\ UNCHANGED <<row, docs, tasks, run, orders, halted, histories, bounds>>

StartRun(s) ==
  /\ At(s, "start") /\ run' = [run EXCEPT ![s] = "running"] /\ Moves(s, Goto(s, "begin"))
  /\ UNCHANGED <<row, docs, tasks, jobs, orders, halted, histories, bounds>>

(* Whatever stage the workflow is at.                                         *)
WriteStatus(s, from, status, to) ==
  /\ At(s, from) /\ row' = [row EXCEPT !.status = status] /\ Moves(s, Goto(s, to))
  /\ UNCHANGED <<docs, tasks, run, jobs, orders, halted, histories, bounds>>

BeginAnalysis(s) == WriteStatus(s, "begin", "processing", "ask")

WithContent(s, content) ==
  [worker[s] EXCEPT !.content = content, !.text = NoText,
                    !.pc = IF s = "timeline" THEN "deleteTasks" ELSE "save"]

(* llmRunner.run; where it gives no text, CallFails                           *)
Ask(s) ==
  /\ At(s, "ask")
  /\ \E text \in Replies[s] :
       OnlyMoves(s, IF Valid(s, text) THEN WithContent(s, Validated(s, text))
                    ELSE [Goto(s, "askAgain") EXCEPT !.text = text])

(* With the errors of the first text: its text is parsed or, where that is    *)
(* not valid, read for what it has; where the call fails, the first text is.  *)
Rescued(s, text) ==
  IF Readable(text) THEN WithContent(s, Legacy(s, text)) ELSE Goto(s, "caught")

AskAgain(s) ==
  /\ At(s, "askAgain") /\ s # "summary"
  /\ \E text \in Replies[s] :
       OnlyMoves(s, IF Valid(s, text) THEN WithContent(s, Validated(s, text)) ELSE Rescued(s, text))

AskSummaryAgain ==
  LET s == "summary" IN
  /\ At(s, "askAgain")
  /\ \E text \in Replies[s] :
       OnlyMoves(s, IF Valid(s, text) THEN WithContent(s, Validated(s, text))
                    ELSE IF AllowFallback THEN WithContent(s, FallbackSummary)
                    ELSE Goto(s, "caught"))

(* saveTasks: two statements, and a unique key over the ids in the second.    *)
\* Mutant: the old rows stay.
DeleteTasksNot(s) ==
  /\ At(s, "deleteTasks") /\ Moves(s, Goto(s, "createTasks"))
  /\ UNCHANGED <<row, docs, tasks, run, jobs, orders, halted, histories, bounds>>

DeleteTasks(s) ==
  /\ At(s, "deleteTasks") /\ tasks' = <<>> /\ Moves(s, Goto(s, "createTasks"))
  /\ UNCHANGED <<row, docs, run, jobs, orders, halted, histories, bounds>>

CreateTasks(s) ==
  /\ At(s, "createTasks")
  /\ LET all == tasks \o TaskIds(worker[s].content.phases)
     IN IF IsInjective(all) THEN tasks' = all /\ Moves(s, Goto(s, "save"))
        ELSE UNCHANGED tasks /\ Moves(s, Goto(s, "caught"))
  /\ UNCHANGED <<row, docs, run, jobs, orders, halted, histories, bounds>>

(* The next version, which supersedes the newest.                             *)
SaveArtifact(s) ==
  /\ At(s, "save")
  /\ docs' = [docs EXCEPT ![s] = Append(@,
       Document(worker[s].content, worker[s].feedback, worker[s].inputs))]
  /\ Moves(s, Goto(s, "ready"))
  /\ UNCHANGED <<row, tasks, run, jobs, orders, halted, histories, bounds>>

\* Mutant: the status is written only where the workflow is at the stage.
AnalysisReadyOfItsStage(s) ==
  /\ At(s, "ready") /\ Moves(s, Goto(s, "complete"))
  /\ row' = IF row.stage = s THEN [row EXCEPT !.status = "ready"] ELSE row
  /\ UNCHANGED <<docs, tasks, run, jobs, orders, halted, histories, bounds>>

AnalysisReady(s) == WriteStatus(s, "ready", "ready", "complete")

CompleteRun(s) ==
  /\ At(s, "complete") /\ run' = [run EXCEPT ![s] = "completed"] /\ Moves(s, Goto(s, "emit"))
  /\ UNCHANGED <<row, docs, tasks, jobs, orders, halted, histories, bounds>>

(* The engine does nothing with E_JOB_COMPLETED of an analysis.               *)
Completed(s) == At(s, "emit") /\ OnlyMoves(s, IdleWorker)

(* catch                                                                      *)
AnalysisCaught(s) == WriteStatus(s, "caught", "blocked", "failRun")

FailRun(s) ==
  /\ At(s, "failRun") /\ run' = [run EXCEPT ![s] = "failed"] /\ Moves(s, Goto(s, "failed"))
  /\ UNCHANGED <<row, docs, tasks, jobs, orders, halted, histories, bounds>>

(* A job that is not done waits for its next attempt, or is dropped.          *)
OfferAgain(s, left, stalls) == jobs' = jobs (+) JobOf(s, left, stalls) /\ UNCHANGED asked
Drop(s) == asked' = [asked EXCEPT ![s] = 0] /\ UNCHANGED jobs

(* The processor throws, with its event or before it.                         *)
Throws(s) ==
  /\ Moves(s, IdleWorker)
  /\ IF worker[s].left > 1 THEN OfferAgain(s, worker[s].left - 1, worker[s].stalls) ELSE Drop(s)

Failed(s) ==
  /\ At(s, "failed") /\ Throws(s) /\ orders' = orders (+) Order("failed", s)
  /\ UNCHANGED <<row, docs, tasks, run, halted, seen, bounds>>

(* A query, or the add to the queue, throws: inside the try block, or outside *)
(* and in the catch block, where nothing catches it.                          *)
TryPc == {"begin", "ask", "deleteTasks", "createTasks", "save", "ready", "complete", "emit"}
OpenPc == {"start", "caught", "failRun", "failed"}

Fault == faults < MaxFaults /\ Events < MaxEvents /\ faults' = faults + 1 /\ UNCHANGED <<approvals, requests, crashes>>

CallFails(s) ==
  /\ worker[s].pc \in TryPc \/ (s = "summary" /\ At(s, "askAgain"))
  /\ Fault /\ Moves(s, Goto(s, "caught"))
  /\ UNCHANGED <<row, docs, tasks, run, jobs, orders, halted, histories>>

(* The second call gives no text: the first one's will do, but for a summary. *)
NoSecondText(s) ==
  /\ At(s, "askAgain") /\ s # "summary" /\ Fault
  /\ Moves(s, Rescued(s, worker[s].text))
  /\ UNCHANGED <<row, docs, tasks, run, jobs, orders, halted, histories>>

CallFailsOutside(s) ==
  /\ worker[s].pc \in OpenPc /\ Fault /\ Throws(s)
  /\ UNCHANGED <<row, docs, tasks, run, orders, halted, seen>>

(* The worker dies: BullMQ finds the job stalled and offers it again with the *)
(* same attempts, or drops it where it stalled too often.                     *)
Crash(s) ==
  /\ ~ At(s, "idle") /\ crashes < MaxCrashes /\ Events < MaxEvents /\ crashes' = crashes + 1
  /\ Moves(s, IdleWorker)
  /\ IF worker[s].stalls < MaxStalledCount
       THEN OfferAgain(s, worker[s].left, worker[s].stalls + 1) ELSE Drop(s)
  /\ UNCHANGED <<row, docs, tasks, run, orders, halted, seen, approvals, requests, faults>>

-----------------------------------------------------------------------------
Client == ApproveStage \/ RequestStageChanges \/ RetryStage

Works(s) ==
  \/ TakeJob(s) \/ StartRun(s) \/ BeginAnalysis(s)
  \/ Ask(s) \/ AskAgain(s) \/ (s = "summary" /\ AskSummaryAgain)
  \/ DeleteTasks(s) \/ CreateTasks(s) \/ SaveArtifact(s)
  \/ AnalysisReady(s) \/ CompleteRun(s) \/ Completed(s)
  \/ AnalysisCaught(s) \/ FailRun(s) \/ Failed(s)

Fails(s) == CallFails(s) \/ NoSecondText(s) \/ CallFailsOutside(s) \/ Crash(s)

Next == Client \/ Orchestrate \/ \E s \in Stage : Works(s) \/ Fails(s)

Spec == Init /\ [][Next]_vars

-----------------------------------------------------------------------------
(* "for structured tracking" (timeline-analysis.processor.ts:445): where the   *)
(* newest run of the timeline completed, the task rows are those of the newest *)
(* timeline and hold every task of the text it was made from, whatever attempt *)
(* failed between the deletion, the creation and the document.                 *)
TasksMatchTimeline ==
  run["timeline"] = "completed" =>
    LET newest == Last(docs["timeline"]).content
    IN /\ tasks = TaskIds(newest.phases)
       /\ newest.planned \ {<<>>} \subseteq Range(tasks)

(* "Previous Feedback (address these concerns)": once nothing is left to run   *)
(* for a stage, its newest document was written with the last feedback the     *)
(* client gave at the stage, also where it was given while a job was running;  *)
(* unless a job was given up, or the stage is the summary.                     *)
Quiet(s) ==
  /\ At(s, "idle") /\ \A j \in BagToSet(jobs) : j.stage # s
  /\ \A o \in BagToSet(orders) : ~ (o.type = "run" /\ o.stage = s)

FeedbackIsHeeded ==
  \A s \in Stage : (TakesFeedback(s) /\ asked[s] # 0 /\ Quiet(s) /\ ~ halted) =>
    docs[s] # <<>> /\ Last(docs[s]).feedback >= asked[s]

(* A document is never made from an older document of an earlier stage than    *)
(* the one the client approved, however often that stage was run before.       *)
BuiltOnApproved ==
  \A s \in Stage : \A d \in Range(docs[s]) : \A p \in DOMAIN d.inputs : d.inputs[p] >= seen[p]

(* When nothing is left to run, the stage is at a status from which a client   *)
(* can go on and a retry is taken, whatever job of whatever stage wrote it     *)
(* last; unless the engine has halted, each attempt of a job met a call that   *)
(* fails, or a job stalled more often than BullMQ allows.                      *)
RestIsAnswered ==
  (row.stage \in Stage /\ orders = EmptyBag /\ \A s \in Stage : Quiet(s)) =>
    row.status \in {"ready", "blocked"} \/ halted \/ faults >= JobAttempts \/ crashes > MaxStalledCount
===============================================================================
