---------------------------- MODULE AnalysesProofs ----------------------------
(***************************************************************************)
(* For every reply of the language model, every number of approvals,       *)
(* requests, failures and crashes, every number of attempts and of stalls  *)
(* that BullMQ forgives a job: documents are built on what was approved,   *)
(* feedback is taken up, a workflow at rest can be taken further, and the  *)
(* task rows are those of the timeline.                                    *)
(***************************************************************************)
EXTENDS Analyses, SequenceTheorems, WellFoundedInduction, TLAPS

(* What can stand in a document, in a worker, and in a queue                  *)
Texts == Text \cup {NoText}
Contents ==
  {NoContent, FallbackSummary} \cup {Validated(s, text) : s \in Stage, text \in Texts}
  \cup {Legacy(s, text) : s \in Stage, text \in Texts}
InputSet == UNION {[T -> Nat] : T \in SUBSET Stage}
DocumentRecord == [content : Contents, feedback : Nat, inputs : InputSet]
WorkerPc == TryPc \cup OpenPc \cup {"idle", "askAgain"}
WorkerRecord ==
  [pc : WorkerPc, left : Nat, stalls : Nat, feedback : Nat, inputs : InputSet, text : Texts, content : Contents]
Status == {"pending", "needs_changes", "processing", "ready", "blocked"}
RowRecord == [stage : Stage \cup {"patches"}, status : Status, feedback : Nat]
Job == [stage : Stage, left : Nat, stalls : Nat]
OrderRecord == [type : {"run", "failed"}, stage : Stage]
Jobs == BagToSet(jobs)
Orders == BagToSet(orders)

QueuesTyped == IsABag(jobs) /\ Jobs \subseteq Job /\ IsABag(orders) /\ Orders \subseteq OrderRecord
TypeOK ==
  /\ row \in RowRecord /\ docs \in [Stage -> Seq(DocumentRecord)]
  /\ worker \in [Stage -> WorkerRecord] /\ QueuesTyped /\ halted \in BOOLEAN
  /\ run \in [Stage -> {"none", "running", "completed", "failed"}]
  /\ seen \in [Stage -> Nat] /\ asked \in [Stage -> Nat]
  /\ requests \in Nat /\ faults \in Nat /\ crashes \in Nat

-----------------------------------------------------------------------------
(* The inductive invariant *)

(* What is under way for a stage                                              *)
Idle(s) == At(s, "idle")
Queued(s) == \E j \in Jobs : j.stage = s
Ordered(s) == \E o \in Orders : o.type = "run" /\ o.stage = s

(* The stages after the one the workflow is at are untouched: what a document *)
(* of theirs is made from was approved before any of them began.              *)
Beyond(s) ==
  CASE s = "feasibility" -> {"architecture", "timeline", "summary"}
    [] s = "architecture" -> {"timeline", "summary"}
    [] s = "timeline" -> {"summary"}
    [] OTHER -> {}
BeyondIsUntouched ==
  \A s \in Beyond(row.stage) : docs[s] = <<>> /\ Idle(s) /\ ~ Queued(s) /\ ~ Ordered(s)

(* A job reads documents that are at least as new as the approved ones.       *)
SeenExists == \A s \in Stage : seen[s] <= Len(docs[s])
JobReadsApproved ==
  \A s \in Stage : ~ Idle(s) =>
    DOMAIN worker[s].inputs = Reads(s) /\ \A p \in Reads(s) : worker[s].inputs[p] >= seen[p]
DocumentsRead == \A s \in Stage : \A i \in DOMAIN docs[s] : DOMAIN docs[s][i].inputs = Reads(s)

BuiltInvariant ==
  BeyondIsUntouched /\ SeenExists /\ JobReadsApproved /\ DocumentsRead /\ BuiltOnApproved

(* The feedback of a job is between that of the newest document of its stage  *)
(* and that of the row; from the document on it is the document's.            *)
NewestFeedback(s) == docs[s][Len(docs[s])].feedback
Heeded(s, n) == docs[s] # <<>> /\ NewestFeedback(s) >= n
FeedbackBetween(s) ==
  /\ asked[s] <= row.feedback
  /\ docs[s] # <<>> => NewestFeedback(s) <= row.feedback
  /\ ~ Idle(s) => /\ worker[s].feedback <= row.feedback
                  /\ docs[s] # <<>> => NewestFeedback(s) <= worker[s].feedback
  /\ worker[s].pc \in {"ready", "complete", "emit"} => Heeded(s, worker[s].feedback)
FeedbackUnderWay(s) ==
  asked[s] # 0 =>
    \/ halted \/ Ordered(s) \/ Queued(s) \/ Heeded(s, asked[s])
    \/ ~ Idle(s) /\ worker[s].feedback >= asked[s]
FeedbackInvariant ==
  /\ row.feedback <= requests
  /\ \A s \in Stage : TakesFeedback(s) => FeedbackBetween(s) /\ FeedbackUnderWay(s)

(* A job that is given up without its event used each of its attempts up in a *)
(* call that failed, or stalled too often; as long as none was, a status that *)
(* answers nothing has something under way that will write another.           *)
HaltPending == halted \/ \E o \in Orders : o.type = "failed"
AttemptsCounted ==
  \/ HaltPending
  \/ /\ \A j \in Jobs : j.left + faults >= JobAttempts
     /\ \A s \in Stage : ~ Idle(s) => worker[s].left + faults >= JobAttempts
WritesStatus(s) ==
  worker[s].pc \in {"start", "begin", "ask", "askAgain", "deleteTasks", "createTasks", "save", "ready", "caught"}
AnswerUnderWay ==
  \/ row.stage \notin Stage \/ row.status \in {"ready", "blocked"}
  \/ HaltPending \/ faults >= JobAttempts \/ crashes > MaxStalledCount
  \/ \E s \in Stage : Ordered(s) \/ Queued(s) \/ WritesStatus(s)
RestInvariant == AttemptsCounted /\ AnswerUnderWay

(* Each stall of a job was a crash.                                           *)
StallsCounted ==
  /\ \A j \in Jobs : j.stalls <= crashes
  /\ \A s \in Stage : ~ Idle(s) => worker[s].stalls <= crashes

-----------------------------------------------------------------------------
(* Stages and bags *)

LEMMA StageFacts ==
  /\ Stage = {"feasibility", "architecture", "timeline", "summary"}
  /\ After("feasibility") = "architecture" /\ After("architecture") = "timeline"
  /\ After("timeline") = "summary" /\ After("summary") = "patches"
<1>1. DOMAIN Stages = 1..4 BY DEF Stages
<1>2. 1..4 = {1, 2, 3, 4} OBVIOUS
<1>3. Stages[1] = "feasibility" /\ Stages[2] = "architecture" /\ Stages[3] = "timeline" /\ Stages[4] = "summary"
  BY DEF Stages
<1>4. Stage = {"feasibility", "architecture", "timeline", "summary"} BY <1>1, <1>2, <1>3 DEF Stage, Range
<1>5. ASSUME NEW i \in 1..3 PROVE (CHOOSE k \in 1..3 : Stages[k] = Stages[i]) = i BY <1>3
<1>6. /\ (CHOOSE k \in 1..3 : Stages[k] = "feasibility") = 1
      /\ (CHOOSE k \in 1..3 : Stages[k] = "architecture") = 2
      /\ (CHOOSE k \in 1..3 : Stages[k] = "timeline") = 3
  BY <1>3, <1>5
<1> QED BY <1>3, <1>4, <1>6 DEF After

LEMMA ReadFacts ==
  ASSUME NEW s \in Stage
  PROVE  /\ Reads(s) \subseteq Stage /\ s \notin Beyond(s)
         /\ \A p \in Reads(s) : s \in Beyond(p)
         /\ Beyond(s) \subseteq Stage
  BY StageFacts DEF Reads, Beyond

LEMMA AfterFacts ==
  ASSUME NEW s \in Stage
  PROVE  /\ After(s) \in Stage \cup {"patches"} /\ (s # "summary" => After(s) \in Stage)
         /\ Beyond(After(s)) \subseteq Beyond(s) /\ After(s) \notin Beyond(After(s))
         /\ (s = "summary" => After(s) \notin Stage)
  BY StageFacts DEF Beyond

LEMMA AddToBag ==
  ASSUME NEW B, IsABag(B), NEW e
  PROVE  IsABag(B (+) SetToBag({e})) /\ BagToSet(B (+) SetToBag({e})) = BagToSet(B) \cup {e}
  BY DEF IsABag, BagToSet, SetToBag, (+)

LEMMA TakeFromBag ==
  ASSUME NEW B, IsABag(B), NEW e
  PROVE  /\ IsABag(B (-) SetToBag({e})) /\ BagToSet(B (-) SetToBag({e})) \subseteq BagToSet(B)
         /\ BagToSet(B) \ {e} \subseteq BagToSet(B (-) SetToBag({e}))
<1> DEFINE R == B (-) SetToBag({e})
           left == [d \in DOMAIN B |-> IF d \in {e} THEN B[d] - 1 ELSE B[d]]
<1>1. R = [d \in {d \in DOMAIN B : left[d] > 0} |-> left[d]]
  BY DEF SetToBag, (-)
<1>2. \A d \in DOMAIN B : B[d] \in Nat /\ B[d] > 0 BY DEF IsABag
<1>3. \A d \in DOMAIN B : left[d] = IF d = e THEN B[d] - 1 ELSE B[d] OBVIOUS
<1> HIDE DEF left
<1>4. DOMAIN R = {d \in DOMAIN B : left[d] > 0} BY <1>1
<1>5. \A d \in DOMAIN R : R[d] \in Nat /\ R[d] > 0 BY <1>1, <1>2, <1>3
<1>6. R = [d \in DOMAIN R |-> R[d]] BY <1>1
<1>7. IsABag(R) BY <1>5, <1>6 DEF IsABag
<1>8. DOMAIN R \subseteq DOMAIN B /\ DOMAIN B \ {e} \subseteq DOMAIN R BY <1>2, <1>3, <1>4
<1> QED BY <1>7, <1>8 DEF BagToSet

LEMMA AddEmptyBag ==
  ASSUME NEW B, IsABag(B)
  PROVE  IsABag(B (+) EmptyBag) /\ BagToSet(B (+) EmptyBag) = BagToSet(B)
<1>1. DOMAIN EmptyBag = {} BY DEF EmptyBag, SetToBag
<1>2. B (+) EmptyBag = [e \in DOMAIN B |-> B[e] + 0] BY <1>1 DEF (+)
<1> QED BY <1>2 DEF IsABag, BagToSet

-----------------------------------------------------------------------------
(* What a worker holds *)

LEMMA Rests == NoText \in Texts /\ IdleWorker \in WorkerRecord /\ IdleWorker.pc = "idle"
<1>1. NoText \in Texts BY DEF Texts
<1>2. NoContent \in Contents BY DEF Contents
<1>3. [x \in {} |-> 0] \in InputSet
  <2>1. [x \in {} |-> 0] \in [{} -> Nat] OBVIOUS
  <2>2. {} \in SUBSET Stage OBVIOUS
  <2> QED BY <2>1, <2>2 DEF InputSet
<1>4. "idle" \in WorkerPc BY DEF WorkerPc
<1> QED BY <1>1, <1>2, <1>3, <1>4 DEF IdleWorker, WorkerRecord

LEMMA RepliesAreTexts == \A s \in Stage : Replies[s] \subseteq Texts
  BY AnalysesAssumption DEF Texts

(* A worker that goes on keeps what it read when it began.                    *)
Keeps(s, w) ==
  /\ w \in WorkerRecord /\ w.left = worker[s].left /\ w.stalls = worker[s].stalls /\ w.feedback = worker[s].feedback
  /\ w.inputs = worker[s].inputs

LEMMA WorkersKeep ==
  ASSUME NEW s \in Stage, worker[s] \in WorkerRecord
  PROVE  /\ \A pc \in WorkerPc : Keeps(s, Goto(s, pc)) /\ Goto(s, pc).pc = pc
         /\ \A text \in Texts : Keeps(s, [Goto(s, "askAgain") EXCEPT !.text = text])
                               /\ [Goto(s, "askAgain") EXCEPT !.text = text].pc = "askAgain"
         /\ \A content \in Contents :
              Keeps(s, WithContent(s, content)) /\ WithContent(s, content).pc \in {"deleteTasks", "save"}
<1>1. ASSUME NEW pc \in WorkerPc PROVE Keeps(s, Goto(s, pc)) /\ Goto(s, pc).pc = pc
  BY DEF Goto, Keeps, WorkerRecord
<1>2. ASSUME NEW text \in Texts
      PROVE  /\ Keeps(s, [Goto(s, "askAgain") EXCEPT !.text = text])
             /\ [Goto(s, "askAgain") EXCEPT !.text = text].pc = "askAgain"
  <2>1. "askAgain" \in WorkerPc BY DEF WorkerPc
  <2>2. Keeps(s, Goto(s, "askAgain")) /\ Goto(s, "askAgain").pc = "askAgain" BY <1>1, <2>1
  <2> HIDE DEF Goto
  <2> QED BY <2>2 DEF Keeps, WorkerRecord
<1>3. ASSUME NEW content \in Contents
      PROVE  Keeps(s, WithContent(s, content)) /\ WithContent(s, content).pc \in {"deleteTasks", "save"}
  <2> DEFINE pc == IF s = "timeline" THEN "deleteTasks" ELSE "save"
  <2>1. pc \in WorkerPc /\ pc \in {"deleteTasks", "save"} BY DEF WorkerPc, TryPc
  <2>2. WithContent(s, content) = [worker[s] EXCEPT !.content = content, !.text = NoText, !.pc = pc]
    BY DEF WithContent
  <2> HIDE DEF pc
  <2> QED BY <2>1, <2>2, Rests DEF Keeps, WorkerRecord
<1> QED BY <1>1, <1>2, <1>3

(* The kinds of steps of a processor: it takes a job, it goes on, it saves    *)
(* the document, and it leaves: done, with its job in the queue again, or     *)
(* with the job dropped.  Going on from a status to be written it writes one  *)
(* or will.                                                                   *)
OthersRest(s) == \A t \in Stage \ {s} : worker'[t] = worker[t]
Takes(s, j) ==
  /\ Idle(s) /\ j \in Jobs /\ j.stage = s /\ Jobs' \subseteq Jobs /\ Jobs \ {j} \subseteq Jobs'
  /\ OthersRest(s) /\ worker'[s].pc = "start"
  /\ worker'[s].left = j.left /\ worker'[s].stalls = j.stalls
  /\ worker'[s].feedback = (IF TakesFeedback(s) THEN row.feedback ELSE 0)
  /\ worker'[s].inputs = [p \in Reads(s) |-> Newest(docs, p)]
  /\ UNCHANGED <<row, docs, orders, halted, histories, requests, faults, crashes>>
GoesOn(s) ==
  /\ ~ Idle(s) /\ OthersRest(s) /\ Keeps(s, worker'[s]) /\ worker'[s].pc # "idle"
  /\ worker'[s].pc \in {"ready", "complete", "emit"} => worker[s].pc \in {"ready", "complete", "emit"}
  /\ \/ row'.status \in {"ready", "blocked"} \/ WritesStatus(s)'
     \/ ~ WritesStatus(s) /\ row' = row
  /\ row'.stage = row.stage /\ row'.feedback = row.feedback
  /\ UNCHANGED <<docs, jobs, orders, halted, histories, requests, crashes>> /\ faults' >= faults
Saves(s) ==
  /\ At(s, "save") /\ OthersRest(s) /\ Keeps(s, worker'[s]) /\ worker'[s].pc = "ready"
  /\ \A t \in Stage \ {s} : docs'[t] = docs[t]
  /\ docs'[s] = Append(docs[s], Document(worker[s].content, worker[s].feedback, worker[s].inputs))
  /\ UNCHANGED <<row, jobs, orders, halted, histories, requests, faults, crashes>>
Leaves(s) ==
  /\ ~ Idle(s) /\ OthersRest(s) /\ worker'[s].pc = "idle"
  /\ UNCHANGED <<row, docs, halted, seen, requests>> /\ faults' >= faults /\ crashes' >= crashes
LeavesDone(s) == Leaves(s) /\ At(s, "emit") /\ UNCHANGED <<jobs, orders, asked>>
GivesUp(s) ==
  \/ orders' = orders /\ faults' = faults + 1
  \/ Orders' = Orders \cup {[type |-> "failed", stage |-> s]}
LeavesJob(s, left, stalls) ==
  /\ Leaves(s) /\ Jobs' = Jobs \cup {[stage |-> s, left |-> left, stalls |-> stalls]} /\ UNCHANGED asked
  /\ stalls = worker[s].stalls \/ (stalls = worker[s].stalls + 1 /\ crashes' = crashes + 1)
  /\ (left = worker[s].left /\ UNCHANGED orders) \/ (left = worker[s].left - 1 /\ GivesUp(s))
StallsTooOften(s) == worker[s].stalls >= MaxStalledCount /\ crashes' = crashes + 1 /\ UNCHANGED orders
DropsJob(s) ==
  /\ Leaves(s) /\ UNCHANGED jobs
  /\ (worker[s].left <= 1 /\ GivesUp(s)) \/ StallsTooOften(s)
  /\ asked'[s] = 0 /\ \A t \in Stage \ {s} : asked'[t] = asked[t]
Kinds(s) ==
  \/ (\E j \in Job : Takes(s, j)) \/ GoesOn(s) \/ Saves(s) \/ LeavesDone(s)
  \/ (\E left, stalls \in Nat : LeavesJob(s, left, stalls)) \/ DropsJob(s)

LEMMA MovesTo ==
  ASSUME TypeOK, NEW s \in Stage, NEW w \in WorkerRecord, Moves(s, w)
  PROVE  worker' \in [Stage -> WorkerRecord] /\ OthersRest(s) /\ worker'[s] = w
  BY DEF TypeOK, Moves, OthersRest

LEMMA GoingOn ==
  ASSUME TypeOK, NEW s \in Stage, ~ Idle(s), NEW w, Keeps(s, w), w.pc # "idle", Moves(s, w),
         w.pc \in {"ready", "complete", "emit"} => worker[s].pc \in {"ready", "complete", "emit"},
         \/ row'.status \in {"ready", "blocked"}
         \/ w.pc \in {"start", "begin", "ask", "askAgain", "deleteTasks", "createTasks", "save", "ready", "caught"}
         \/ ~ WritesStatus(s) /\ row' = row,
         row'.status \in Status, row' = [row EXCEPT !.status = row'.status],
         UNCHANGED <<docs, jobs, orders, halted, histories, requests, crashes>>, faults' \in {faults, faults + 1},
         run' \in [Stage -> {"none", "running", "completed", "failed"}]
  PROVE  Kinds(s) /\ TypeOK'
<1>1. worker' \in [Stage -> WorkerRecord] /\ OthersRest(s) /\ worker'[s] = w BY MovesTo DEF Keeps
<1>2. row'.stage = row.stage /\ row'.feedback = row.feedback /\ row' \in RowRecord
  BY DEF TypeOK, RowRecord
<1>3. faults' >= faults /\ faults' \in Nat BY DEF TypeOK
<1>4. GoesOn(s) BY <1>1, <1>2, <1>3 DEF GoesOn, WritesStatus
<1>5. TypeOK' BY <1>1, <1>2, <1>3 DEF TypeOK, QueuesTyped, Jobs, Orders, histories
<1> QED BY <1>4, <1>5 DEF Kinds

(* The steps that go on to a place before a status is written                 *)
LEMMA GoingOnTo ==
  ASSUME TypeOK, NEW s \in Stage, ~ Idle(s), NEW w, Keeps(s, w), Moves(s, w),
         w.pc \in {"begin", "ask", "askAgain", "deleteTasks", "createTasks", "save", "caught"},
         UNCHANGED <<row, docs, jobs, orders, halted, histories, requests, crashes>>, faults' \in {faults, faults + 1},
         run' \in [Stage -> {"none", "running", "completed", "failed"}]
  PROVE  Kinds(s) /\ TypeOK'
<1>1. row'.status \in Status /\ row' = [row EXCEPT !.status = row'.status]
  BY DEF TypeOK, RowRecord
<1> QED BY <1>1, GoingOn

(* A worker throws: its job is in the queue again, or is dropped.             *)
LEMMA Throwing ==
  ASSUME TypeOK, NEW s \in Stage, ~ Idle(s), Throws(s), GivesUp(s),
         UNCHANGED <<row, docs, run, halted, seen, requests, crashes>>,
         IsABag(orders'), Orders' \subseteq OrderRecord, faults' \in {faults, faults + 1}
  PROVE  Kinds(s) /\ TypeOK'
<1>1. worker' \in [Stage -> WorkerRecord] /\ OthersRest(s) /\ worker'[s].pc = "idle"
  BY Rests, MovesTo DEF Throws
<1>2. faults' >= faults /\ faults' \in Nat /\ crashes' >= crashes BY DEF TypeOK
<1>3. worker[s].left \in Nat /\ worker[s].stalls \in Nat BY DEF TypeOK, WorkerRecord
<1>4. Leaves(s) BY <1>1, <1>2 DEF Leaves
<1>5. CASE worker[s].left > 1
  <2> DEFINE job == [stage |-> s, left |-> worker[s].left - 1, stalls |-> worker[s].stalls]
  <2>1. jobs' = jobs (+) SetToBag({job}) /\ UNCHANGED asked BY <1>5 DEF Throws, OfferAgain, JobOf
  <2>2. IsABag(jobs') /\ Jobs' = Jobs \cup {job} BY <2>1, AddToBag DEF TypeOK, QueuesTyped, Jobs
  <2>3. worker[s].left - 1 \in Nat /\ job \in Job BY <1>3, <1>5 DEF Job
  <2>4. LeavesJob(s, worker[s].left - 1, worker[s].stalls) BY <1>4, <2>1, <2>2 DEF LeavesJob
  <2>5. QueuesTyped' BY <2>2, <2>3 DEF TypeOK, QueuesTyped
  <2>6. TypeOK' BY <1>1, <1>2, <2>1, <2>5 DEF TypeOK
  <2> QED BY <1>3, <2>3, <2>4, <2>6 DEF Kinds
<1>6. CASE ~ worker[s].left > 1
  <2>1. asked' = [asked EXCEPT ![s] = 0] /\ UNCHANGED jobs BY <1>6 DEF Throws, Drop
  <2>2. asked' \in [Stage -> Nat] /\ asked'[s] = 0 /\ \A t \in Stage \ {s} : asked'[t] = asked[t]
    BY <2>1 DEF TypeOK
  <2>3. DropsJob(s) BY <1>3, <1>4, <1>6, <2>1, <2>2 DEF DropsJob
  <2>4. QueuesTyped' BY <2>1 DEF TypeOK, QueuesTyped, Jobs
  <2>5. TypeOK' BY <1>1, <1>2, <2>2, <2>4 DEF TypeOK
  <2> QED BY <2>3, <2>5 DEF Kinds
<1> QED BY <1>5, <1>6

LEMMA RescuedKeeps ==
  ASSUME TypeOK, NEW s \in Stage, NEW text \in Texts
  PROVE  Keeps(s, Rescued(s, text)) /\ Rescued(s, text).pc \in {"deleteTasks", "save", "caught"}
<1>1. worker[s] \in WorkerRecord BY DEF TypeOK
<1>2. Legacy(s, text) \in Contents BY DEF Contents
<1>3. "caught" \in WorkerPc BY DEF WorkerPc, OpenPc
<1> QED BY <1>1, <1>2, <1>3, WorkersKeep DEF Rescued

LEMMA AnswerKeeps ==
  ASSUME TypeOK, NEW s \in Stage, NEW text \in Texts
  PROVE  Keeps(s, WithContent(s, Validated(s, text)))
         /\ WithContent(s, Validated(s, text)).pc \in {"deleteTasks", "save"}
<1>1. worker[s] \in WorkerRecord BY DEF TypeOK
<1>2. Validated(s, text) \in Contents BY DEF Contents
<1> QED BY <1>1, <1>2, WorkersKeep

LEMMA StepKinds ==
  ASSUME TypeOK, NEW s \in Stage, Works(s) \/ Fails(s)
  PROVE  Kinds(s) /\ TypeOK'
<1>a. /\ worker[s] \in WorkerRecord /\ row \in RowRecord /\ requests \in Nat /\ faults \in Nat /\ crashes \in Nat
      /\ run \in [Stage -> {"none", "running", "completed", "failed"}]
  BY DEF TypeOK
<1>g. ASSUME NEW pc \in WorkerPc PROVE Keeps(s, Goto(s, pc)) /\ Goto(s, pc).pc = pc
  BY <1>a, WorkersKeep
<1>p. /\ {"begin", "ask", "askAgain", "deleteTasks", "createTasks", "save", "ready", "complete", "emit",
          "caught", "failRun", "failed"} \subseteq WorkerPc
  BY DEF WorkerPc, TryPc, OpenPc
<1>w. ASSUME NEW from, NEW status \in Status, NEW to \in WorkerPc \ {"idle"}, from # "idle",
             to \in {"ready", "complete", "emit"} => from \in {"ready", "complete", "emit"},
             status \in {"ready", "blocked"} \/ to = "ask",
             WriteStatus(s, from, status, to)
      PROVE  Kinds(s) /\ TypeOK'
  <2>1. Keeps(s, Goto(s, to)) /\ Goto(s, to).pc = to BY <1>g
  <2>2. row' = [row EXCEPT !.status = status] /\ row'.status = status BY <1>a, <1>w DEF WriteStatus, RowRecord
  <2>3. worker[s].pc = from BY <1>w DEF WriteStatus, At
  <2>4. /\ Moves(s, Goto(s, to)) /\ UNCHANGED <<docs, run, jobs, orders, halted, histories, requests, faults, crashes>>
    BY <1>w DEF WriteStatus, bounds
  <2>5. ~ Idle(s) BY <2>3, <1>w DEF Idle, At
  <2> HIDE DEF Goto
  <2> QED BY <1>a, <1>w, <2>1, <2>2, <2>3, <2>4, <2>5, GoingOn
<1>1. CASE TakeJob(s)
  <2>1. PICK j \in Jobs : /\ j.stage = s /\ jobs' = jobs (-) SetToBag({j})
                          /\ Moves(s, [IdleWorker EXCEPT !.pc = "start", !.left = j.left, !.stalls = j.stalls,
                                         !.feedback = IF TakesFeedback(s) THEN row.feedback ELSE 0,
                                         !.inputs = [p \in Reads(s) |-> Newest(docs, p)]])
    BY <1>1 DEF TakeJob, Jobs
  <2> DEFINE feedback == IF TakesFeedback(s) THEN row.feedback ELSE 0
             inputs == [p \in Reads(s) |-> Newest(docs, p)]
             w == [IdleWorker EXCEPT !.pc = "start", !.left = j.left, !.stalls = j.stalls,
                              !.feedback = feedback, !.inputs = inputs]
  <2>2. Idle(s) /\ UNCHANGED <<row, docs, run, orders, halted, histories, requests, faults, crashes>>
    BY <1>1 DEF TakeJob, Idle, bounds
  <2>3. j \in Job /\ j.left \in Nat /\ j.stalls \in Nat BY DEF TypeOK, QueuesTyped, Job
  <2>4. feedback \in Nat BY <1>a DEF RowRecord
  <2>5. inputs \in InputSet
    <3>1. \A p \in Reads(s) : Newest(docs, p) \in Nat BY ReadFacts DEF TypeOK, Newest
    <3>2. inputs \in [Reads(s) -> Nat] BY <3>1
    <3>3. Reads(s) \in SUBSET Stage BY ReadFacts
    <3> QED BY <3>2, <3>3 DEF InputSet
  <2>6. "start" \in WorkerPc BY DEF WorkerPc, OpenPc
  <2>7. IsABag(jobs') /\ Jobs' \subseteq Jobs /\ Jobs \ {j} \subseteq Jobs'
    BY <2>1, TakeFromBag DEF TypeOK, QueuesTyped, Jobs
  <2>8. Moves(s, w) BY <2>1
  <2> HIDE DEF feedback, inputs
  <2>9. /\ w \in WorkerRecord /\ w.pc = "start" /\ w.left = j.left /\ w.stalls = j.stalls /\ w.feedback = feedback
        /\ w.inputs = inputs
    BY <2>3, <2>4, <2>5, <2>6, Rests DEF WorkerRecord
  <2> HIDE DEF w
  <2>10. worker' \in [Stage -> WorkerRecord] /\ OthersRest(s) /\ worker'[s] = w BY <2>8, <2>9, MovesTo
  <2>11. Takes(s, j) BY <2>1, <2>2, <2>7, <2>9, <2>10 DEF Takes, feedback, inputs
  <2>12. QueuesTyped' BY <2>2, <2>7 DEF TypeOK, QueuesTyped, Orders
  <2>13. TypeOK' BY <2>2, <2>10, <2>12 DEF TypeOK, histories
  <2> QED BY <2>3, <2>11, <2>13 DEF Kinds
<1>2. CASE StartRun(s)
  <2>1. At(s, "start") /\ run' = [run EXCEPT ![s] = "running"] /\ Moves(s, Goto(s, "begin"))
        /\ UNCHANGED <<row, docs, jobs, orders, halted, histories, requests, faults, crashes>>
    BY <1>2 DEF StartRun, bounds
  <2>2. run' \in [Stage -> {"none", "running", "completed", "failed"}] BY <1>a, <2>1
  <2>3. ~ Idle(s) BY <2>1 DEF At, Idle
  <2>4. Keeps(s, Goto(s, "begin")) /\ Goto(s, "begin").pc = "begin" BY <1>g, <1>p
  <2> HIDE DEF Goto
  <2> QED BY <2>1, <2>2, <2>3, <2>4, GoingOnTo
<1>3. CASE BeginAnalysis(s) BY <1>3, <1>w, <1>p DEF BeginAnalysis, Status
<1>4. CASE AnalysisReady(s) BY <1>4, <1>w, <1>p DEF AnalysisReady, Status
<1>5. CASE AnalysisCaught(s) BY <1>5, <1>w, <1>p DEF AnalysisCaught, Status
<1>o. ASSUME NEW w, Keeps(s, w), OnlyMoves(s, w), ~ Idle(s),
             w.pc \in {"askAgain", "deleteTasks", "save", "caught"}
      PROVE  Kinds(s) /\ TypeOK'
  <2>1. Moves(s, w) /\ UNCHANGED <<row, docs, run, jobs, orders, halted, histories, requests, faults, crashes>>
    BY <1>o DEF OnlyMoves, bounds
  <2> QED BY <1>a, <1>o, <2>1, GoingOnTo
<1>6. CASE Ask(s)
  <2>1. PICK text \in Replies[s] :
          OnlyMoves(s, IF Valid(s, text) THEN WithContent(s, Validated(s, text))
                       ELSE [Goto(s, "askAgain") EXCEPT !.text = text])
    BY <1>6 DEF Ask
  <2>2. ~ Idle(s) BY <1>6 DEF Ask, At, Idle
  <2>3. text \in Texts BY RepliesAreTexts
  <2>4. CASE Valid(s, text) BY <2>1, <2>2, <2>3, <2>4, <1>o, AnswerKeeps
  <2>5. CASE ~ Valid(s, text) BY <2>1, <2>2, <2>3, <2>5, <1>o, <1>a, WorkersKeep
  <2> QED BY <2>4, <2>5
<1>7. CASE AskAgain(s)
  <2>1. PICK text \in Replies[s] :
          OnlyMoves(s, IF Valid(s, text) THEN WithContent(s, Validated(s, text)) ELSE Rescued(s, text))
    BY <1>7 DEF AskAgain
  <2>2. ~ Idle(s) BY <1>7 DEF AskAgain, At, Idle
  <2>3. text \in Texts BY RepliesAreTexts
  <2>4. CASE Valid(s, text) BY <2>1, <2>2, <2>3, <2>4, <1>o, AnswerKeeps
  <2>5. CASE ~ Valid(s, text) BY <2>1, <2>2, <2>3, <2>5, <1>o, RescuedKeeps
  <2> QED BY <2>4, <2>5
<1>8. CASE s = "summary" /\ AskSummaryAgain
  <2>1. PICK text \in Replies[s] :
          OnlyMoves(s, IF Valid(s, text) THEN WithContent(s, Validated(s, text))
                       ELSE IF AllowFallback THEN WithContent(s, FallbackSummary) ELSE Goto(s, "caught"))
    BY <1>8 DEF AskSummaryAgain
  <2>2. ~ Idle(s) BY <1>8 DEF AskSummaryAgain, At, Idle
  <2>3. text \in Texts BY RepliesAreTexts
  <2>4. CASE Valid(s, text) BY <2>1, <2>2, <2>3, <2>4, <1>o, AnswerKeeps
  <2>5. CASE ~ Valid(s, text) /\ AllowFallback
    <3>1. FallbackSummary \in Contents BY DEF Contents
    <3> QED BY <2>1, <2>2, <2>5, <3>1, <1>o, <1>a, WorkersKeep
  <2>6. CASE ~ Valid(s, text) /\ ~ AllowFallback BY <2>1, <2>2, <2>6, <1>o, <1>g, <1>p
  <2> QED BY <2>4, <2>5, <2>6
<1>9. CASE DeleteTasks(s)
  <2>1. At(s, "deleteTasks") /\ Moves(s, Goto(s, "createTasks"))
        /\ UNCHANGED <<row, docs, run, jobs, orders, halted, histories, requests, faults, crashes>>
    BY <1>9 DEF DeleteTasks, bounds
  <2>2. ~ Idle(s) BY <2>1 DEF At, Idle
  <2>3. Keeps(s, Goto(s, "createTasks")) /\ Goto(s, "createTasks").pc = "createTasks" BY <1>g, <1>p
  <2> HIDE DEF Goto
  <2> QED BY <1>a, <2>1, <2>2, <2>3, GoingOnTo
<1>10. CASE CreateTasks(s)
  <2>1. /\ At(s, "createTasks") /\ UNCHANGED <<row, docs, run, jobs, orders, halted, histories, requests, faults, crashes>>
        /\ \E pc \in {"save", "caught"} : Moves(s, Goto(s, pc))
    BY <1>10 DEF CreateTasks, bounds
  <2>2. ~ Idle(s) BY <2>1 DEF At, Idle
  <2>3. \A pc \in {"save", "caught"} : Keeps(s, Goto(s, pc)) /\ Goto(s, pc).pc = pc BY <1>g, <1>p
  <2> HIDE DEF Goto
  <2> QED BY <1>a, <2>1, <2>2, <2>3, GoingOnTo
<1>11. CASE SaveArtifact(s)
  <2> DEFINE document == Document(worker[s].content, worker[s].feedback, worker[s].inputs)
  <2>1. /\ At(s, "save") /\ Moves(s, Goto(s, "ready")) /\ docs' = [docs EXCEPT ![s] = Append(@, document)]
        /\ UNCHANGED <<row, run, jobs, orders, halted, histories, requests, faults, crashes>>
    BY <1>11 DEF SaveArtifact, bounds
  <2>2. Keeps(s, Goto(s, "ready")) /\ Goto(s, "ready").pc = "ready" BY <1>g, <1>p
  <2>3. document \in DocumentRecord BY <1>a DEF Document, WorkerRecord, DocumentRecord
  <2> HIDE DEF Goto, document
  <2>4. worker' \in [Stage -> WorkerRecord] /\ OthersRest(s) /\ worker'[s] = Goto(s, "ready")
    BY <2>1, <2>2, MovesTo DEF Keeps
  <2>5. docs[s] \in Seq(DocumentRecord) /\ docs \in [Stage -> Seq(DocumentRecord)] BY DEF TypeOK
  <2>6. Append(docs[s], document) \in Seq(DocumentRecord) BY <2>3, <2>5
  <2>7. /\ docs' \in [Stage -> Seq(DocumentRecord)] /\ docs'[s] = Append(docs[s], document)
        /\ \A t \in Stage \ {s} : docs'[t] = docs[t]
    BY <2>1, <2>5, <2>6
  <2>8. Saves(s) BY <2>1, <2>2, <2>4, <2>7 DEF Saves, document
  <2>9. TypeOK' BY <2>1, <2>4, <2>7 DEF TypeOK, QueuesTyped, Jobs, Orders, histories
  <2> QED BY <2>8, <2>9 DEF Kinds
<1>12. CASE CompleteRun(s)
  <2>1. At(s, "complete") /\ run' = [run EXCEPT ![s] = "completed"] /\ Moves(s, Goto(s, "emit"))
        /\ UNCHANGED <<row, docs, jobs, orders, halted, histories, requests, faults, crashes>>
    BY <1>12 DEF CompleteRun, bounds
  <2>2. run' \in [Stage -> {"none", "running", "completed", "failed"}] BY <1>a, <2>1
  <2>3. ~ Idle(s) /\ ~ WritesStatus(s) /\ worker[s].pc = "complete" BY <2>1 DEF At, Idle, WritesStatus
  <2>4. Keeps(s, Goto(s, "emit")) /\ Goto(s, "emit").pc = "emit" BY <1>g, <1>p
  <2>5. row'.status \in Status /\ row' = [row EXCEPT !.status = row'.status] BY <1>a, <2>1 DEF RowRecord
  <2> HIDE DEF Goto
  <2> QED BY <2>1, <2>2, <2>3, <2>4, <2>5, GoingOn
<1>13. CASE FailRun(s)
  <2>1. At(s, "failRun") /\ run' = [run EXCEPT ![s] = "failed"] /\ Moves(s, Goto(s, "failed"))
        /\ UNCHANGED <<row, docs, jobs, orders, halted, histories, requests, faults, crashes>>
    BY <1>13 DEF FailRun, bounds
  <2>2. run' \in [Stage -> {"none", "running", "completed", "failed"}] BY <1>a, <2>1
  <2>3. ~ Idle(s) /\ ~ WritesStatus(s) /\ worker[s].pc = "failRun" BY <2>1 DEF At, Idle, WritesStatus
  <2>4. Keeps(s, Goto(s, "failed")) /\ Goto(s, "failed").pc = "failed" BY <1>g, <1>p
  <2>5. row'.status \in Status /\ row' = [row EXCEPT !.status = row'.status] BY <1>a, <2>1 DEF RowRecord
  <2> HIDE DEF Goto
  <2> QED BY <2>1, <2>2, <2>3, <2>4, <2>5, GoingOn
<1>14. CASE Completed(s)
  <2>1. At(s, "emit") /\ Moves(s, IdleWorker)
        /\ UNCHANGED <<row, docs, run, jobs, orders, halted, histories, requests, faults, crashes>>
    BY <1>14 DEF Completed, OnlyMoves, bounds
  <2>2. ~ Idle(s) BY <2>1 DEF At, Idle
  <2>3. worker' \in [Stage -> WorkerRecord] /\ OthersRest(s) /\ worker'[s].pc = "idle" BY <2>1, Rests, MovesTo
  <2>4. LeavesDone(s) BY <1>a, <2>1, <2>2, <2>3 DEF LeavesDone, Leaves, histories
  <2>5. TypeOK' BY <2>1, <2>3 DEF TypeOK, QueuesTyped, Jobs, Orders, histories
  <2> QED BY <2>4, <2>5 DEF Kinds
<1>15. CASE Failed(s)
  <2> DEFINE order == [type |-> "failed", stage |-> s]
  <2>1. At(s, "failed") /\ Throws(s) /\ orders' = orders (+) SetToBag({order})
        /\ UNCHANGED <<row, docs, run, halted, seen, requests, faults, crashes>>
    BY <1>15 DEF Failed, Order, bounds
  <2>2. ~ Idle(s) BY <2>1 DEF At, Idle
  <2>3. IsABag(orders') /\ Orders' = Orders \cup {order} BY <2>1, AddToBag DEF TypeOK, QueuesTyped, Orders
  <2>4. order \in OrderRecord BY DEF OrderRecord
  <2>5. Orders' \subseteq OrderRecord /\ GivesUp(s) BY <2>3, <2>4 DEF TypeOK, QueuesTyped, GivesUp
  <2> QED BY <2>1, <2>2, <2>3, <2>5, Throwing
<1>16. CASE CallFails(s)
  <2>1. /\ Moves(s, Goto(s, "caught")) /\ faults' = faults + 1
        /\ UNCHANGED <<row, docs, run, jobs, orders, halted, histories, requests, crashes>>
    BY <1>16 DEF CallFails, Fault
  <2>2. ~ Idle(s) BY <1>16 DEF CallFails, At, Idle, TryPc
  <2>3. Keeps(s, Goto(s, "caught")) /\ Goto(s, "caught").pc = "caught" BY <1>g, <1>p
  <2> HIDE DEF Goto
  <2> QED BY <1>a, <2>1, <2>2, <2>3, GoingOnTo
<1>17. CASE NoSecondText(s)
  <2>1. /\ Moves(s, Rescued(s, worker[s].text)) /\ faults' = faults + 1
        /\ UNCHANGED <<row, docs, run, jobs, orders, halted, histories, requests, crashes>>
    BY <1>17 DEF NoSecondText, Fault
  <2>2. ~ Idle(s) BY <1>17 DEF NoSecondText, At, Idle
  <2>3. worker[s].text \in Texts BY <1>a DEF WorkerRecord
  <2> QED BY <1>a, <2>1, <2>2, <2>3, RescuedKeeps, GoingOnTo
<1>18. CASE CallFailsOutside(s)
  <2>1. /\ Throws(s) /\ faults' = faults + 1 /\ UNCHANGED <<row, docs, run, orders, halted, seen, requests, crashes>>
    BY <1>18 DEF CallFailsOutside, Fault
  <2>2. ~ Idle(s) BY <1>18 DEF CallFailsOutside, Idle, At, OpenPc
  <2>3. IsABag(orders') /\ Orders' \subseteq OrderRecord /\ GivesUp(s)
    BY <2>1 DEF TypeOK, QueuesTyped, GivesUp, Orders
  <2> QED BY <2>1, <2>2, <2>3, Throwing
<1>19. CASE Crash(s)
  <2> DEFINE job == [stage |-> s, left |-> worker[s].left, stalls |-> worker[s].stalls + 1]
  <2>1. /\ ~ Idle(s) /\ Moves(s, IdleWorker) /\ crashes' = crashes + 1
        /\ UNCHANGED <<row, docs, run, orders, halted, seen, requests, faults>>
    BY <1>19 DEF Crash, Idle
  <2>2. worker' \in [Stage -> WorkerRecord] /\ OthersRest(s) /\ worker'[s].pc = "idle" BY <2>1, Rests, MovesTo
  <2>3. /\ worker[s].left \in Nat /\ worker[s].stalls \in Nat /\ worker[s].stalls + 1 \in Nat
        /\ crashes \in Nat /\ crashes + 1 \in Nat /\ MaxStalledCount \in Nat
    BY <1>a, AnalysesAssumption DEF WorkerRecord, TypeOK
  <2>4. Leaves(s) BY <1>a, <2>1, <2>2, <2>3 DEF Leaves
  <2>5. CASE worker[s].stalls < MaxStalledCount
    <3>1. jobs' = jobs (+) SetToBag({job}) /\ UNCHANGED asked BY <1>19, <2>5 DEF Crash, OfferAgain, JobOf
    <3>2. job \in Job BY <2>3 DEF Job
    <3>3. IsABag(jobs') /\ Jobs' = Jobs \cup {job} BY <3>1, AddToBag DEF TypeOK, QueuesTyped, Jobs
    <3>4. LeavesJob(s, worker[s].left, worker[s].stalls + 1) BY <2>1, <2>4, <3>1, <3>3 DEF LeavesJob
    <3>5. TypeOK' BY <2>1, <2>2, <2>3, <3>1, <3>2, <3>3 DEF TypeOK, QueuesTyped, Orders
    <3> QED BY <2>3, <3>4, <3>5 DEF Kinds
  <2>6. CASE ~ worker[s].stalls < MaxStalledCount
    <3>1. asked' = [asked EXCEPT ![s] = 0] /\ UNCHANGED jobs BY <1>19, <2>6 DEF Crash, Drop
    <3>2. asked' \in [Stage -> Nat] /\ asked'[s] = 0 /\ \A t \in Stage \ {s} : asked'[t] = asked[t]
      BY <3>1 DEF TypeOK
    <3>3. StallsTooOften(s) BY <2>1, <2>3, <2>6 DEF StallsTooOften
    <3>4. DropsJob(s) BY <2>4, <3>1, <3>2, <3>3 DEF DropsJob
    <3>5. TypeOK' BY <2>1, <2>2, <2>3, <3>1, <3>2 DEF TypeOK, QueuesTyped, Orders, Jobs
    <3> QED BY <3>4, <3>5 DEF Kinds
  <2> QED BY <2>5, <2>6
<1> QED
  BY <1>1, <1>2, <1>3, <1>4, <1>5, <1>6, <1>7, <1>8, <1>9, <1>10, <1>11, <1>12, <1>13, <1>14, <1>15,
     <1>16, <1>17, <1>18, <1>19 DEF Works, Fails

(* The steps of the client and of the engine, on what the queues hold         *)
Approves ==
  /\ row.stage \in Stage /\ row'.stage = After(row.stage) /\ row'.feedback = row.feedback
  /\ \/ row.stage # "summary" /\ Orders' = Orders \cup {[type |-> "run", stage |-> After(row.stage)]}
     \/ row.stage = "summary" /\ Orders' = Orders
  /\ \A s \in Stage : seen'[s] = IF s = row.stage THEN Len(docs[s]) ELSE seen[s]
  /\ UNCHANGED <<docs, jobs, halted, worker, asked, requests, faults, crashes>>
Requests ==
  /\ row.stage \in Stage /\ row'.stage = row.stage
  /\ Orders' = Orders \cup {[type |-> "run", stage |-> row.stage]}
  /\ \/ row'.feedback = row.feedback /\ UNCHANGED asked /\ requests' >= requests
     \/ /\ row'.feedback = requests' /\ requests' >= requests
        /\ \A s \in Stage : asked'[s] = IF s = row.stage THEN requests' ELSE asked[s]
  /\ UNCHANGED <<docs, jobs, halted, worker, seen, faults, crashes>>
Orchestrates(o) ==
  /\ o \in Orders /\ Orders' \subseteq Orders /\ Orders \ {o} \subseteq Orders'
  /\ halted' = (halted \/ o.type = "failed")
  /\ Jobs' = IF halted' THEN Jobs ELSE Jobs \cup {[stage |-> o.stage, left |-> JobAttempts, stalls |-> 0]}
  /\ UNCHANGED <<row, docs, worker, histories, requests, faults, crashes>>

LEMMA ClientKinds ==
  ASSUME TypeOK, Client
  PROVE  (Approves \/ Requests) /\ TypeOK'
<1>a. /\ row \in RowRecord /\ requests \in Nat /\ requests + 1 \in Nat /\ seen \in [Stage -> Nat]
      /\ asked \in [Stage -> Nat] /\ IsABag(orders) /\ Orders \subseteq OrderRecord
  BY DEF TypeOK, QueuesTyped
<1>1. CASE ApproveStage
  <2>1. /\ row.stage \in Stage /\ row' = [row EXCEPT !.stage = After(row.stage), !.status = "pending"]
        /\ orders' = orders (+) (IF row.stage = "summary" THEN EmptyBag ELSE Order("run", After(row.stage)))
        /\ seen' = [seen EXCEPT ![row.stage] = Len(docs[row.stage])]
        /\ UNCHANGED <<docs, run, jobs, halted, worker, asked, requests, faults, crashes>>
    BY <1>1 DEF ApproveStage
  <2>2. After(row.stage) \in Stage \cup {"patches"} BY <2>1, AfterFacts
  <2>3. row' \in RowRecord /\ row'.stage = After(row.stage) /\ row'.feedback = row.feedback
    BY <1>a, <2>1, <2>2 DEF RowRecord, Status
  <2>4. Len(docs[row.stage]) \in Nat BY <2>1 DEF TypeOK
  <2>5. /\ seen' \in [Stage -> Nat]
        /\ \A s \in Stage : seen'[s] = IF s = row.stage THEN Len(docs[s]) ELSE seen[s]
    BY <1>a, <2>1, <2>4
  <2>6. /\ IsABag(orders') /\ Orders' \subseteq OrderRecord
        /\ \/ row.stage # "summary" /\ Orders' = Orders \cup {[type |-> "run", stage |-> After(row.stage)]}
           \/ row.stage = "summary" /\ Orders' = Orders
    <3>1. CASE row.stage = "summary"
      <4>1. orders' = orders (+) EmptyBag BY <2>1, <3>1
      <4> QED BY <1>a, <3>1, <4>1, AddEmptyBag DEF Orders
    <3>2. CASE row.stage # "summary"
      <4> DEFINE order == [type |-> "run", stage |-> After(row.stage)]
      <4>1. orders' = orders (+) SetToBag({order}) BY <2>1, <3>2 DEF Order
      <4>2. order \in OrderRecord BY <2>1, <3>2, AfterFacts DEF OrderRecord
      <4>3. IsABag(orders') /\ Orders' = Orders \cup {order} BY <1>a, <4>1, AddToBag DEF Orders
      <4> QED BY <1>a, <3>2, <4>2, <4>3
    <3> QED BY <3>1, <3>2
  <2>7. Approves BY <2>1, <2>3, <2>5, <2>6 DEF Approves
  <2>8. TypeOK' BY <2>1, <2>3, <2>5, <2>6 DEF TypeOK, QueuesTyped, Jobs
  <2> QED BY <2>7, <2>8
<1>q. ASSUME Requested
      PROVE  /\ row.stage \in Stage /\ requests' = requests + 1 /\ IsABag(orders') /\ Orders' \subseteq OrderRecord
             /\ Orders' = Orders \cup {[type |-> "run", stage |-> row.stage]}
             /\ UNCHANGED <<docs, run, jobs, halted, worker, seen, faults, crashes>>
  <2> DEFINE order == [type |-> "run", stage |-> row.stage]
  <2>1. /\ row.stage \in Stage /\ requests' = requests + 1 /\ orders' = orders (+) SetToBag({order})
        /\ UNCHANGED <<docs, run, jobs, halted, worker, seen, faults, crashes>>
    BY <1>q DEF Requested, Order
  <2>2. order \in OrderRecord BY <2>1 DEF OrderRecord
  <2>3. IsABag(orders') /\ Orders' = Orders \cup {order} BY <1>a, <2>1, AddToBag DEF Orders
  <2> QED BY <1>a, <2>1, <2>2, <2>3
<1>2. CASE RequestStageChanges
  <2>1. /\ Requested /\ row' = [row EXCEPT !.status = "needs_changes", !.feedback = requests']
        /\ asked' = [asked EXCEPT ![row.stage] = requests']
    BY <1>2 DEF RequestStageChanges
  <2>2. requests' \in Nat /\ requests' >= requests BY <1>a, <1>q, <2>1
  <2>3. row' \in RowRecord /\ row'.stage = row.stage /\ row'.feedback = requests'
    BY <1>a, <2>1, <2>2 DEF RowRecord, Status
  <2>4. /\ asked' \in [Stage -> Nat]
        /\ \A s \in Stage : asked'[s] = IF s = row.stage THEN requests' ELSE asked[s]
    BY <1>a, <2>1, <2>2
  <2>5. Requests BY <1>q, <2>1, <2>2, <2>3, <2>4 DEF Requests
  <2>6. TypeOK' BY <1>q, <2>1, <2>2, <2>3, <2>4 DEF TypeOK, QueuesTyped, Jobs
  <2> QED BY <2>5, <2>6
<1>3. CASE RetryStage
  <2>1. Requested /\ row' = [row EXCEPT !.status = "pending"] /\ UNCHANGED asked BY <1>3 DEF RetryStage
  <2>2. requests' \in Nat /\ requests' >= requests BY <1>a, <1>q, <2>1
  <2>3. row' \in RowRecord /\ row'.stage = row.stage /\ row'.feedback = row.feedback
    BY <1>a, <2>1 DEF RowRecord, Status
  <2>4. Requests BY <1>q, <2>1, <2>2, <2>3 DEF Requests
  <2>5. TypeOK' BY <1>q, <2>1, <2>2, <2>3 DEF TypeOK, QueuesTyped, Jobs
  <2> QED BY <2>4, <2>5
<1> QED BY <1>1, <1>2, <1>3 DEF Client

LEMMA EngineKinds ==
  ASSUME TypeOK, Orchestrate
  PROVE  (\E o \in OrderRecord : Orchestrates(o)) /\ TypeOK'
<1>1. PICK o \in Orders : /\ orders' = orders (-) SetToBag({o})
                          /\ halted' = (halted \/ o.type = "failed")
                          /\ jobs' = IF halted \/ o.type = "failed" THEN jobs ELSE jobs (+) JobOf(o.stage, JobAttempts, 0)
                          /\ UNCHANGED <<row, docs, run, worker, histories, requests, faults, crashes>>
  BY DEF Orchestrate, Orders, bounds
<1> DEFINE job == [stage |-> o.stage, left |-> JobAttempts, stalls |-> 0]
<1>2. o \in OrderRecord BY DEF TypeOK, QueuesTyped
<1>3. job \in Job BY <1>2, AnalysesAssumption DEF OrderRecord, Job
<1>4. IsABag(orders') /\ Orders' \subseteq Orders /\ Orders \ {o} \subseteq Orders'
  BY <1>1, TakeFromBag DEF TypeOK, QueuesTyped, Orders
<1>5. IsABag(jobs') /\ Jobs' = IF halted' THEN Jobs ELSE Jobs \cup {job}
  <2>1. CASE halted \/ o.type = "failed" BY <1>1, <2>1 DEF TypeOK, QueuesTyped, Jobs
  <2>2. CASE ~ (halted \/ o.type = "failed")
    <3>1. jobs' = jobs (+) SetToBag({job}) /\ ~ halted' BY <1>1, <2>2 DEF JobOf
    <3> QED BY <3>1, AddToBag DEF TypeOK, QueuesTyped, Jobs
  <2> QED BY <2>1, <2>2
<1>6. Orchestrates(o) BY <1>1, <1>4, <1>5 DEF Orchestrates
<1>7. halted' \in BOOLEAN BY <1>1
<1>8. QueuesTyped' BY <1>3, <1>4, <1>5 DEF TypeOK, QueuesTyped
<1>9. TypeOK' BY <1>1, <1>7, <1>8 DEF TypeOK, histories
<1> QED BY <1>2, <1>6, <1>9

-----------------------------------------------------------------------------
(* Documents are built on the approved ones *)

(* What BuiltOnApproved says, by the place of a document                      *)
DocumentsBuilt ==
  \A s \in Stage : \A i \in DOMAIN docs[s] : \A p \in Reads(s) : docs[s][i].inputs[p] >= seen[p]

LEMMA DocumentsBuiltOn ==
  DocumentsRead => (BuiltOnApproved <=> DocumentsBuilt)
  BY DEF DocumentsRead, BuiltOnApproved, DocumentsBuilt, Range

LEMMA BuiltFrom ==
  ASSUME BeyondIsUntouched', SeenExists', JobReadsApproved', DocumentsRead', DocumentsBuilt'
  PROVE  BuiltInvariant'
<1>1. (DocumentsRead => (BuiltOnApproved <=> DocumentsBuilt))'
  BY DEF DocumentsRead, BuiltOnApproved, DocumentsBuilt, Range
<1> QED BY <1>1 DEF BuiltInvariant

LEMMA BuiltParts ==
  ASSUME TypeOK, BuiltInvariant
  PROVE  /\ BeyondIsUntouched /\ SeenExists /\ JobReadsApproved /\ DocumentsRead /\ DocumentsBuilt
         /\ Beyond(row.stage) \subseteq Stage
         /\ \A s \in Stage : (Idle(s) /\ ~ Queued(s)) \/ s \notin Beyond(row.stage)
  BY DocumentsBuiltOn, StageFacts DEF BuiltInvariant, TypeOK, RowRecord, Beyond, BeyondIsUntouched

(* A processor whose stage is not beyond leaves the others as they are.       *)
LEMMA BeyondStays ==
  ASSUME TypeOK, BuiltInvariant, NEW s \in Stage, s \notin Beyond(row.stage), row'.stage = row.stage,
         \A t \in Stage \ {s} : docs'[t] = docs[t], OthersRest(s),
         \A j \in Jobs' : j \in Jobs \/ j.stage = s,
         \A o \in Orders' : o \in Orders \/ o.type # "run"
  PROVE  BeyondIsUntouched'
<1>1. BeyondIsUntouched /\ Beyond(row.stage) \subseteq Stage BY BuiltParts
<1>2. Beyond(row.stage)' = Beyond(row.stage) BY DEF Beyond
<1>3. ASSUME NEW t \in Beyond(row.stage)
      PROVE  docs'[t] = <<>> /\ worker'[t].pc = "idle" /\ (~ Queued(t))' /\ (~ Ordered(t))'
  <2>1. t \in Stage \ {s} /\ docs[t] = <<>> /\ worker[t].pc = "idle" /\ ~ Queued(t) /\ ~ Ordered(t)
    BY <1>1, <1>3 DEF BeyondIsUntouched, Idle, At
  <2>2. docs'[t] = <<>> /\ worker'[t].pc = "idle" BY <2>1 DEF OthersRest
  <2>3. (~ Queued(t))' BY <2>1 DEF Queued
  <2>4. (~ Ordered(t))' BY <2>1 DEF Ordered
  <2> QED BY <2>2, <2>3, <2>4
<1> QED BY <1>2, <1>3 DEF BeyondIsUntouched, Idle, At

LEMMA BuiltByProcessor ==
  ASSUME TypeOK, BuiltInvariant, NEW s \in Stage, Kinds(s)
  PROVE  BuiltInvariant'
<1>a. /\ SeenExists /\ JobReadsApproved /\ DocumentsRead /\ DocumentsBuilt
      /\ ((Idle(s) /\ ~ Queued(s)) \/ s \notin Beyond(row.stage))
  BY BuiltParts
<1>b. docs \in [Stage -> Seq(DocumentRecord)] /\ seen \in [Stage -> Nat] /\ worker \in [Stage -> WorkerRecord]
  BY DEF TypeOK
<1>c. ASSUME UNCHANGED <<docs, seen>> PROVE SeenExists' /\ DocumentsRead' /\ DocumentsBuilt'
  BY <1>a, <1>c DEF SeenExists, DocumentsRead, DocumentsBuilt
<1>d. ASSUME OthersRest(s), UNCHANGED seen,
             worker'[s].pc = "idle" \/ (/\ DOMAIN worker'[s].inputs = Reads(s)
                                        /\ \A p \in Reads(s) : worker'[s].inputs[p] >= seen[p])
      PROVE  JobReadsApproved'
  BY <1>a, <1>d DEF JobReadsApproved, OthersRest, Idle, At
<1>1. CASE \E j \in Job : Takes(s, j)
  <2>1. PICK j \in Job : Takes(s, j) BY <1>1
  <2>2. s \notin Beyond(row.stage) BY <1>a, <2>1 DEF Takes, Queued
  <2>3. BeyondIsUntouched' BY <2>1, <2>2, BeyondStays DEF Takes, Orders
  <2>4. /\ DOMAIN worker'[s].inputs = Reads(s)
        /\ \A p \in Reads(s) : worker'[s].inputs[p] >= seen[p]
    <3>1. \A p \in Reads(s) : p \in Stage /\ Len(docs[p]) \in Nat /\ seen[p] \in Nat /\ seen[p] <= Len(docs[p])
      BY <1>a, <1>b, ReadFacts DEF SeenExists
    <3> QED BY <2>1, <3>1 DEF Takes, Newest
  <2> QED BY <2>1, <2>3, <2>4, <1>c, <1>d, BuiltFrom DEF Takes, histories
<1>2. CASE GoesOn(s)
  <2>1. s \notin Beyond(row.stage) BY <1>a, <1>2 DEF GoesOn
  <2>2. BeyondIsUntouched' BY <1>2, <2>1, BeyondStays DEF GoesOn, Jobs, Orders
  <2>3. /\ DOMAIN worker'[s].inputs = Reads(s)
        /\ \A p \in Reads(s) : worker'[s].inputs[p] >= seen[p]
    BY <1>a, <1>2 DEF GoesOn, Keeps, JobReadsApproved
  <2> QED BY <1>2, <2>2, <2>3, <1>c, <1>d, BuiltFrom DEF GoesOn, histories
<1>3. CASE Saves(s)
  <2>1. ~ Idle(s) /\ s \notin Beyond(row.stage) BY <1>a, <1>3 DEF Saves, At, Idle
  <2>2. BeyondIsUntouched' BY <1>3, <2>1, BeyondStays DEF Saves, Jobs, Orders
  <2>3. /\ DOMAIN worker[s].inputs = Reads(s)
        /\ \A p \in Reads(s) : worker[s].inputs[p] >= seen[p]
    BY <1>a, <2>1 DEF JobReadsApproved
  <2>4. JobReadsApproved' BY <1>3, <2>3, <1>d DEF Saves, Keeps, histories
  <2> DEFINE document == Document(worker[s].content, worker[s].feedback, worker[s].inputs)
  <2>5. document.inputs = worker[s].inputs BY DEF Document
  <2> HIDE DEF document
  <2>6. docs[s] \in Seq(DocumentRecord) /\ docs'[s] = Append(docs[s], document)
    BY <1>3, <1>b DEF Saves, document
  <2>7. /\ Len(docs'[s]) = Len(docs[s]) + 1 /\ Len(docs[s]) \in Nat
        /\ \A i \in DOMAIN docs'[s] : docs'[s][i] = document \/ (i \in DOMAIN docs[s] /\ docs'[s][i] = docs[s][i])
    BY <2>6
  <2>8. (\A t \in Stage \ {s} : docs'[t] = docs[t]) /\ UNCHANGED seen BY <1>3 DEF Saves, histories
  <2>9. SeenExists'
    <3>1. \A t \in Stage : seen[t] \in Nat /\ Len(docs[t]) \in Nat /\ seen[t] <= Len(docs[t])
      BY <1>a, <1>b DEF SeenExists
    <3>2. \A t \in Stage : Len(docs'[t]) = Len(docs[t]) \/ Len(docs'[t]) = Len(docs[t]) + 1 BY <2>7, <2>8
    <3>3. \A t \in Stage : seen[t] <= Len(docs'[t]) BY <3>1, <3>2
    <3> QED BY <2>8, <3>3 DEF SeenExists
  <2>10. DocumentsRead' BY <1>a, <2>3, <2>5, <2>7, <2>8 DEF DocumentsRead
  <2>11. DocumentsBuilt' BY <1>a, <2>3, <2>5, <2>7, <2>8 DEF DocumentsBuilt
  <2> QED BY <2>2, <2>4, <2>9, <2>10, <2>11, BuiltFrom
<1>4. CASE LeavesDone(s) \/ (\E left, stalls \in Nat : LeavesJob(s, left, stalls)) \/ DropsJob(s)
  <2>1. Leaves(s) BY <1>4 DEF LeavesDone, LeavesJob, DropsJob
  <2>2. s \notin Beyond(row.stage) BY <1>a, <2>1 DEF Leaves
  <2>3. \A j \in Jobs' : j \in Jobs \/ j.stage = s BY <1>4 DEF LeavesDone, LeavesJob, DropsJob, Jobs
  <2>4. \A o \in Orders' : o \in Orders \/ o.type # "run"
    BY <1>4 DEF LeavesDone, LeavesJob, DropsJob, StallsTooOften, GivesUp, Orders
  <2>5. BeyondIsUntouched' BY <2>1, <2>2, <2>3, <2>4, BeyondStays DEF Leaves
  <2> QED BY <2>1, <2>5, <1>c, <1>d, BuiltFrom DEF Leaves
<1> QED BY <1>1, <1>2, <1>3, <1>4 DEF Kinds

LEMMA BuiltByOthers ==
  ASSUME TypeOK, BuiltInvariant, Approves \/ Requests \/ \E o \in OrderRecord : Orchestrates(o)
  PROVE  BuiltInvariant'
<1>a. /\ BeyondIsUntouched /\ SeenExists /\ JobReadsApproved /\ DocumentsRead /\ DocumentsBuilt
      /\ Beyond(row.stage) \subseteq Stage
  BY BuiltParts
<1>b. docs \in [Stage -> Seq(DocumentRecord)] /\ seen \in [Stage -> Nat]
  BY DEF TypeOK
<1>u. BeyondIsUntouched =
        \A t \in Beyond(row.stage) : docs[t] = <<>> /\ worker[t].pc = "idle" /\ ~ Queued(t) /\ ~ Ordered(t)
  BY DEF BeyondIsUntouched, Idle, At
<1>1. CASE Approves
  <2>1. row.stage \in Stage /\ UNCHANGED <<docs, jobs, worker>> BY <1>1 DEF Approves
  <2>2. Beyond(row.stage)' \subseteq Beyond(row.stage) /\ row'.stage \notin Beyond(row.stage)'
        /\ row.stage \notin Beyond(row.stage)
    BY <1>1, AfterFacts, ReadFacts DEF Approves, Beyond
  <2>3. \A o \in Orders' : o \in Orders \/ o.stage = row'.stage BY <1>1 DEF Approves
  <2>4. ASSUME NEW t \in Beyond(row.stage)'
        PROVE  docs'[t] = <<>> /\ worker'[t].pc = "idle" /\ (~ Queued(t))' /\ (~ Ordered(t))'
    <3>1. t \in Stage /\ docs[t] = <<>> /\ worker[t].pc = "idle" /\ ~ Queued(t) /\ ~ Ordered(t) /\ t # row'.stage
      BY <1>a, <1>u, <2>2, <2>4
    <3>2. (~ Ordered(t))' BY <2>3, <3>1 DEF Ordered
    <3>3. Jobs' = Jobs BY <2>1 DEF Jobs
    <3>4. (~ Queued(t))' BY <3>1, <3>3 DEF Queued
    <3> QED BY <2>1, <3>1, <3>2, <3>4
  <2>5. BeyondIsUntouched' BY <2>4 DEF BeyondIsUntouched, Idle, At
  <2>6. \A s \in Stage : row.stage \in Reads(s) => docs[s] = <<>> /\ worker[s].pc = "idle"
    BY <1>a, <1>u, ReadFacts
  <2>7. \A s \in Stage : seen'[s] = seen[s] \/ (s = row.stage /\ seen'[s] = Len(docs[s])) BY <1>1 DEF Approves
  <2>8. SeenExists'
    <3>1. \A s \in Stage : Len(docs[s]) \in Nat BY <1>b
    <3>2. \A s \in Stage : seen'[s] <= Len(docs[s]) BY <1>a, <2>7, <3>1 DEF SeenExists
    <3> QED BY <2>1, <3>2 DEF SeenExists
  <2>9. JobReadsApproved'
    <3>1. ASSUME NEW s \in Stage, worker[s].pc # "idle"
          PROVE  DOMAIN worker[s].inputs = Reads(s) /\ \A p \in Reads(s) : worker[s].inputs[p] >= seen'[p]
      BY <1>a, <2>6, <2>7, <3>1, ReadFacts DEF JobReadsApproved, Idle, At
    <3> QED BY <2>1, <3>1 DEF JobReadsApproved, Idle, At
  <2>10. DocumentsRead' BY <1>a, <2>1 DEF DocumentsRead
  <2>11. DocumentsBuilt'
    <3>1. ASSUME NEW s \in Stage, NEW i \in DOMAIN docs[s], NEW p \in Reads(s)
          PROVE  docs[s][i].inputs[p] >= seen'[p]
      <4>1. docs[s] # <<>> BY <3>1
      <4>2. p \in Stage /\ p # row.stage BY <2>6, <4>1, ReadFacts
      <4> QED BY <1>a, <2>7, <4>2 DEF DocumentsBuilt
    <3> QED BY <2>1, <3>1 DEF DocumentsBuilt
  <2> QED BY <2>5, <2>8, <2>9, <2>10, <2>11, BuiltFrom
<1>2. CASE Requests \/ \E o \in OrderRecord : Orchestrates(o)
  <2>1. UNCHANGED <<docs, worker, seen>> /\ row'.stage = row.stage BY <1>2 DEF Requests, Orchestrates, histories
  <2>2. Beyond(row.stage)' = Beyond(row.stage) BY <2>1 DEF Beyond
  <2>3. ASSUME NEW t \in Beyond(row.stage) PROVE (~ Queued(t))' /\ (~ Ordered(t))'
    <3>1. t \in Stage /\ ~ Queued(t) /\ ~ Ordered(t) BY <1>a, <1>u
    <3>2. CASE Requests
      <4>1. t # row.stage BY <3>2, ReadFacts DEF Requests
      <4> QED BY <3>1, <3>2, <4>1 DEF Requests, Queued, Ordered, Jobs
    <3>3. CASE \E o \in OrderRecord : Orchestrates(o)
      <4>1. PICK o \in OrderRecord : Orchestrates(o) BY <3>3
      <4>2. (~ Ordered(t))' BY <3>1, <4>1 DEF Orchestrates, Ordered
      <4>3. o.type = "failed" \/ o.stage # t BY <3>1, <4>1 DEF Orchestrates, Ordered, OrderRecord
      <4>4. o.type = "failed" => Jobs' = Jobs BY <4>1 DEF Orchestrates
      <4>5. Jobs' \subseteq Jobs \cup {[stage |-> o.stage, left |-> JobAttempts, stalls |-> 0]} BY <4>1 DEF Orchestrates
      <4>6. \A j \in Jobs' : j.stage # t BY <3>1, <4>3, <4>4, <4>5 DEF Queued
      <4>7. (~ Queued(t))' BY <4>6 DEF Queued
      <4> QED BY <4>2, <4>7
    <3> QED BY <1>2, <3>2, <3>3
  <2>4. BeyondIsUntouched' BY <1>a, <1>u, <2>1, <2>2, <2>3 DEF BeyondIsUntouched, Idle, At
  <2>5. SeenExists' /\ DocumentsRead' /\ DocumentsBuilt' BY <1>a, <2>1 DEF SeenExists, DocumentsRead, DocumentsBuilt
  <2>6. JobReadsApproved' BY <1>a, <2>1 DEF JobReadsApproved, Idle, At
  <2> QED BY <2>4, <2>5, <2>6, BuiltFrom
<1> QED BY <1>1, <1>2

-----------------------------------------------------------------------------
(* Feedback is taken up *)

LEMMA FeedbackTyped ==
  ASSUME TypeOK, NEW s \in Stage
  PROVE  /\ row.feedback \in Nat /\ requests \in Nat /\ asked[s] \in Nat /\ worker[s].feedback \in Nat
         /\ docs[s] # <<>> => NewestFeedback(s) \in Nat
         /\ docs[s] \in Seq(DocumentRecord)
<1>1. docs[s] \in Seq(DocumentRecord) BY DEF TypeOK
<1>2. docs[s] # <<>> => docs[s][Len(docs[s])] \in DocumentRecord BY <1>1
<1>3. docs[s] # <<>> => NewestFeedback(s) \in Nat BY <1>2 DEF NewestFeedback, DocumentRecord
<1> QED BY <1>1, <1>3 DEF TypeOK, RowRecord, WorkerRecord

(* A step that leaves a stage's documents, feedback and worker as they are    *)
LEMMA FeedbackStays ==
  ASSUME TypeOK, NEW t \in Stage, FeedbackBetween(t), FeedbackUnderWay(t),
         row'.feedback = row.feedback, docs'[t] = docs[t], worker'[t] = worker[t], asked'[t] = asked[t],
         halted => halted', Queued(t) => Queued(t)' \/ halted',
         Ordered(t) => Ordered(t)' \/ Queued(t)' \/ halted'
  PROVE  FeedbackBetween(t)' /\ FeedbackUnderWay(t)'
<1>1. NewestFeedback(t)' = NewestFeedback(t) BY DEF NewestFeedback
<1>2. FeedbackBetween(t)' BY <1>1 DEF FeedbackBetween, Idle, At, Heeded
<1>3. FeedbackUnderWay(t)' BY <1>1 DEF FeedbackUnderWay, Idle, At, Heeded
<1> QED BY <1>2, <1>3

LEMMA FeedbackByProcessor ==
  ASSUME TypeOK, FeedbackInvariant, NEW s \in Stage, Kinds(s)
  PROVE  FeedbackInvariant'
<1>a. OthersRest(s) /\ row'.feedback = row.feedback /\ requests' = requests /\ halted' = halted
      /\ \A t \in Stage \ {s} : docs'[t] = docs[t] /\ asked'[t] = asked[t]
  BY DEF Kinds, Takes, GoesOn, Saves, LeavesDone, LeavesJob, DropsJob, Leaves, histories
<1>b. ASSUME NEW t \in Stage \ {s}, TakesFeedback(t) PROVE FeedbackBetween(t)' /\ FeedbackUnderWay(t)'
  <2>1. \A j \in Jobs : j \in Jobs' \/ j.stage = s
    BY DEF Kinds, Takes, GoesOn, Saves, LeavesDone, LeavesJob, DropsJob, Jobs
  <2>2. Orders \subseteq Orders'
    BY DEF Kinds, Takes, GoesOn, Saves, LeavesDone, LeavesJob, DropsJob, StallsTooOften, GivesUp, Orders
  <2>3. Queued(t) => Queued(t)' BY <2>1, <1>b DEF Queued
  <2>4. Ordered(t) => Ordered(t)' BY <2>2 DEF Ordered
  <2> QED BY <1>a, <1>b, <2>3, <2>4, FeedbackStays DEF FeedbackInvariant, OthersRest
<1>c. ASSUME TakesFeedback(s) PROVE FeedbackBetween(s)' /\ FeedbackUnderWay(s)'
  <2>a. FeedbackBetween(s) /\ FeedbackUnderWay(s) BY <1>c DEF FeedbackInvariant
  <2>b. /\ row.feedback \in Nat /\ asked[s] \in Nat /\ worker[s].feedback \in Nat
        /\ docs[s] # <<>> => NewestFeedback(s) \in Nat
        /\ docs[s] \in Seq(DocumentRecord)
    BY FeedbackTyped
  <2>c. docs'[s] = docs[s] => NewestFeedback(s)' = NewestFeedback(s) BY DEF NewestFeedback
  <2>1. CASE \E j \in Job : Takes(s, j)
    <3>1. /\ worker'[s].pc = "start" /\ worker'[s].feedback = row.feedback /\ UNCHANGED <<row, docs, asked>>
      BY <1>c, <2>1 DEF Takes, histories
    <3>2. FeedbackBetween(s)' BY <2>a, <2>b, <2>c, <3>1 DEF FeedbackBetween, Idle, At
    <3>3. FeedbackUnderWay(s)' BY <2>a, <2>b, <3>1 DEF FeedbackBetween, FeedbackUnderWay, Idle, At
    <3> QED BY <3>2, <3>3
  <2>2. CASE GoesOn(s)
    <3>1. /\ worker[s].pc # "idle" /\ worker'[s].pc # "idle" /\ worker'[s].feedback = worker[s].feedback
          /\ row'.feedback = row.feedback /\ UNCHANGED <<docs, asked, halted, jobs, orders>>
          /\ worker'[s].pc \in {"ready", "complete", "emit"} => worker[s].pc \in {"ready", "complete", "emit"}
      BY <2>2 DEF GoesOn, Keeps, Idle, At, histories
    <3>2. FeedbackBetween(s)' BY <2>a, <2>c, <3>1 DEF FeedbackBetween, Idle, At, Heeded
    <3>3. (Ordered(s) => Ordered(s)') /\ (Queued(s) => Queued(s)') BY <3>1 DEF Ordered, Queued, Orders, Jobs
    <3>4. FeedbackUnderWay(s)' BY <2>a, <2>c, <3>1, <3>3 DEF FeedbackUnderWay, Idle, At, Heeded
    <3> QED BY <3>2, <3>4
  <2>3. CASE Saves(s)
    <3> DEFINE document == Document(worker[s].content, worker[s].feedback, worker[s].inputs)
    <3>1. /\ worker[s].pc = "save" /\ worker'[s].pc = "ready" /\ worker'[s].feedback = worker[s].feedback
          /\ UNCHANGED <<row, asked, halted, jobs, orders>> /\ docs'[s] = Append(docs[s], document)
      BY <2>3 DEF Saves, Keeps, At, histories
    <3>2. document.feedback = worker[s].feedback BY DEF Document
    <3> HIDE DEF document
    <3>3. docs'[s] # <<>> /\ docs'[s][Len(docs'[s])] = document BY <2>b, <3>1
    <3>4. NewestFeedback(s)' = worker[s].feedback BY <3>2, <3>3 DEF NewestFeedback
    <3>5. FeedbackBetween(s)' BY <2>a, <2>b, <3>1, <3>3, <3>4 DEF FeedbackBetween, Idle, At, Heeded
    <3>6. FeedbackUnderWay(s)'
      <4>1. (Ordered(s) => Ordered(s)') /\ (Queued(s) => Queued(s)') BY <3>1 DEF Ordered, Queued, Orders, Jobs
      <4>2. docs[s] # <<>> => NewestFeedback(s) <= worker[s].feedback BY <2>a, <3>1 DEF FeedbackBetween, Idle, At
      <4>3. Heeded(s, asked[s]) \/ worker[s].feedback >= asked[s] => Heeded(s, asked[s])'
        BY <2>b, <3>1, <3>3, <3>4, <4>2 DEF Heeded
      <4> QED BY <2>a, <3>1, <4>1, <4>3 DEF FeedbackUnderWay
    <3> QED BY <3>5, <3>6
  <2>4. CASE LeavesDone(s) \/ (\E left, stalls \in Nat : LeavesJob(s, left, stalls)) \/ DropsJob(s)
    <3>1. /\ worker[s].pc # "idle" /\ worker'[s].pc = "idle" /\ UNCHANGED <<row, docs, halted>>
      BY <2>4 DEF LeavesDone, LeavesJob, DropsJob, Leaves, Idle, At
    <3>2. asked'[s] = asked[s] \/ asked'[s] = 0 BY <2>4 DEF LeavesDone, LeavesJob, DropsJob
    <3>3. FeedbackBetween(s)' BY <2>a, <2>b, <2>c, <3>1, <3>2 DEF FeedbackBetween, Idle, At, Heeded
    <3>4. CASE LeavesDone(s)
      <4>1. worker[s].pc = "emit" /\ UNCHANGED <<jobs, orders, asked>> BY <3>4 DEF LeavesDone, At
      <4>2. (Ordered(s) => Ordered(s)') /\ (Queued(s) => Queued(s)') BY <4>1 DEF Ordered, Queued, Orders, Jobs
      <4>3. Heeded(s, worker[s].feedback) BY <2>a, <4>1 DEF FeedbackBetween
      <4>4. worker[s].feedback >= asked[s] => Heeded(s, asked[s]) BY <2>b, <4>3 DEF Heeded
      <4>5. Heeded(s, asked[s]) => Heeded(s, asked[s])' BY <2>c, <3>1, <4>1 DEF Heeded
      <4> QED BY <2>a, <3>1, <3>3, <4>1, <4>2, <4>4, <4>5 DEF FeedbackUnderWay
    <3>5. CASE \E left, stalls \in Nat : LeavesJob(s, left, stalls)
      <4>1. PICK left \in Nat, stalls \in Nat : Jobs' = Jobs \cup {[stage |-> s, left |-> left, stalls |-> stalls]}
        BY <3>5 DEF LeavesJob
      <4> DEFINE job == [stage |-> s, left |-> left, stalls |-> stalls]
      <4>2. job \in Jobs' /\ job.stage = s BY <4>1
      <4>3. Queued(s)' BY <4>2 DEF Queued
      <4> QED BY <3>3, <4>3 DEF FeedbackUnderWay
    <3>6. CASE DropsJob(s) BY <3>3, <3>6 DEF DropsJob, FeedbackUnderWay
    <3> QED BY <2>4, <3>4, <3>5, <3>6
  <2> QED BY <2>1, <2>2, <2>3, <2>4 DEF Kinds
<1>d. (row.feedback <= requests)' BY <1>a DEF FeedbackInvariant
<1> QED BY <1>b, <1>c, <1>d DEF FeedbackInvariant, TakesFeedback

LEMMA FeedbackByOthers ==
  ASSUME TypeOK, TypeOK', FeedbackInvariant, Approves \/ Requests \/ \E o \in OrderRecord : Orchestrates(o)
  PROVE  FeedbackInvariant'
<1>1. CASE Approves
  <2>1. UNCHANGED <<docs, jobs, halted, worker, asked, requests>> /\ row'.feedback = row.feedback
        /\ Orders \subseteq Orders'
    BY <1>1 DEF Approves
  <2>2. \A t \in Stage : (Queued(t) => Queued(t)') /\ (Ordered(t) => Ordered(t)')
    BY <2>1 DEF Queued, Ordered, Jobs
  <2>3. \A t \in Stage : TakesFeedback(t) => FeedbackBetween(t)' /\ FeedbackUnderWay(t)'
    BY <2>1, <2>2, FeedbackStays DEF FeedbackInvariant
  <2> QED BY <2>1, <2>3 DEF FeedbackInvariant, TakesFeedback
<1>2. CASE Requests
  <2>1. UNCHANGED <<docs, jobs, halted, worker>> /\ Orders \subseteq Orders' /\ row.stage \in Stage /\ requests' >= requests
    BY <1>2 DEF Requests
  <2>2. \A t \in Stage : (Queued(t) => Queued(t)') /\ (Ordered(t) => Ordered(t)')
    BY <2>1 DEF Queued, Ordered, Jobs
  <2>n. row.feedback \in Nat /\ requests \in Nat /\ requests' \in Nat BY DEF TypeOK, RowRecord
  <2>3. CASE row'.feedback = row.feedback /\ UNCHANGED asked
    <3>1. \A t \in Stage : TakesFeedback(t) => FeedbackBetween(t)' /\ FeedbackUnderWay(t)'
      BY <2>1, <2>2, <2>3, FeedbackStays DEF FeedbackInvariant
    <3> QED BY <2>1, <2>n, <2>3, <3>1 DEF FeedbackInvariant, TakesFeedback
  <2>4. CASE row'.feedback = requests' /\ \A t \in Stage : asked'[t] = IF t = row.stage THEN requests' ELSE asked[t]
    <3>1. row.feedback <= requests' BY <2>1, <2>n DEF FeedbackInvariant
    <3>2. ASSUME NEW t \in Stage, TakesFeedback(t) PROVE FeedbackBetween(t)' /\ FeedbackUnderWay(t)'
      <4>a. FeedbackBetween(t) /\ FeedbackUnderWay(t) BY <3>2 DEF FeedbackInvariant
      <4>b. /\ asked[t] \in Nat /\ worker[t].feedback \in Nat
            /\ docs[t] # <<>> => NewestFeedback(t) \in Nat
        BY FeedbackTyped
      <4>c. NewestFeedback(t)' = NewestFeedback(t) BY <2>1 DEF NewestFeedback
      <4>d. /\ asked[t] <= requests'
            /\ worker[t].pc # "idle" => worker[t].feedback <= requests'
            /\ docs[t] # <<>> => NewestFeedback(t) <= requests'
        BY <2>n, <3>1, <4>a, <4>b DEF FeedbackBetween, Idle, At
      <4>1. FeedbackBetween(t)'
        <5>1. asked'[t] <= row'.feedback BY <2>n, <2>1, <2>4, <4>d
        <5> QED BY <2>1, <2>4, <4>a, <4>c, <4>d, <5>1 DEF FeedbackBetween, Idle, At, Heeded
      <4>2. CASE t = row.stage
        <5>1. [type |-> "run", stage |-> t] \in Orders' BY <1>2, <4>2 DEF Requests
        <5>2. Ordered(t)' BY <5>1 DEF Ordered
        <5> QED BY <4>1, <5>2 DEF FeedbackUnderWay
      <4>3. CASE t # row.stage
        <5>1. asked'[t] = asked[t] BY <2>4, <4>3
        <5>2. FeedbackUnderWay(t)' BY <2>1, <2>2, <4>a, <4>c, <5>1 DEF FeedbackUnderWay, Idle, At, Heeded
        <5> QED BY <4>1, <5>2
      <4> QED BY <4>2, <4>3
    <3> QED BY <2>4, <2>n, <3>2 DEF FeedbackInvariant, TakesFeedback
  <2> QED BY <1>2, <2>3, <2>4 DEF Requests
<1>3. CASE \E o \in OrderRecord : Orchestrates(o)
  <2>1. PICK o \in OrderRecord : Orchestrates(o) BY <1>3
  <2>2. UNCHANGED <<row, docs, worker, asked, requests>> /\ Jobs \subseteq Jobs' /\ (halted => halted')
    BY <2>1 DEF Orchestrates, histories
  <2>3. \A t \in Stage : Queued(t) => Queued(t)' BY <2>2 DEF Queued
  <2>4. ASSUME NEW t \in Stage, Ordered(t) PROVE Ordered(t)' \/ Queued(t)' \/ halted'
    <3>1. PICK r \in Orders : r.type = "run" /\ r.stage = t BY <2>4 DEF Ordered
    <3>2. CASE r # o
      <4>1. r \in Orders' BY <2>1, <3>1, <3>2 DEF Orchestrates
      <4> QED BY <3>1, <4>1 DEF Ordered
    <3>3. CASE r = o /\ ~ halted'
      <4>1. [stage |-> t, left |-> JobAttempts, stalls |-> 0] \in Jobs' BY <2>1, <3>1, <3>3 DEF Orchestrates
      <4> QED BY <4>1 DEF Queued
    <3> QED BY <3>2, <3>3
  <2>5. \A t \in Stage : TakesFeedback(t) => FeedbackBetween(t)' /\ FeedbackUnderWay(t)'
    BY <2>2, <2>3, <2>4, FeedbackStays DEF FeedbackInvariant
  <2> QED BY <2>2, <2>5 DEF FeedbackInvariant, TakesFeedback
<1> QED BY <1>1, <1>2, <1>3

-----------------------------------------------------------------------------
(* A workflow at rest can be taken further *)

LEMMA StallsByProcessor ==
  ASSUME TypeOK, TypeOK', StallsCounted, NEW s \in Stage, Kinds(s)
  PROVE  StallsCounted'
<1>a. OthersRest(s) BY DEF Kinds, Takes, GoesOn, Saves, LeavesDone, LeavesJob, DropsJob, Leaves
<1>b. /\ crashes \in Nat /\ crashes' \in Nat /\ \A j \in Jobs : j.stalls \in Nat
      /\ \A t \in Stage : worker[t].stalls \in Nat
  BY DEF TypeOK, QueuesTyped, Job, WorkerRecord
<1>c. /\ \A j \in Jobs : j.stalls <= crashes
      /\ \A t \in Stage : worker[t].pc # "idle" => worker[t].stalls <= crashes
  BY DEF StallsCounted, Idle, At
<1>m. ASSUME crashes' >= crashes, \A j \in Jobs' : j \in Jobs \/ j.stalls <= crashes',
             worker'[s].pc = "idle" \/ worker'[s].stalls <= crashes'
      PROVE  StallsCounted'
  <2>1. \A j \in Jobs' : j.stalls <= crashes' BY <1>b, <1>c, <1>m
  <2>2. \A t \in Stage : worker'[t].pc # "idle" => worker'[t].stalls <= crashes'
    BY <1>a, <1>b, <1>c, <1>m DEF OthersRest
  <2> QED BY <2>1, <2>2 DEF StallsCounted, Idle, At
<1>1. CASE \E j \in Job : Takes(s, j) BY <1>1, <1>b, <1>c, <1>m DEF Takes
<1>2. CASE GoesOn(s) \/ Saves(s)
  <2>1. /\ worker[s].pc # "idle" /\ worker'[s].stalls = worker[s].stalls /\ Jobs' = Jobs /\ crashes' = crashes
    BY <1>2 DEF GoesOn, Saves, Keeps, Idle, At, Jobs
  <2> QED BY <2>1, <1>b, <1>c, <1>m
<1>3. CASE LeavesDone(s) \/ DropsJob(s) BY <1>3, <1>m DEF LeavesDone, DropsJob, Leaves, Jobs
<1>4. CASE \E left, stalls \in Nat : LeavesJob(s, left, stalls)
  <2>1. PICK left \in Nat, stalls \in Nat : LeavesJob(s, left, stalls) BY <1>4
  <2>2. worker[s].pc # "idle" /\ worker'[s].pc = "idle" /\ crashes' >= crashes
    BY <2>1 DEF LeavesJob, Leaves, Idle, At
  <2>3. stalls <= crashes' BY <1>b, <1>c, <2>1, <2>2 DEF LeavesJob
  <2>4. \A j \in Jobs' : j \in Jobs \/ j.stalls = stalls BY <2>1 DEF LeavesJob
  <2> QED BY <1>m, <2>2, <2>3, <2>4
<1> QED BY <1>1, <1>2, <1>3, <1>4 DEF Kinds

LEMMA StallsByOthers ==
  ASSUME TypeOK, StallsCounted, Approves \/ Requests \/ \E o \in OrderRecord : Orchestrates(o)
  PROVE  StallsCounted'
<1>1. UNCHANGED <<worker, crashes>> BY DEF Approves, Requests, Orchestrates
<1>2. \A j \in Jobs' : j \in Jobs \/ j.stalls = 0
  BY DEF Approves, Requests, Orchestrates, Jobs
<1>3. crashes \in Nat BY DEF TypeOK
<1> QED BY <1>1, <1>2, <1>3 DEF StallsCounted, Idle, At

LEMMA RestByProcessor ==
  ASSUME TypeOK, TypeOK', RestInvariant, StallsCounted, NEW s \in Stage, Kinds(s)
  PROVE  RestInvariant'
<1>s. StallsCounted OBVIOUS
<1>a. OthersRest(s) /\ row'.stage = row.stage /\ halted' = halted /\ Orders \subseteq Orders'
  BY DEF Kinds, Takes, GoesOn, Saves, LeavesDone, LeavesJob, DropsJob, StallsTooOften, GivesUp, Leaves, Orders
<1>b. /\ faults \in Nat /\ faults' \in Nat /\ worker[s].left \in Nat /\ JobAttempts \in Nat
      /\ \A j \in Jobs : j.left \in Nat
      /\ \A t \in Stage : worker[t].left \in Nat
  BY AnalysesAssumption DEF TypeOK, WorkerRecord, QueuesTyped, Job
<1>c. faults' >= faults
  <2>1. faults' = faults \/ faults' >= faults
    BY DEF Kinds, Takes, GoesOn, Saves, LeavesDone, LeavesJob, DropsJob, Leaves
  <2> QED BY <1>b, <2>1
<1>k. /\ crashes \in Nat /\ crashes' \in Nat /\ MaxStalledCount \in Nat /\ crashes' >= crashes
  <2>1. /\ crashes \in Nat /\ crashes' \in Nat BY DEF TypeOK
  <2>2. crashes' = crashes \/ crashes' >= crashes
    BY DEF Kinds, Takes, GoesOn, Saves, LeavesDone, LeavesJob, DropsJob, Leaves
  <2> QED BY <2>1, <2>2, AnalysesAssumption
<1>h. HaltPending => HaltPending' BY <1>a DEF HaltPending
<1>f. ASSUME Orders' = Orders \cup {[type |-> "failed", stage |-> s]} PROVE HaltPending'
  <2>1. [type |-> "failed", stage |-> s] \in Orders' BY <1>f
  <2> QED BY <2>1 DEF HaltPending
<1>o. \A t \in Stage : Ordered(t) => Ordered(t)' BY <1>a DEF Ordered
<1>q. \A t \in Stage \ {s} : (Queued(t) => Queued(t)') /\ (WritesStatus(t) => WritesStatus(t)')
  <2>1. \A j \in Jobs : j \in Jobs' \/ j.stage = s
    BY DEF Kinds, Takes, GoesOn, Saves, LeavesDone, LeavesJob, DropsJob, Jobs
  <2> QED BY <1>a, <2>1 DEF Queued, WritesStatus, OthersRest
<1>m. ASSUME ~ HaltPending,
             \A j \in Jobs' : j \in Jobs \/ j.left + faults' >= JobAttempts,
             worker'[s].pc = "idle" \/ worker'[s].left + faults' >= JobAttempts
      PROVE  AttemptsCounted'
  <2>1. \A j \in Jobs : j.left + faults >= JobAttempts BY <1>m DEF RestInvariant, AttemptsCounted
  <2>2. \A j \in Jobs' : j.left + faults' >= JobAttempts BY <1>b, <1>c, <1>m, <2>1
  <2>3. \A t \in Stage \ {s} : worker[t].pc # "idle" => worker[t].left + faults' >= JobAttempts
    BY <1>b, <1>c, <1>m DEF RestInvariant, AttemptsCounted, Idle, At
  <2>4. \A t \in Stage : worker'[t].pc # "idle" => worker'[t].left + faults' >= JobAttempts
    BY <1>a, <1>m, <2>3 DEF OthersRest
  <2> QED BY <2>2, <2>4 DEF AttemptsCounted, Idle, At
<1>w. ASSUME ~ HaltPending' , row'.status = row.status,
             Queued(s) \/ WritesStatus(s) => Queued(s)' \/ WritesStatus(s)' \/ faults' >= JobAttempts
      PROVE  AnswerUnderWay'
  <2>1. faults >= JobAttempts => faults' >= JobAttempts BY <1>b, <1>c
  <2>2. crashes > MaxStalledCount => crashes' > MaxStalledCount BY <1>k
  <2> QED BY <1>a, <1>h, <1>o, <1>q, <1>w, <2>1, <2>2 DEF RestInvariant, AnswerUnderWay
<1>x. HaltPending' => RestInvariant' BY DEF RestInvariant, AttemptsCounted, AnswerUnderWay
<1>y. ~ HaltPending => (\A j \in Jobs : j.left + faults >= JobAttempts)
                       /\ (worker[s].pc # "idle" => worker[s].left + faults >= JobAttempts)
  BY DEF RestInvariant, AttemptsCounted, Idle, At
<1>1. CASE \E j \in Job : Takes(s, j)
  <2>1. PICK j \in Job : Takes(s, j) BY <1>1
  <2>2. ~ HaltPending => worker'[s].left + faults' >= JobAttempts BY <2>1, <1>y DEF Takes
  <2>3. ~ HaltPending => AttemptsCounted' BY <1>m, <2>1, <2>2 DEF Takes
  <2>4. WritesStatus(s)' BY <2>1 DEF Takes, WritesStatus
  <2> QED BY <1>h, <1>x, <1>w, <2>1, <2>3, <2>4 DEF Takes, RestInvariant
<1>2. CASE GoesOn(s)
  <2>1. Jobs' = Jobs /\ worker'[s].left = worker[s].left /\ worker[s].pc # "idle"
    BY <1>2 DEF GoesOn, Keeps, Jobs, Idle, At
  <2>2. ~ HaltPending => worker'[s].left + faults' >= JobAttempts BY <1>b, <1>c, <1>y, <2>1
  <2>3. ~ HaltPending => AttemptsCounted' BY <1>m, <2>1, <2>2
  <2>4. ~ HaltPending' => AnswerUnderWay'
    <3>1. CASE row'.status \in {"ready", "blocked"} BY <3>1 DEF AnswerUnderWay
    <3>2. CASE WritesStatus(s)' BY <3>2 DEF AnswerUnderWay
    <3>3. CASE ~ WritesStatus(s) /\ row' = row
      <4>1. Queued(s) => Queued(s)' BY <2>1 DEF Queued
      <4> QED BY <1>w, <3>3, <4>1
    <3> QED BY <1>2, <3>1, <3>2, <3>3 DEF GoesOn
  <2> QED BY <1>h, <1>x, <2>3, <2>4 DEF RestInvariant
<1>3. CASE Saves(s)
  <2>1. Jobs' = Jobs /\ worker'[s].left = worker[s].left /\ worker[s].pc # "idle"
    BY <1>3 DEF Saves, Keeps, Jobs, At
  <2>2. ~ HaltPending => worker'[s].left + faults' >= JobAttempts BY <1>b, <1>c, <1>y, <2>1
  <2>3. ~ HaltPending => AttemptsCounted' BY <1>m, <2>1, <2>2
  <2>4. WritesStatus(s)' BY <1>3 DEF Saves, WritesStatus
  <2> QED BY <1>h, <1>x, <2>3, <2>4 DEF RestInvariant, AnswerUnderWay
<1>4. CASE LeavesDone(s)
  <2>1. Jobs' = Jobs /\ worker'[s].pc = "idle" /\ ~ WritesStatus(s) /\ row' = row
    BY <1>4 DEF LeavesDone, Leaves, Jobs, At, WritesStatus
  <2>2. ~ HaltPending => AttemptsCounted' BY <1>m, <2>1
  <2>3. Queued(s) => Queued(s)' BY <2>1 DEF Queued
  <2> QED BY <1>h, <1>x, <1>w, <2>1, <2>2, <2>3 DEF RestInvariant
<1>5. CASE \E left, stalls \in Nat : LeavesJob(s, left, stalls)
  <2>1. PICK left \in Nat, stalls \in Nat : LeavesJob(s, left, stalls) BY <1>5
  <2> DEFINE job == [stage |-> s, left |-> left, stalls |-> stalls]
  <2>2. Jobs' = Jobs \cup {job} /\ worker[s].pc # "idle" /\ worker'[s].pc = "idle" /\ row' = row
    BY <2>1 DEF LeavesJob, Leaves, Idle, At
  <2>3. job \in Jobs' /\ job.stage = s BY <2>2
  <2>4. Queued(s)' BY <2>3 DEF Queued
  <2> HIDE DEF job
  <2>j. job.left = left BY DEF job
  <2>5. AttemptsCounted' \/ HaltPending'
    <3>1. CASE left = worker[s].left
      <4>1. ~ HaltPending => job.left + faults' >= JobAttempts BY <1>b, <1>c, <1>y, <2>2, <2>j, <3>1
      <4> QED BY <1>h, <1>m, <2>2, <4>1
    <3>2. CASE left = worker[s].left - 1 /\ faults' = faults + 1
      <4>1. ~ HaltPending => job.left + faults' >= JobAttempts BY <1>b, <1>y, <2>2, <2>j, <3>2
      <4> QED BY <1>h, <1>m, <2>2, <4>1
    <3>3. CASE Orders' = Orders \cup {[type |-> "failed", stage |-> s]}
      BY <3>3, <1>f
    <3> QED BY <2>1, <3>1, <3>2, <3>3 DEF LeavesJob, GivesUp
  <2> QED BY <1>x, <1>w, <2>2, <2>4, <2>5 DEF RestInvariant
<1>6. CASE DropsJob(s)
  <2>1. /\ worker[s].pc # "idle" /\ worker'[s].pc = "idle" /\ row' = row /\ Jobs' = Jobs
    BY <1>6 DEF DropsJob, Leaves, Idle, At, Jobs
  <2>2. CASE worker[s].left <= 1 /\ faults' = faults + 1
    <3>1. ~ HaltPending => faults' >= JobAttempts BY <1>b, <1>y, <2>1, <2>2
    <3>2. ~ HaltPending => AttemptsCounted' BY <1>m, <2>1
    <3> QED BY <1>h, <1>x, <3>1, <3>2 DEF RestInvariant, AnswerUnderWay
  <2>3. CASE Orders' = Orders \cup {[type |-> "failed", stage |-> s]}
    BY <1>x, <1>f, <2>3
  <2>4. CASE StallsTooOften(s)
    <3>1. worker[s].stalls \in Nat BY DEF TypeOK, WorkerRecord
    <3>2. crashes' > MaxStalledCount BY <1>k, <1>s, <2>1, <2>4, <3>1 DEF StallsTooOften, StallsCounted, Idle, At
    <3>3. ~ HaltPending => AttemptsCounted' BY <1>m, <2>1
    <3> QED BY <1>h, <1>x, <3>2, <3>3 DEF RestInvariant, AnswerUnderWay
  <2> QED BY <1>6, <2>2, <2>3, <2>4 DEF DropsJob, GivesUp
<1> QED BY <1>1, <1>2, <1>3, <1>4, <1>5, <1>6 DEF Kinds

LEMMA RestByOthers ==
  ASSUME TypeOK, RestInvariant, Approves \/ Requests \/ \E o \in OrderRecord : Orchestrates(o)
  PROVE  RestInvariant'
<1>a. UNCHANGED <<worker, faults, crashes>>
  BY DEF Approves, Requests, Orchestrates
<1>w. \A t \in Stage : WritesStatus(t)' = WritesStatus(t) /\ Idle(t)' = Idle(t)
  BY <1>a DEF WritesStatus, Idle, At
<1>1. CASE Approves \/ Requests
  <2>1. Jobs' = Jobs /\ halted' = halted /\ Orders \subseteq Orders' BY <1>1 DEF Approves, Requests, Jobs
  <2>2. HaltPending => HaltPending' BY <2>1 DEF HaltPending
  <2>3. AttemptsCounted' BY <1>a, <1>w, <2>1, <2>2 DEF RestInvariant, AttemptsCounted
  <2>4. row'.stage \notin Stage \/ [type |-> "run", stage |-> row'.stage] \in Orders'
    BY <1>1, AfterFacts DEF Approves, Requests
  <2>5. row'.stage \notin Stage \/ Ordered(row.stage)' BY <2>4 DEF Ordered
  <2>6. AnswerUnderWay' BY <2>5 DEF AnswerUnderWay
  <2> QED BY <2>3, <2>6 DEF RestInvariant
<1>2. CASE \E o \in OrderRecord : Orchestrates(o)
  <2>1. PICK o \in OrderRecord : Orchestrates(o) BY <1>2
  <2>2. o \in Orders /\ Orders \ {o} \subseteq Orders' /\ (halted => halted') /\ row' = row
        /\ Jobs \subseteq Jobs'
    BY <2>1 DEF Orchestrates
  <2>3. o.type = "failed" => halted' BY <2>1 DEF Orchestrates
  <2>4. HaltPending => HaltPending' BY <2>2, <2>3 DEF HaltPending
  <2>5. Jobs' \subseteq Jobs \cup {[stage |-> o.stage, left |-> JobAttempts, stalls |-> 0]} BY <2>1 DEF Orchestrates
  <2>6. JobAttempts + faults >= JobAttempts BY AnalysesAssumption DEF TypeOK
  <2>7. AttemptsCounted' BY <1>a, <1>w, <2>4, <2>5, <2>6 DEF RestInvariant, AttemptsCounted
  <2>8. \A t \in Stage : Queued(t) => Queued(t)' BY <2>2 DEF Queued
  <2>9. ASSUME NEW t \in Stage, Ordered(t) PROVE Ordered(t)' \/ Queued(t)' \/ halted'
    <3>1. PICK r \in Orders : r.type = "run" /\ r.stage = t BY <2>9 DEF Ordered
    <3>2. CASE r # o
      <4>1. r \in Orders' BY <2>2, <3>1, <3>2
      <4> QED BY <3>1, <4>1 DEF Ordered
    <3>3. CASE r = o /\ ~ halted'
      <4>1. [stage |-> t, left |-> JobAttempts, stalls |-> 0] \in Jobs' BY <2>1, <3>1, <3>3 DEF Orchestrates
      <4> QED BY <4>1 DEF Queued
    <3> QED BY <3>2, <3>3
  <2>10. halted' => HaltPending' BY DEF HaltPending
  <2>11. AnswerUnderWay' BY <1>a, <1>w, <2>2, <2>4, <2>8, <2>9, <2>10 DEF RestInvariant, AnswerUnderWay
  <2> QED BY <2>7, <2>11 DEF RestInvariant
<1> QED BY <1>1, <1>2

-----------------------------------------------------------------------------
(* The invariant *)
AnalysesInvariant == TypeOK /\ BuiltInvariant /\ FeedbackInvariant /\ RestInvariant /\ StallsCounted

LEMMA AnalysesStep == AnalysesInvariant /\ [Next]_vars => AnalysesInvariant'
<1> SUFFICES ASSUME AnalysesInvariant, [Next]_vars PROVE AnalysesInvariant' OBVIOUS
<1>a. TypeOK /\ BuiltInvariant /\ FeedbackInvariant /\ RestInvariant /\ StallsCounted BY DEF AnalysesInvariant
<1>1. ASSUME NEW s \in Stage, Works(s) \/ Fails(s) PROVE AnalysesInvariant'
  <2>1. Kinds(s) /\ TypeOK' BY <1>1, <1>a, StepKinds
  <2> QED BY <1>a, <2>1, BuiltByProcessor, FeedbackByProcessor, RestByProcessor, StallsByProcessor
     DEF AnalysesInvariant
<1>2. ASSUME Client \/ Orchestrate PROVE AnalysesInvariant'
  <2>1. (Approves \/ Requests \/ \E o \in OrderRecord : Orchestrates(o)) /\ TypeOK'
    BY <1>2, <1>a, ClientKinds, EngineKinds
  <2> QED BY <1>a, <2>1, BuiltByOthers, FeedbackByOthers, RestByOthers, StallsByOthers
     DEF AnalysesInvariant
<1>3. CASE UNCHANGED vars
  <2> USE <1>3 DEF vars, histories, bounds
  <2>1. Jobs' = Jobs /\ Orders' = Orders BY DEF Jobs, Orders
  <2>2. TypeOK' BY <1>a, <2>1 DEF TypeOK, QueuesTyped
  <2>3. BuiltInvariant'
    BY <1>a, <2>1 DEF BuiltInvariant, BeyondIsUntouched, SeenExists, JobReadsApproved, DocumentsRead,
                      BuiltOnApproved, Idle, At, Queued, Ordered, Beyond
  <2>4. FeedbackInvariant'
    BY <1>a, <2>1 DEF FeedbackInvariant, FeedbackBetween, FeedbackUnderWay, Heeded, NewestFeedback,
                      Idle, At, Queued, Ordered
  <2>5. RestInvariant'
    BY <1>a, <2>1 DEF RestInvariant, AttemptsCounted, AnswerUnderWay, HaltPending, WritesStatus,
                      Idle, At, Queued, Ordered
  <2>6. StallsCounted' BY <1>a, <2>1 DEF StallsCounted, Idle, At
  <2> QED BY <2>2, <2>3, <2>4, <2>5, <2>6 DEF AnalysesInvariant
<1> QED BY <1>1, <1>2, <1>3 DEF Next

LEMMA EarlierFacts ==
  ASSUME NEW s \in Stage
  PROVE  s \notin Earlier(s) /\ Earlier(s) \cap Beyond(s) = {}
<1>1. Stages[1] = "feasibility" /\ Stages[2] = "architecture" /\ Stages[3] = "timeline" /\ Stages[4] = "summary"
  BY DEF Stages
<1>2. ASSUME NEW i \in 1..4 PROVE (CHOOSE k \in 1..4 : Stages[k] = Stages[i]) = i BY <1>1
<1>3. PICK i \in 1..4 : Stages[i] = s BY <1>1, StageFacts
<1> DEFINE place == CHOOSE k \in 1..4 : Stages[k] = s
<1>p. place = i BY <1>2, <1>3
<1>q. Earlier(s) = {Stages[k] : k \in 1..place - 1} BY DEF Earlier
<1> HIDE DEF place
<1>4. Earlier(s) = {Stages[k] : k \in 1..i - 1} BY <1>p, <1>q
<1>5. \A p \in Earlier(s) : \E k \in 1..4 : k < i /\ p = Stages[k] BY <1>4
<1> QED BY <1>1, <1>3, <1>5 DEF Beyond

LEMMA EarlierDocumentTyped ==
  ASSUME NEW s \in Stage
  PROVE  /\ EarlierDocument(s) \in DocumentRecord /\ EarlierDocument(s).feedback = 0
         /\ EarlierDocument(s).inputs = [p \in Reads(s) |-> 1]
<1>1. Legacy(s, NoText) \in Contents BY Rests DEF Contents
<1>2. [p \in Reads(s) |-> 1] \in InputSet
  <2>1. [p \in Reads(s) |-> 1] \in [Reads(s) -> Nat] OBVIOUS
  <2>2. Reads(s) \in SUBSET Stage BY ReadFacts
  <2> QED BY <2>1, <2>2 DEF InputSet
<1> QED BY <1>1, <1>2 DEF EarlierDocument, Document, DocumentRecord

LEMMA OneElement ==
  ASSUME NEW S, NEW e \in S
  PROVE  <<e>> \in Seq(S) /\ Len(<<e>>) = 1 /\ DOMAIN <<e>> = {1} /\ <<e>>[1] = e /\ <<e>> # <<>>
  OBVIOUS

LEMMA AnalysesInit == Init => AnalysesInvariant
<1> SUFFICES ASSUME Init PROVE AnalysesInvariant OBVIOUS
<1>1. PICK first \in Starts :
        /\ row = [stage |-> first, status |-> "pending", feedback |-> 0]
        /\ docs = [s \in Stage |-> IF s \in Earlier(first) THEN <<EarlierDocument(s)>> ELSE <<>>]
        /\ run = [s \in Stage |-> IF s \in Earlier(first) THEN "completed" ELSE "none"]
        /\ seen = [s \in Stage |-> IF s \in Earlier(first) THEN 1 ELSE 0]
        /\ orders = Order("run", first)
  BY DEF Init
<1>2. /\ jobs = EmptyBag /\ halted = FALSE /\ worker = [s \in Stage |-> IdleWorker]
      /\ asked = [s \in Stage |-> 0] /\ requests = 0 /\ faults = 0 /\ crashes = 0
  BY DEF Init
<1>3. first \in Stage BY AnalysesAssumption
<1>4. Jobs = {} /\ IsABag(jobs) BY <1>2 DEF Jobs, BagToSet, EmptyBag, SetToBag, IsABag
<1>5. Orders = {[type |-> "run", stage |-> first]} /\ IsABag(orders)
  BY <1>1 DEF Orders, BagToSet, Order, SetToBag, IsABag
<1>6. \A s \in Stage : worker[s].pc = "idle" BY <1>2, Rests
<1>7. \A s \in Stage : \/ s \in Earlier(first) /\ docs[s] = <<EarlierDocument(s)>> /\ seen[s] = 1
                       \/ s \notin Earlier(first) /\ docs[s] = <<>> /\ seen[s] = 0
  BY <1>1
<1>e. \A s \in Stage :
        /\ <<EarlierDocument(s)>> \in Seq(DocumentRecord) /\ Len(<<EarlierDocument(s)>>) = 1
        /\ DOMAIN <<EarlierDocument(s)>> = {1} /\ <<EarlierDocument(s)>>[1] = EarlierDocument(s)
  <2>1. ASSUME NEW s \in Stage
        PROVE  /\ <<EarlierDocument(s)>> \in Seq(DocumentRecord) /\ Len(<<EarlierDocument(s)>>) = 1
               /\ DOMAIN <<EarlierDocument(s)>> = {1} /\ <<EarlierDocument(s)>>[1] = EarlierDocument(s)
    <3> DEFINE e == EarlierDocument(s)
    <3>1. e \in DocumentRecord BY EarlierDocumentTyped
    <3> HIDE DEF e
    <3>2. <<e>> \in Seq(DocumentRecord) /\ Len(<<e>>) = 1 /\ DOMAIN <<e>> = {1} /\ <<e>>[1] = e
      BY <3>1, OneElement
    <3> QED BY <3>2 DEF e
  <2> QED BY <2>1
<1>n. Len(<<>>) = 0 /\ DOMAIN <<>> = {} OBVIOUS
<1>8. \A s \in Stage : seen[s] \in {0, 1} /\ Len(docs[s]) \in {0, 1} /\ seen[s] = Len(docs[s])
  BY <1>7, <1>e, <1>n
<1>9. \A s \in Stage : \A i \in DOMAIN docs[s] :
        docs[s][i] = EarlierDocument(s) /\ i = 1
  BY <1>7, <1>e, <1>n
<1>10. TypeOK
  <2>1. row \in RowRecord BY <1>1, <1>3 DEF RowRecord, Status
  <2>2. docs \in [Stage -> Seq(DocumentRecord)]
    <3>1. \A s \in Stage : <<EarlierDocument(s)>> \in Seq(DocumentRecord) BY <1>e
    <3>2. <<>> \in Seq(DocumentRecord) OBVIOUS
    <3> HIDE DEF DocumentRecord
    <3> QED BY <1>1, <3>1, <3>2
  <2>3. worker \in [Stage -> WorkerRecord] BY <1>2, Rests
  <2>4. QueuesTyped BY <1>3, <1>4, <1>5 DEF QueuesTyped, OrderRecord
  <2>5. run \in [Stage -> {"none", "running", "completed", "failed"}] /\ seen \in [Stage -> Nat] BY <1>1
  <2>6. asked \in [Stage -> Nat] /\ requests \in Nat /\ faults \in Nat /\ crashes \in Nat /\ halted \in BOOLEAN BY <1>2
  <2> QED BY <2>1, <2>2, <2>3, <2>4, <2>5, <2>6 DEF TypeOK
<1>11. BuiltInvariant
  <2>1. BeyondIsUntouched
    <3>1. Beyond(row.stage) = Beyond(first) /\ Beyond(first) \subseteq Stage BY <1>1, <1>3, ReadFacts DEF Beyond
    <3>2. \A s \in Beyond(first) : s # first /\ s \notin Earlier(first) BY <1>3, ReadFacts, EarlierFacts
    <3>3. \A s \in Beyond(first) : ~ Ordered(s) BY <1>5, <3>2 DEF Ordered
    <3>4. \A s \in Beyond(first) : ~ Queued(s) BY <1>4 DEF Queued
    <3> QED BY <1>6, <1>7, <3>1, <3>2, <3>3, <3>4 DEF BeyondIsUntouched, Idle, At
  <2>2. SeenExists BY <1>8 DEF SeenExists
  <2>3. JobReadsApproved BY <1>6 DEF JobReadsApproved, Idle, At
  <2>4. DocumentsRead BY <1>9, EarlierDocumentTyped DEF DocumentsRead
  <2>5. DocumentsBuilt
    <3>1. ASSUME NEW s \in Stage, NEW i \in DOMAIN docs[s], NEW p \in Reads(s)
          PROVE  docs[s][i].inputs[p] >= seen[p]
      <4>1. docs[s][i].inputs = [r \in Reads(s) |-> 1] BY <1>9, EarlierDocumentTyped
      <4>2. docs[s][i].inputs[p] = 1 BY <4>1
      <4>3. seen[p] \in {0, 1} BY <1>8, ReadFacts
      <4> QED BY <4>2, <4>3
    <3> QED BY <3>1 DEF DocumentsBuilt
  <2> QED BY <2>1, <2>2, <2>3, <2>4, <2>5, DocumentsBuiltOn DEF BuiltInvariant
<1>12. FeedbackInvariant
  <2>1. \A s \in Stage : docs[s] # <<>> => NewestFeedback(s) = 0
    BY <1>7, <1>e, EarlierDocumentTyped DEF NewestFeedback
  <2>2. row.feedback = 0 /\ requests = 0 /\ \A s \in Stage : asked[s] = 0 BY <1>1, <1>2
  <2> QED BY <1>6, <2>1, <2>2 DEF FeedbackInvariant, FeedbackBetween, FeedbackUnderWay, Idle, At
<1>13. RestInvariant
  <2>1. AttemptsCounted BY <1>4, <1>6 DEF AttemptsCounted, Idle, At
  <2>2. Ordered(first) BY <1>5 DEF Ordered
  <2>3. AnswerUnderWay BY <1>3, <2>2 DEF AnswerUnderWay
  <2> QED BY <2>1, <2>3 DEF RestInvariant
<1>14. StallsCounted BY <1>4, <1>6 DEF StallsCounted, Idle, At
<1> QED BY <1>10, <1>11, <1>12, <1>13, <1>14 DEF AnalysesInvariant

LEMMA AnalysesInvariantHolds == Spec => []AnalysesInvariant
<1>1. AnalysesInvariant /\ [Next]_vars => AnalysesInvariant' BY AnalysesStep
<1> QED BY <1>1, AnalysesInit, PTL DEF Spec

-----------------------------------------------------------------------------
(* Sequences joined up *)

LEMMA LessIsWellFounded ==
  \E R : IsWellFoundedOn(R, Nat) /\ \A x, y \in Nat : <<y, x>> \in R <=> y < x
<1> DEFINE R == OpToRel(<, Nat)
<1>1. IsWellFoundedOn(R, Nat) BY NatLessThanWellFounded, Zenon
<1>2. \A x \in Nat, y \in Nat : <<y, x>> \in R <=> y < x BY DEF OpToRel
<1> HIDE DEF R
<1> QED BY <1>1, <1>2

LEMMA LeastNumber ==
  ASSUME NEW T, T \subseteq Nat, T # {}
  PROVE  \E x \in T : \A y \in T : x <= y
<1>1. PICK R : IsWellFoundedOn(R, Nat) /\ \A x, y \in Nat : <<y, x>> \in R <=> y < x
  BY LessIsWellFounded
<1>2. PICK x \in T : \A y \in T : ~ (<<y, x>> \in R) BY <1>1, WFMin
<1>3. \A y \in T : ~ (y < x) BY <1>1, <1>2
<1>4. \A y \in T : x <= y BY <1>3
<1> QED BY <1>4

(* A sequence of sequences joined up to its n-th element.                     *)
Joins(f, s, n) == f = [i \in 1..n |-> IF i = 1 THEN s[i] ELSE f[i - 1] \o s[i]]

LEMMA JoinExists ==
  ASSUME NEW s, NEW n \in Nat, n >= 1
  PROVE  \E f : Joins(f, s, n)
<1> DEFINE T == {m \in Nat : m >= 1 /\ ~ \E f : Joins(f, s, m)}
<1>1. ASSUME T # {} PROVE FALSE
  <2>1. PICK m \in T : \A k \in T : m <= k BY <1>1, LeastNumber
  <2>2. CASE m = 1
    <3> DEFINE f == [i \in 1..1 |-> s[i]]
    <3>1. f = [i \in 1..1 |-> IF i = 1 THEN s[i] ELSE f[i - 1] \o s[i]] OBVIOUS
    <3> QED BY <2>1, <2>2, <3>1 DEF Joins
  <2>3. CASE m # 1
    <3>1. m - 1 \in Nat /\ m - 1 >= 1 /\ m - 1 \notin T BY <2>1, <2>3
    <3>2. PICK f : Joins(f, s, m - 1) BY <3>1
    <3> DEFINE g == [i \in 1..m |-> IF i = m THEN f[m - 1] \o s[m] ELSE f[i]]
    <3>3. \A i \in 1..m - 1 : f[i] = IF i = 1 THEN s[i] ELSE f[i - 1] \o s[i] BY <3>2 DEF Joins
    <3>4. ASSUME NEW i \in 1..m PROVE g[i] = IF i = 1 THEN s[i] ELSE g[i - 1] \o s[i]
      <4>1. CASE i = m
        <5>1. g[i] = f[m - 1] \o s[m] /\ i # 1 BY <4>1, <2>3
        <5>2. i - 1 \in 1..m /\ i - 1 # m /\ g[i - 1] = f[i - 1] BY <4>1, <3>1
        <5> QED BY <5>1, <5>2, <4>1
      <4>2. CASE i # m
        <5>1. i \in 1..m - 1 /\ g[i] = f[i] BY <4>2, <3>1
        <5>2. i # 1 => i - 1 \in 1..m /\ g[i - 1] = f[i - 1] BY <5>1, <3>1
        <5> QED BY <3>3, <5>1, <5>2
      <4> QED BY <4>1, <4>2
    <3> HIDE DEF g
    <3>5. g = [i \in 1..m |-> g[i]] BY DEF g
    <3>6. Joins(g, s, m) BY <3>4, <3>5 DEF Joins
    <3> QED BY <2>1, <3>6
  <2> QED BY <2>2, <2>3
<1> QED BY <1>1

LEMMA RangeOfJoin ==
  ASSUME NEW S, NEW u \in Seq(S), NEW v \in Seq(S)
  PROVE  Range(u \o v) = Range(u) \cup Range(v)
<1> DEFINE w == u \o v
<1>1. /\ w \in Seq(S) /\ Len(w) = Len(u) + Len(v) /\ DOMAIN w = 1..Len(u) + Len(v)
      /\ Len(u) \in Nat /\ Len(v) \in Nat /\ DOMAIN u = 1..Len(u) /\ DOMAIN v = 1..Len(v)
  OBVIOUS
<1>2. \A i \in DOMAIN u : i \in DOMAIN w /\ w[i] = u[i] BY <1>1
<1>3. \A i \in DOMAIN v : i + Len(u) \in DOMAIN w /\ w[i + Len(u)] = v[i] BY <1>1
<1>4. \A i \in DOMAIN w : i \notin DOMAIN u => i - Len(u) \in DOMAIN v /\ w[i] = v[i - Len(u)] BY <1>1
<1> HIDE DEF w
<1>5. \A i \in DOMAIN w : w[i] \in Range(u) \cup Range(v) BY <1>2, <1>4 DEF Range
<1>6. Range(w) \subseteq Range(u) \cup Range(v) BY <1>5 DEF Range
<1>7. Range(u) \subseteq Range(w) BY <1>2 DEF Range
<1>8. Range(v) \subseteq Range(w) BY <1>3 DEF Range
<1>9. Range(w) = Range(u) \cup Range(v) BY <1>6, <1>7, <1>8
<1> QED BY <1>9 DEF w

LEMMA FlattenJoins ==
  ASSUME NEW s, Len(s) \in Nat, Len(s) # 0
  PROVE  \E f : Joins(f, s, Len(s)) /\ FlattenSeq(s) = f[Len(s)]
<1> DEFINE F[i \in 1..Len(s)] == IF i = 1 THEN s[i] ELSE F[i-1] \o s[i]
<1>1. FlattenSeq(s) = F[Len(s)] BY DEF FlattenSeq
<1>2. Len(s) \in Nat /\ Len(s) >= 1 OBVIOUS
<1>3. PICK g : Joins(g, s, Len(s)) BY <1>2, JoinExists
<1>4. F = CHOOSE h : h = [i \in 1..Len(s) |-> IF i = 1 THEN s[i] ELSE h[i-1] \o s[i]] OBVIOUS
<1> HIDE DEF F
<1>5. F = [i \in 1..Len(s) |-> IF i = 1 THEN s[i] ELSE F[i-1] \o s[i]] BY <1>3, <1>4 DEF Joins
<1>6. Joins(F, s, Len(s)) BY <1>5 DEF Joins
<1> QED BY <1>1, <1>6

LEMMA Flattened ==
  ASSUME NEW S, NEW s \in Seq(Seq(S))
  PROVE  /\ FlattenSeq(s) \in Seq(S)
         /\ Range(FlattenSeq(s)) = UNION {Range(s[i]) : i \in DOMAIN s}
<1>1. CASE Len(s) = 0
  <2>1. s = <<>> /\ DOMAIN s = {} BY <1>1
  <2>2. FlattenSeq(s) = <<>> BY <1>1, <2>1 DEF FlattenSeq
  <2>3. Range(FlattenSeq(s)) = {} BY <2>2 DEF Range
  <2>4. UNION {Range(s[i]) : i \in DOMAIN s} = {} BY <2>1
  <2> QED BY <2>2, <2>3, <2>4
<1>2. CASE Len(s) # 0
  <2>0. Len(s) \in Nat /\ DOMAIN s = 1..Len(s) OBVIOUS
  <2>1. PICK f : Joins(f, s, Len(s)) /\ FlattenSeq(s) = f[Len(s)] BY <1>2, <2>0, FlattenJoins
  <2>2. \A i \in 1..Len(s) : f[i] = IF i = 1 THEN s[i] ELSE f[i - 1] \o s[i] BY <2>1 DEF Joins
  <2> DEFINE Good(i) == f[i] \in Seq(S) /\ Range(f[i]) = UNION {Range(s[k]) : k \in 1..i}
  <2> DEFINE T == {i \in 1..Len(s) : ~ Good(i)}
  <2>3. ASSUME T # {} PROVE FALSE
    <3>0. T \subseteq Nat OBVIOUS
    <3> HIDE DEF Good
    <3>1. PICK i \in T : \A k \in T : i <= k
      <4> HIDE DEF T
      <4> QED BY <2>3, <3>0, LeastNumber
    <3>2. i \in 1..Len(s) /\ ~ Good(i) BY <3>1
    <3>3. s[i] \in Seq(S) BY <3>2, <2>0
    <3>4. CASE i = 1
      <4>1. f[i] = s[i] BY <2>2, <3>2, <3>4
      <4>2. 1..i = {i} BY <3>4
      <4>3. UNION {Range(s[k]) : k \in 1..i} = Range(s[i]) BY <4>2
      <4> QED BY <3>2, <3>3, <4>1, <4>3 DEF Good
    <3>5. CASE i # 1
      <4>1. i - 1 \in 1..Len(s) BY <3>2, <3>5, <2>0
      <4>2. Good(i - 1)
        <5>1. i - 1 \notin T BY <3>1, <3>2, <2>0
        <5> QED BY <4>1, <5>1
      <4>3. f[i] = f[i - 1] \o s[i] BY <2>2, <3>2, <3>5
      <4>4. f[i - 1] \in Seq(S) BY <4>2 DEF Good
      <4>5. f[i] \in Seq(S) BY <3>3, <4>3, <4>4
      <4>6. Range(f[i]) = Range(f[i - 1]) \cup Range(s[i]) BY <3>3, <4>3, <4>4, RangeOfJoin
      <4>7. 1..i = (1..i - 1) \cup {i} BY <3>2, <2>0
      <4>8. (UNION {Range(s[k]) : k \in 1..i}) = (UNION {Range(s[k]) : k \in 1..i - 1}) \cup Range(s[i]) BY <4>7
      <4> QED BY <3>2, <4>2, <4>5, <4>6, <4>8 DEF Good
    <3> QED BY <3>4, <3>5
  <2>4. Good(Len(s))
    <3> HIDE DEF Good
    <3>1. Len(s) \in 1..Len(s) /\ Len(s) \notin T BY <1>2, <2>0, <2>3
    <3> QED BY <3>1
  <2> HIDE DEF T
  <2> QED BY <2>0, <2>1, <2>4
<1> QED BY <1>1, <1>2

-----------------------------------------------------------------------------
(* The tasks of a timeline *)

LEMMA EmptyFlattened == FlattenSeq(<<>>) = <<>>
  BY DEF FlattenSeq

LEMMA ThoseFacts ==
  ASSUME NEW S, NEW ids \in Seq(S), NEW keep
  PROVE  Those(ids, keep) \in Seq(S) /\ Range(Those(ids, keep)) = Range(ids) \cap keep
<1> DEFINE parts == [i \in DOMAIN ids |-> IF ids[i] \in keep THEN <<ids[i]>> ELSE <<>>]
<1>1. DOMAIN ids = 1..Len(ids) /\ Len(ids) \in Nat /\ \A i \in DOMAIN ids : ids[i] \in S OBVIOUS
<1>2. \A i \in DOMAIN ids : <<ids[i]>> \in Seq(S) /\ <<>> \in Seq(S) BY <1>1
<1>3. parts \in Seq(Seq(S)) BY <1>1, <1>2
<1>4. Those(ids, keep) = FlattenSeq(parts) BY DEF Those
<1>5. DOMAIN parts = DOMAIN ids /\ \A i \in DOMAIN ids : parts[i] = IF ids[i] \in keep THEN <<ids[i]>> ELSE <<>>
  OBVIOUS
<1> HIDE DEF parts
<1>6. FlattenSeq(parts) \in Seq(S) /\ Range(FlattenSeq(parts)) = UNION {Range(parts[i]) : i \in DOMAIN ids}
  BY <1>3, <1>5, Flattened
<1>7. ASSUME NEW i \in DOMAIN ids PROVE Range(parts[i]) = {ids[i]} \cap keep
  <2>1. Range(<<ids[i]>>) = {ids[i]}
    <3> DEFINE e == ids[i]
    <3>1. DOMAIN <<e>> = {1} /\ <<e>>[1] = e OBVIOUS
    <3> HIDE DEF e
    <3>2. Range(<<e>>) = {e} BY <3>1 DEF Range
    <3> QED BY <3>2 DEF e
  <2>2. Range(<<>>) = {} BY DEF Range
  <2> QED BY <1>5, <2>1, <2>2
<1>8. (UNION {Range(parts[i]) : i \in DOMAIN ids}) = Range(ids) \cap keep BY <1>7 DEF Range
<1> QED BY <1>4, <1>6, <1>8

Ids(phases) == UNION {Range(phases[p]) : p \in DOMAIN phases}

LEMMA TaskIdsFacts ==
  ASSUME NEW phases \in Seq(Seq(Id))
  PROVE  TaskIds(phases) \in Seq(Id) /\ Ids(phases) \ {<<>>} \subseteq Range(TaskIds(phases))
<1> DEFINE name(p, t) == IF phases[p][t] = <<>> THEN <<p, t>> ELSE phases[p][t]
           names == [p \in DOMAIN phases |-> [t \in DOMAIN phases[p] |-> name(p, t)]]
<1>1. TaskIds(phases) = FlattenSeq(names) BY DEF TaskIds
<1>2. DOMAIN phases = 1..Len(phases) /\ Len(phases) \in Nat /\ \A p \in DOMAIN phases : phases[p] \in Seq(Id)
  OBVIOUS
<1>3. ASSUME NEW p \in DOMAIN phases
      PROVE  /\ names[p] = [t \in DOMAIN phases[p] |-> name(p, t)]
             /\ names[p] \in Seq(Id)
  <2>1. DOMAIN phases[p] = 1..Len(phases[p]) /\ Len(phases[p]) \in Nat
        /\ \A t \in DOMAIN phases[p] : phases[p][t] \in Id
    BY <1>2
  <2>2. ASSUME NEW t \in DOMAIN phases[p] PROVE name(p, t) \in Id
    <3>1. p \in Nat /\ t \in Nat BY <1>2, <2>1
    <3>2. <<p, t>> \in Id BY <3>1 DEF Id
    <3> QED BY <2>1, <3>2
  <2>3. names[p] = [t \in DOMAIN phases[p] |-> name(p, t)] OBVIOUS
  <2> HIDE DEF name, names
  <2> QED BY <2>1, <2>2, <2>3
<1>4. names \in Seq(Seq(Id)) /\ DOMAIN names = DOMAIN phases
  <2>1. DOMAIN names = 1..Len(phases) /\ names = [p \in 1..Len(phases) |-> names[p]] BY <1>2
  <2> HIDE DEF names
  <2> QED BY <1>2, <1>3, <2>1
<1> HIDE DEF names
<1>5. /\ FlattenSeq(names) \in Seq(Id)
      /\ Range(FlattenSeq(names)) = UNION {Range(names[p]) : p \in DOMAIN phases}
  BY <1>4, Flattened
<1>6. ASSUME NEW p \in DOMAIN phases, NEW t \in DOMAIN phases[p], phases[p][t] # <<>>
      PROVE  phases[p][t] \in Range(names[p])
  <2>1. t \in DOMAIN names[p] /\ names[p][t] = phases[p][t] BY <1>3, <1>6
  <2> QED BY <2>1 DEF Range
<1>7. ASSUME NEW id \in Ids(phases) \ {<<>>} PROVE \E p \in DOMAIN phases : id \in Range(names[p])
  <2>1. PICK p \in DOMAIN phases : id \in Range(phases[p]) BY DEF Ids
  <2>2. PICK t \in DOMAIN phases[p] : id = phases[p][t] BY <2>1 DEF Range
  <2> QED BY <1>6, <1>7, <2>2
<1> QED BY <1>1, <1>5, <1>7

(* tasksToPhases loses no task.                                               *)
LEMMA PhasesHoldTasks ==
  ASSUME NEW all \in Seq(Id), NEW milestones \in Seq(Seq(Id))
  PROVE  /\ TasksToPhases(all, milestones) \in Seq(Seq(Id))
         /\ Range(all) \subseteq Ids(TasksToPhases(all, milestones))
<1> DEFINE known == [m \in DOMAIN milestones |-> Those(milestones[m], Range(all))]
           rest == Those(all, Range(all) \ Ids(known))
<1>1. TasksToPhases(all, milestones) =
        IF milestones = <<>> THEN <<all>> ELSE IF rest = <<>> THEN known ELSE Append(known, rest)
  BY DEF TasksToPhases, Ids
<1>2. rest \in Seq(Id) /\ Range(rest) = Range(all) \ Ids(known)
  <2>1. \A keep : Those(all, keep) \in Seq(Id) /\ Range(Those(all, keep)) = Range(all) \cap keep BY ThoseFacts
  <2>2. Range(rest) = Range(all) \cap (Range(all) \ Ids(known)) BY <2>1
  <2> QED BY <2>1, <2>2
<1>3. known \in Seq(Seq(Id)) /\ Len(known) \in Nat
  <2>1. DOMAIN milestones = 1..Len(milestones) /\ Len(milestones) \in Nat
        /\ \A m \in DOMAIN milestones : milestones[m] \in Seq(Id)
    OBVIOUS
  <2>2. \A m \in DOMAIN milestones : Those(milestones[m], Range(all)) \in Seq(Id) BY <2>1, ThoseFacts
  <2>3. known \in Seq(Seq(Id)) BY <2>1, <2>2
  <2> HIDE DEF known
  <2> QED BY <2>3
<1> HIDE DEF known, rest
<1>4. CASE milestones = <<>>
  <2>1. TasksToPhases(all, milestones) = <<all>> BY <1>1, <1>4
  <2>2. <<all>> \in Seq(Seq(Id)) /\ DOMAIN <<all>> = {1} /\ <<all>>[1] = all OBVIOUS
  <2>3. Ids(<<all>>) = Range(all) BY <2>2 DEF Ids
  <2> QED BY <2>1, <2>2, <2>3
<1>5. CASE milestones # <<>> /\ rest = <<>>
  <2>1. Range(rest) = {} BY <1>5 DEF Range
  <2> QED BY <1>1, <1>2, <1>3, <1>5, <2>1
<1>6. CASE milestones # <<>> /\ rest # <<>>
  <2> DEFINE phases == Append(known, rest)
  <2>1. /\ phases \in Seq(Seq(Id)) /\ DOMAIN phases = 1..Len(known) + 1 /\ DOMAIN known = 1..Len(known)
        /\ phases[Len(known) + 1] = rest /\ \A m \in DOMAIN known : phases[m] = known[m]
    BY <1>2, <1>3
  <2> HIDE DEF phases
  <2>2. Len(known) + 1 \in DOMAIN phases /\ \A m \in DOMAIN known : m \in DOMAIN phases BY <1>3, <2>1
  <2>3. Range(rest) \subseteq Ids(phases) BY <2>1, <2>2 DEF Ids
  <2>4. Ids(known) \subseteq Ids(phases) BY <2>1, <2>2 DEF Ids
  <2>5. TasksToPhases(all, milestones) = phases BY <1>1, <1>6 DEF phases
  <2> QED BY <1>2, <2>1, <2>3, <2>4, <2>5
<1> QED BY <1>4, <1>5, <1>6

(* A document's phases have every task of the text that has an id.            *)
Covered(content) ==
  content.phases \in Seq(Seq(Id)) /\ content.planned \ {<<>>} \subseteq Range(TaskIds(content.phases))

LEMMA PhasesCover ==
  ASSUME NEW text, NEW verdict, NEW phases \in Seq(Seq(Id)),
         Content(text, verdict, phases).planned \subseteq Ids(phases)
  PROVE  Covered(Content(text, verdict, phases))
<1>1. Content(text, verdict, phases).phases = phases BY DEF Content
<1> QED BY <1>1, TaskIdsFacts DEF Covered

LEMMA TextFacts ==
  ASSUME NEW text \in Texts
  PROVE  /\ text.tasks \in Seq(Id) /\ text.milestones \in Seq(Seq(Id))
         /\ text.nested => text.tasks = <<>>
<1>1. CASE text = NoText
  <2>1. text.tasks = <<>> /\ text.milestones = <<>> BY <1>1 DEF NoText
  <2>2. <<>> \in Seq(Id) /\ <<>> \in Seq(Seq(Id)) OBVIOUS
  <2> QED BY <2>1, <2>2
<1>2. CASE text \in Text BY <1>2 DEF Text
<1> QED BY <1>1, <1>2 DEF Texts

LEMMA PlannedFacts ==
  ASSUME NEW text \in Texts, NEW verdict, NEW phases
  PROVE  Content(text, verdict, phases).planned = IF text.nested THEN Ids(text.milestones) ELSE Range(text.tasks)
<1>1. DOMAIN text.milestones = 1..Len(text.milestones) BY TextFacts
<1>2. (UNION {Range(m) : m \in Range(text.milestones)}) = Ids(text.milestones) BY DEF Ids, Range
<1>3. Range(<<>>) = {} BY DEF Range
<1> QED BY <1>2, <1>3, TextFacts DEF Content

LEMMA TimelineCovers ==
  ASSUME NEW text \in Texts
  PROVE  /\ Valid("timeline", text) => Covered(Validated("timeline", text))
         /\ Covered(Legacy("timeline", text))
<1>a. text.tasks \in Seq(Id) /\ text.milestones \in Seq(Seq(Id)) /\ (text.nested => text.tasks = <<>>)
  BY TextFacts
<1>1. ASSUME ~ text.nested PROVE Covered(TimelineOf(text))
  BY <1>a, <1>1, PhasesHoldTasks, PlannedFacts, PhasesCover DEF TimelineOf
<1>2. Valid("timeline", text) => ~ text.nested BY <1>a DEF Valid, TimelineSchema
<1>3. Validated("timeline", text) = TimelineOf(text) /\ Legacy("timeline", text) = LegacyTimeline(text)
  BY DEF Validated, Legacy
<1>4. CASE text.nested
  <2>1. LegacyTimeline(text) = Content(text, "none", text.milestones) BY <1>4 DEF LegacyTimeline
  <2>2. Covered(LegacyTimeline(text)) BY <1>a, <1>4, <2>1, PlannedFacts, PhasesCover
  <2> QED BY <1>2, <1>3, <1>4, <2>2
<1>5. CASE ~ text.nested /\ text.tasks # <<>>
  <2>1. LegacyTimeline(text) = TimelineOf(text) BY <1>5 DEF LegacyTimeline, TimelineOf
  <2> QED BY <1>1, <1>3, <1>5, <2>1
<1>6. CASE ~ text.nested /\ text.tasks = <<>>
  <2>1. LegacyTimeline(text) = Content(text, "none", <<>>) BY <1>6 DEF LegacyTimeline
  <2>2. Range(text.tasks) = {} /\ <<>> \in Seq(Seq(Id)) BY <1>6 DEF Range
  <2>3. Covered(LegacyTimeline(text)) BY <1>6, <2>1, <2>2, PlannedFacts, PhasesCover
  <2> QED BY <1>1, <1>3, <1>6, <2>3
<1> QED BY <1>4, <1>5, <1>6

(* The rows are those of a timeline, and hold every task of its text.         *)
Matches(content) == tasks = TaskIds(content.phases) /\ Covered(content)

(* The task rows follow the timeline's worker: deleted, created for the       *)
(* document it has in its hands, and kept until a run that is not completed   *)
(* deletes them again.                                                        *)
TaskPc == {"deleteTasks", "createTasks"}
DraftPc == TaskPc \cup {"begin", "ask", "askAgain", "save"}
SavedPc == {"ready", "complete", "emit"}
TimelineStands == docs["timeline"] # <<>> /\ Matches(docs["timeline"][Len(docs["timeline"])].content)
TasksInvariant ==
  /\ \A s \in Stage \ {"timeline"} : worker[s].pc \notin TaskPc
  /\ worker["timeline"].pc \in DraftPc => run["timeline"] = "running"
  /\ worker["timeline"].pc \in TaskPc => Covered(worker["timeline"].content)
  /\ worker["timeline"].pc = "createTasks" => tasks = <<>>
  /\ worker["timeline"].pc = "save" => Matches(worker["timeline"].content)
  /\ (worker["timeline"].pc \in SavedPc \/ run["timeline"] = "completed") => TimelineStands

LEMMA TasksStay ==
  ASSUME TasksInvariant, UNCHANGED <<docs, run, tasks, worker>>
  PROVE  TasksInvariant'
<1>1. Covered(worker["timeline"].content)' <=> Covered(worker["timeline"].content) BY DEF Covered
<1>2. Matches(worker["timeline"].content)' <=> Matches(worker["timeline"].content) BY <1>1 DEF Matches
<1>3. TimelineStands' <=> TimelineStands BY DEF TimelineStands, Matches
<1> QED BY <1>1, <1>2, <1>3 DEF TasksInvariant

LEMMA TasksStayForOthers ==
  ASSUME TypeOK, TasksInvariant, NEW s \in Stage \ {"timeline"}, NEW w, Moves(s, w), w.pc \notin TaskPc,
         tasks' = tasks, docs'["timeline"] = docs["timeline"], run'["timeline"] = run["timeline"]
  PROVE  TasksInvariant'
<1>1. worker'["timeline"] = worker["timeline"] /\ worker'[s] = w
      /\ \A t \in Stage \ {"timeline"} : t # s => worker'[t] = worker[t]
  BY StageFacts DEF Moves, TypeOK
<1>2. Matches(worker["timeline"].content)' <=> Matches(worker["timeline"].content) BY <1>1 DEF Matches, Covered
<1>3. TimelineStands' <=> TimelineStands BY DEF TimelineStands, Matches
<1>4. Covered(worker["timeline"].content)' <=> Covered(worker["timeline"].content) BY <1>1 DEF Covered
<1>5. \A t \in Stage \ {"timeline"} : worker'[t].pc \notin TaskPc BY <1>1 DEF TasksInvariant
<1>6. (worker["timeline"].pc)' = worker["timeline"].pc /\ (run["timeline"])' = run["timeline"] BY <1>1
<1> QED BY <1>2, <1>3, <1>4, <1>5, <1>6 DEF TasksInvariant

(* A step of the timeline's worker that writes neither rows nor a document    *)
LEMMA TasksStayForTimeline ==
  ASSUME TypeOK, TasksInvariant, NEW w, Moves("timeline", w), w.pc \notin {"createTasks", "save"},
         UNCHANGED <<tasks, docs>>,
         w.pc \in DraftPc => run'["timeline"] = "running",
         w.pc \in TaskPc => Covered(w.content),
         (w.pc \in SavedPc \/ run'["timeline"] = "completed") =>
            (worker["timeline"].pc \in SavedPc \/ run["timeline"] = "completed")
  PROVE  TasksInvariant'
<1>1. worker'["timeline"] = w /\ \A t \in Stage \ {"timeline"} : worker'[t] = worker[t]
  BY StageFacts DEF Moves, TypeOK
<1>2. TimelineStands' <=> TimelineStands BY DEF TimelineStands, Matches
<1>3. \A t \in Stage \ {"timeline"} : worker'[t].pc \notin TaskPc BY <1>1 DEF TasksInvariant
<1>4. (worker["timeline"].pc)' = w.pc /\ Covered(worker["timeline"].content)' = Covered(w.content)
  BY <1>1 DEF Covered
<1> QED BY <1>1, <1>2, <1>3, <1>4 DEF TasksInvariant

LEMMA WorkerContent ==
  ASSUME TypeOK, NEW s \in Stage
  PROVE  /\ \A pc \in WorkerPc : Goto(s, pc).pc = pc /\ Goto(s, pc).content = worker[s].content
         /\ \A content \in Contents :
              WithContent(s, content).content = content
              /\ WithContent(s, content).pc = IF s = "timeline" THEN "deleteTasks" ELSE "save"
<1>1. worker[s] \in WorkerRecord BY DEF TypeOK
<1>2. ASSUME NEW pc \in WorkerPc PROVE Goto(s, pc).pc = pc /\ Goto(s, pc).content = worker[s].content
  BY <1>1 DEF Goto, WorkerRecord
<1>3. ASSUME NEW content \in Contents
      PROVE  WithContent(s, content).content = content
             /\ WithContent(s, content).pc = IF s = "timeline" THEN "deleteTasks" ELSE "save"
  <2> DEFINE pc == IF s = "timeline" THEN "deleteTasks" ELSE "save"
  <2>1. WithContent(s, content) = [worker[s] EXCEPT !.content = content, !.text = NoText, !.pc = pc]
    BY DEF WithContent
  <2> HIDE DEF pc
  <2>2. WithContent(s, content).content = content /\ WithContent(s, content).pc = pc
    BY <1>1, <2>1 DEF WorkerRecord
  <2> QED BY <2>2 DEF pc
<1> QED BY <1>2, <1>3

(* Of the steps of a processor only six write rows, a run or a document; of   *)
(* the others some put a document into the worker's hands.                    *)
Calm(s) ==
  \E w :
    /\ Moves(s, w) /\ UNCHANGED <<tasks, docs, run>>
    /\ \/ w.pc \in {"idle", "start", "caught", "failRun", "failed"}
       \/ w.pc = "ask" /\ At(s, "begin")
       \/ w.pc = "askAgain" /\ At(s, "ask")
       \/ w.pc = "complete" /\ At(s, "ready")
Drafts(s) ==
  \E content \in Contents :
    /\ Moves(s, WithContent(s, content)) /\ UNCHANGED <<tasks, docs, run>>
    /\ (s = "timeline" => Covered(content)) /\ worker[s].pc \in {"ask", "askAgain"}
Writes(s) ==
  \/ StartRun(s) \/ DeleteTasks(s) \/ CreateTasks(s) \/ SaveArtifact(s) \/ CompleteRun(s) \/ FailRun(s)

LEMMA AnswersCover ==
  ASSUME NEW s \in Stage, NEW text \in Texts
  PROVE  /\ Validated(s, text) \in Contents /\ Legacy(s, text) \in Contents
         /\ (s = "timeline" /\ Valid(s, text)) => Covered(Validated(s, text))
         /\ s = "timeline" => Covered(Legacy(s, text))
<1>1. Validated(s, text) \in Contents /\ Legacy(s, text) \in Contents BY DEF Contents
<1> QED BY <1>1, TimelineCovers

LEMMA RescuedDrafts ==
  ASSUME TypeOK, NEW s \in Stage, NEW text \in Texts, Moves(s, Rescued(s, text)), At(s, "askAgain"),
         UNCHANGED <<tasks, docs, run>>
  PROVE  Calm(s) \/ Drafts(s)
<1>1. CASE Readable(text)
  <2>1. Rescued(s, text) = WithContent(s, Legacy(s, text)) BY <1>1 DEF Rescued
  <2> QED BY <2>1, AnswersCover DEF Drafts, At
<1>2. CASE ~ Readable(text)
  <2>1. Rescued(s, text) = Goto(s, "caught") BY <1>2 DEF Rescued
  <2>2. "caught" \in WorkerPc BY DEF WorkerPc, OpenPc
  <2>3. Goto(s, "caught").pc = "caught" BY <2>2, WorkerContent
  <2> QED BY <2>1, <2>3 DEF Calm
<1> QED BY <1>1, <1>2

LEMMA TasksKinds ==
  ASSUME TypeOK, NEW s \in Stage, Works(s) \/ Fails(s)
  PROVE  Calm(s) \/ Drafts(s) \/ Writes(s)
<1>g. \A pc \in WorkerPc : Goto(s, pc).pc = pc BY WorkerContent
<1>p. /\ {"begin", "ask", "askAgain", "deleteTasks", "createTasks", "save", "ready", "complete", "emit",
          "caught", "failRun", "failed"} \subseteq WorkerPc
  BY DEF WorkerPc, TryPc, OpenPc
<1>i. IdleWorker.pc = "idle" BY Rests
<1>1. CASE TakeJob(s)
  <2>1. PICK j \in Jobs : Moves(s, [IdleWorker EXCEPT !.pc = "start", !.left = j.left, !.stalls = j.stalls,
                                      !.feedback = IF TakesFeedback(s) THEN row.feedback ELSE 0,
                                      !.inputs = [p \in Reads(s) |-> Newest(docs, p)]])
    BY <1>1 DEF TakeJob, Jobs
  <2> DEFINE feedback == IF TakesFeedback(s) THEN row.feedback ELSE 0
             inputs == [p \in Reads(s) |-> Newest(docs, p)]
             w == [IdleWorker EXCEPT !.pc = "start", !.left = j.left, !.stalls = j.stalls,
                              !.feedback = feedback, !.inputs = inputs]
  <2>2. Moves(s, w) BY <2>1
  <2> HIDE DEF feedback, inputs
  <2>3. w.pc = "start" BY Rests DEF WorkerRecord
  <2> HIDE DEF w
  <2> QED BY <1>1, <2>2, <2>3 DEF TakeJob, Calm
<1>2. CASE BeginAnalysis(s) \/ AnalysisReady(s) \/ AnalysisCaught(s)
  <2> HIDE DEF Goto
  <2> QED BY <1>2, <1>g, <1>p DEF BeginAnalysis, AnalysisReady, AnalysisCaught, WriteStatus, Calm
<1>3. CASE Ask(s)
  <2>1. PICK text \in Replies[s] :
          OnlyMoves(s, IF Valid(s, text) THEN WithContent(s, Validated(s, text))
                       ELSE [Goto(s, "askAgain") EXCEPT !.text = text])
    BY <1>3 DEF Ask
  <2>2. text \in Texts /\ worker[s] \in WorkerRecord BY RepliesAreTexts DEF TypeOK
  <2>3. CASE Valid(s, text) BY <1>3, <2>1, <2>2, <2>3, AnswersCover DEF OnlyMoves, Drafts, Ask, At
  <2>4. CASE ~ Valid(s, text)
    <3>1. [Goto(s, "askAgain") EXCEPT !.text = text].pc = "askAgain" BY <2>2, WorkersKeep
    <3> QED BY <1>3, <2>1, <2>4, <3>1 DEF OnlyMoves, Calm, Ask
  <2> QED BY <2>3, <2>4
<1>4. CASE AskAgain(s)
  <2>1. PICK text \in Replies[s] :
          OnlyMoves(s, IF Valid(s, text) THEN WithContent(s, Validated(s, text)) ELSE Rescued(s, text))
    BY <1>4 DEF AskAgain
  <2>2. text \in Texts /\ At(s, "askAgain") BY <1>4, RepliesAreTexts DEF AskAgain
  <2>3. CASE Valid(s, text) BY <2>1, <2>2, <2>3, AnswersCover DEF OnlyMoves, Drafts, At
  <2>4. CASE ~ Valid(s, text) BY <2>1, <2>2, <2>4, RescuedDrafts DEF OnlyMoves
  <2> QED BY <2>3, <2>4
<1>5. CASE s = "summary" /\ AskSummaryAgain
  <2>1. PICK text \in Replies[s] :
          OnlyMoves(s, IF Valid(s, text) THEN WithContent(s, Validated(s, text))
                       ELSE IF AllowFallback THEN WithContent(s, FallbackSummary) ELSE Goto(s, "caught"))
    BY <1>5 DEF AskSummaryAgain
  <2>2. text \in Texts /\ At(s, "askAgain") BY <1>5, RepliesAreTexts DEF AskSummaryAgain
  <2>3. s # "timeline" /\ FallbackSummary \in Contents BY <1>5 DEF Contents
  <2>4. CASE Valid(s, text) BY <2>1, <2>2, <2>3, <2>4, AnswersCover DEF OnlyMoves, Drafts, At
  <2>5. CASE ~ Valid(s, text) /\ AllowFallback BY <2>1, <2>2, <2>3, <2>5 DEF OnlyMoves, Drafts, At
  <2>6. CASE ~ Valid(s, text) /\ ~ AllowFallback
    <3> HIDE DEF Goto
    <3> QED BY <2>1, <2>6, <1>g, <1>p DEF OnlyMoves, Calm
  <2> QED BY <2>4, <2>5, <2>6
<1>6. CASE Completed(s) BY <1>6, <1>i DEF Completed, OnlyMoves, Calm
<1>7. CASE Failed(s) \/ CallFailsOutside(s) BY <1>7, <1>i DEF Failed, CallFailsOutside, Throws, Calm
<1>8. CASE CallFails(s) BY <1>8, <1>g, <1>p DEF CallFails, Calm
<1>9. CASE NoSecondText(s)
  <2>1. worker[s].text \in Texts BY DEF TypeOK, WorkerRecord
  <2> QED BY <1>9, <2>1, RescuedDrafts DEF NoSecondText
<1>10. CASE Crash(s) BY <1>10, <1>i DEF Crash, Calm
<1>11. CASE Writes(s) BY <1>11
<1> QED BY <1>1, <1>2, <1>3, <1>4, <1>5, <1>6, <1>7, <1>8, <1>9, <1>10, <1>11 DEF Works, Fails, Writes

LEMMA TasksByOthers ==
  ASSUME TypeOK, TasksInvariant, NEW s \in Stage \ {"timeline"}, Calm(s) \/ Drafts(s) \/ Writes(s)
  PROVE  TasksInvariant'
<1>p. {"begin", "ready", "emit", "failed"} \subseteq WorkerPc BY DEF WorkerPc, TryPc, OpenPc
<1>1. CASE Calm(s)
  <2>1. PICK w : Moves(s, w) /\ UNCHANGED <<tasks, docs, run>> /\ w.pc \notin TaskPc BY <1>1 DEF Calm, TaskPc
  <2> QED BY <2>1, TasksStayForOthers
<1>2. CASE Drafts(s)
  <2>1. PICK content \in Contents : Moves(s, WithContent(s, content)) /\ UNCHANGED <<tasks, docs, run>>
    BY <1>2 DEF Drafts
  <2>2. WithContent(s, content).pc \notin TaskPc BY WorkerContent DEF TaskPc
  <2> QED BY <2>1, <2>2, TasksStayForOthers
<1>3. CASE Writes(s)
  <2>1. worker[s].pc \notin TaskPc BY DEF TasksInvariant
  <2>2. ~ DeleteTasks(s) /\ ~ CreateTasks(s) BY <2>1 DEF DeleteTasks, CreateTasks, At, TaskPc
  <2>3. \A pc \in {"begin", "ready", "emit", "failed"} : Goto(s, pc).pc \notin TaskPc
    BY <1>p, WorkerContent DEF TaskPc
  <2>4. /\ \E pc \in {"begin", "ready", "emit", "failed"} : Moves(s, Goto(s, pc))
        /\ tasks' = tasks /\ docs'["timeline"] = docs["timeline"] /\ run'["timeline"] = run["timeline"]
    BY <1>3, <2>2, StageFacts DEF Writes, StartRun, SaveArtifact, CompleteRun, FailRun, TypeOK
  <2> HIDE DEF Goto
  <2> QED BY <2>3, <2>4, TasksStayForOthers
<1> QED BY <1>1, <1>2, <1>3

LEMMA TasksByTimeline ==
  ASSUME TypeOK, TasksInvariant, Calm("timeline") \/ Drafts("timeline") \/ Writes("timeline")
  PROVE  TasksInvariant'
<1> DEFINE s == "timeline"
<1>s. s \in Stage BY StageFacts
<1>g. \A pc \in WorkerPc : Goto(s, pc).pc = pc /\ Goto(s, pc).content = worker[s].content BY <1>s, WorkerContent
<1>p. {"begin", "createTasks", "save", "ready", "emit", "caught", "failed"} \subseteq WorkerPc
  BY DEF WorkerPc, TryPc, OpenPc
<1>t. /\ run \in [Stage -> {"none", "running", "completed", "failed"}]
      /\ worker \in [Stage -> WorkerRecord] /\ docs \in [Stage -> Seq(DocumentRecord)]
  BY DEF TypeOK
<1> HIDE DEF Goto
<1>1. CASE Calm(s)
  <2>1. PICK w : /\ Moves(s, w) /\ UNCHANGED <<tasks, docs, run>>
                 /\ \/ w.pc \in {"idle", "start", "caught", "failRun", "failed"}
                    \/ w.pc = "ask" /\ At(s, "begin")
                    \/ w.pc = "askAgain" /\ At(s, "ask")
                    \/ w.pc = "complete" /\ At(s, "ready")
    BY <1>1 DEF Calm
  <2>2. w.pc \in DraftPc => worker[s].pc \in DraftPc BY <2>1 DEF DraftPc, TaskPc, At
  <2>3. w.pc \in SavedPc => worker[s].pc \in SavedPc BY <2>1 DEF SavedPc, At
  <2>4. w.pc \notin TaskPc /\ w.pc # "save" BY <2>1 DEF TaskPc
  <2> QED BY <2>1, <2>2, <2>3, <2>4, TasksStayForTimeline DEF TasksInvariant, TaskPc
<1>2. CASE Drafts(s)
  <2>1. PICK content \in Contents :
          /\ Moves(s, WithContent(s, content)) /\ UNCHANGED <<tasks, docs, run>> /\ Covered(content)
          /\ worker[s].pc \in {"ask", "askAgain"}
    BY <1>2 DEF Drafts
  <2>2. WithContent(s, content).pc = "deleteTasks" /\ WithContent(s, content).content = content
    BY <1>s, WorkerContent
  <2>3. run["timeline"] = "running" BY <2>1 DEF TasksInvariant, DraftPc
  <2> QED BY <2>1, <2>2, <2>3, TasksStayForTimeline DEF SavedPc
<1>3. CASE StartRun(s)
  <2>1. Moves(s, Goto(s, "begin")) /\ run' = [run EXCEPT ![s] = "running"] /\ UNCHANGED <<tasks, docs>>
    BY <1>3 DEF StartRun
  <2>2. run'["timeline"] = "running" /\ Goto(s, "begin").pc = "begin" BY <1>s, <1>t, <1>g, <1>p, <2>1
  <2> QED BY <2>1, <2>2, TasksStayForTimeline DEF TaskPc, SavedPc
<1>4. CASE CompleteRun(s)
  <2>1. Moves(s, Goto(s, "emit")) /\ UNCHANGED <<tasks, docs>> /\ worker[s].pc \in SavedPc
    BY <1>4 DEF CompleteRun, At, SavedPc
  <2>2. Goto(s, "emit").pc = "emit" BY <1>g, <1>p
  <2> QED BY <2>1, <2>2, TasksStayForTimeline DEF TaskPc, DraftPc
<1>5. CASE FailRun(s)
  <2>1. Moves(s, Goto(s, "failed")) /\ run' = [run EXCEPT ![s] = "failed"] /\ UNCHANGED <<tasks, docs>>
    BY <1>5 DEF FailRun
  <2>2. run'["timeline"] = "failed" /\ Goto(s, "failed").pc = "failed" BY <1>s, <1>t, <1>g, <1>p, <2>1
  <2> QED BY <2>1, <2>2, TasksStayForTimeline DEF TaskPc, DraftPc, SavedPc
<1>w. ASSUME NEW w, Moves(s, w)
      PROVE  worker'[s] = w /\ \A t \in Stage \ {"timeline"} : worker'[t].pc = worker[t].pc
  BY <1>s, <1>t, <1>w DEF Moves
<1>r. ASSUME run' = run, worker[s].pc \in DraftPc, worker'[s].pc \notin SavedPc
      PROVE  /\ worker'[s].pc \in DraftPc => run'["timeline"] = "running"
             /\ ~ (worker'[s].pc \in SavedPc \/ run'["timeline"] = "completed")
  BY <1>r DEF TasksInvariant
<1>6. CASE DeleteTasks(s)
  <2>1. Moves(s, Goto(s, "createTasks")) /\ tasks' = <<>> /\ UNCHANGED <<docs, run>> /\ worker[s].pc = "deleteTasks"
    BY <1>6 DEF DeleteTasks, At
  <2>2. Goto(s, "createTasks").pc = "createTasks" /\ Goto(s, "createTasks").content = worker[s].content BY <1>g, <1>p
  <2>3. worker'[s].pc = "createTasks" /\ worker'[s].content = worker[s].content
        /\ \A t \in Stage \ {"timeline"} : worker'[t].pc = worker[t].pc
    BY <2>1, <2>2, <1>w
  <2>4. Covered(worker[s].content)' BY <2>1, <2>3 DEF TasksInvariant, TaskPc, Covered
  <2>5. worker[s].pc \in DraftPc /\ worker'[s].pc \notin SavedPc BY <2>1, <2>3 DEF DraftPc, TaskPc, SavedPc
  <2> QED BY <1>r, <2>1, <2>3, <2>4, <2>5 DEF TasksInvariant
<1>7. CASE CreateTasks(s)
  <2> DEFINE content == worker[s].content
             all == tasks \o TaskIds(content.phases)
  <2>1. /\ worker[s].pc = "createTasks" /\ UNCHANGED <<docs, run>>
        /\ \/ tasks' = all /\ Moves(s, Goto(s, "save"))
           \/ UNCHANGED tasks /\ Moves(s, Goto(s, "caught"))
    BY <1>7 DEF CreateTasks, At
  <2>2. tasks = <<>> /\ Covered(content) BY <2>1 DEF TasksInvariant, TaskPc
  <2>3. all = TaskIds(content.phases)
    <3>1. TaskIds(content.phases) \in Seq(Id) BY <2>2, TaskIdsFacts DEF Covered
    <3> QED BY <2>2, <3>1
  <2>4. worker[s].pc \in DraftPc BY <2>1 DEF DraftPc, TaskPc
  <2> HIDE DEF all
  <2>5. CASE tasks' = all /\ Moves(s, Goto(s, "save"))
    <3>1. Goto(s, "save").pc = "save" /\ Goto(s, "save").content = content BY <1>g, <1>p
    <3>2. worker'[s].pc = "save" /\ worker'[s].content = content
          /\ \A t \in Stage \ {"timeline"} : worker'[t].pc = worker[t].pc
      BY <2>5, <3>1, <1>w
    <3>3. Matches(worker[s].content)' BY <2>2, <2>3, <2>5, <3>2 DEF Matches, Covered
    <3> QED BY <1>r, <2>1, <2>4, <3>2, <3>3 DEF TasksInvariant, TaskPc, SavedPc
  <2>6. CASE UNCHANGED tasks /\ Moves(s, Goto(s, "caught"))
    <3>1. Goto(s, "caught").pc = "caught" BY <1>g, <1>p
    <3>2. run["timeline"] # "completed" BY <2>4 DEF TasksInvariant
    <3> QED BY <2>1, <2>6, <3>1, <3>2, TasksStayForTimeline DEF TaskPc, DraftPc, SavedPc
  <2> QED BY <2>1, <2>5, <2>6
<1>8. CASE SaveArtifact(s)
  <2> DEFINE document == Document(worker[s].content, worker[s].feedback, worker[s].inputs)
  <2>1. /\ worker[s].pc = "save" /\ UNCHANGED <<tasks, run>> /\ Moves(s, Goto(s, "ready"))
        /\ docs' = [docs EXCEPT ![s] = Append(docs[s], document)]
    BY <1>8 DEF SaveArtifact, At
  <2>2. Goto(s, "ready").pc = "ready" BY <1>g, <1>p
  <2>3. worker'[s].pc = "ready" /\ \A t \in Stage \ {"timeline"} : worker'[t].pc = worker[t].pc
    BY <2>1, <2>2, <1>w
  <2>4. document.content = worker[s].content BY DEF Document
  <2>5. Matches(worker[s].content) BY <2>1 DEF TasksInvariant
  <2> HIDE DEF document
  <2>6. docs'["timeline"] = Append(docs["timeline"], document) /\ docs["timeline"] \in Seq(DocumentRecord)
    BY <1>s, <1>t, <2>1
  <2>7. docs'["timeline"] # <<>> /\ docs'["timeline"][Len(docs'["timeline"])] = document
    BY <2>6
  <2>8. TimelineStands' BY <2>1, <2>4, <2>5, <2>7 DEF TimelineStands, Matches, Covered
  <2> QED BY <2>3, <2>8 DEF TasksInvariant, TaskPc, DraftPc
<1> QED BY <1>1, <1>2, <1>3, <1>4, <1>5, <1>6, <1>7, <1>8 DEF Writes

LEMMA TasksStep ==
  ASSUME TypeOK, TasksInvariant, [Next]_vars
  PROVE  TasksInvariant'
<1>1. ASSUME NEW s \in Stage, Works(s) \/ Fails(s) PROVE TasksInvariant'
  <2>1. Calm(s) \/ Drafts(s) \/ Writes(s) BY <1>1, TasksKinds
  <2>2. CASE s = "timeline" BY <2>1, <2>2, TasksByTimeline
  <2>3. CASE s # "timeline" BY <2>1, <2>3, TasksByOthers
  <2> QED BY <2>2, <2>3
<1>2. CASE Client \/ Orchestrate
  <2>1. UNCHANGED <<docs, run, tasks, worker>>
    BY <1>2 DEF Client, ApproveStage, RequestStageChanges, RetryStage, Requested, Orchestrate
  <2> QED BY <2>1, TasksStay
<1>3. CASE UNCHANGED vars BY <1>3, TasksStay DEF vars
<1> QED BY <1>1, <1>2, <1>3 DEF Next

LEMMA TasksInit == Init => TasksInvariant
<1> SUFFICES ASSUME Init PROVE TasksInvariant OBVIOUS
<1>1. PICK first \in Starts :
        /\ docs = [s \in Stage |-> IF s \in Earlier(first) THEN <<EarlierDocument(s)>> ELSE <<>>]
        /\ run = [s \in Stage |-> IF s \in Earlier(first) THEN "completed" ELSE "none"]
  BY DEF Init
<1>2. tasks = <<>> /\ worker = [s \in Stage |-> IdleWorker] BY DEF Init
<1>3. "timeline" \in Stage /\ \A s \in Stage : worker[s].pc = "idle" BY <1>2, Rests, StageFacts
<1>4. ASSUME run["timeline"] = "completed" PROVE TimelineStands
  <2> DEFINE e == EarlierDocument("timeline")
  <2>1. docs["timeline"] = <<e>> BY <1>1, <1>3, <1>4
  <2>2. e.content = Legacy("timeline", NoText) BY DEF EarlierDocument, Document
  <2> HIDE DEF e
  <2>3. docs["timeline"] # <<>> /\ docs["timeline"][Len(docs["timeline"])] = e BY <2>1
  <2>4. Covered(e.content) BY <2>2, Rests, TimelineCovers
  <2>5. e.content.phases = <<>>
    BY <2>2 DEF Legacy, LegacyTimeline, NoText, Content
  <2>6. TaskIds(<<>>) = <<>>
    <3>1. TaskIds(<<>>) = FlattenSeq(<<>>) BY DEF TaskIds
    <3> QED BY <3>1, EmptyFlattened
  <2> QED BY <1>2, <2>3, <2>4, <2>5, <2>6 DEF TimelineStands, Matches
<1> QED BY <1>3, <1>4 DEF TasksInvariant, TaskPc, DraftPc, SavedPc

-----------------------------------------------------------------------------
(* A document is never made from an older document of an earlier stage than   *)
(* the one the client approved (the findFirst of each processor, newest       *)
(* artifactVersion first, before the approval of workflows.service.ts).       *)
THEOREM BuiltOnApprovedHolds == Spec => []BuiltOnApproved
<1>1. AnalysesInvariant => BuiltOnApproved BY DEF AnalysesInvariant, BuiltInvariant
<1> QED BY <1>1, AnalysesInvariantHolds, PTL

(* Once nothing is left to run for a stage other than the summary, its newest *)
(* document was written with the last feedback given there, unless a job was  *)
(* given up: also where it was given while a job was running.                 *)
THEOREM FeedbackIsHeededHolds == Spec => []FeedbackIsHeeded
<1>1. AnalysesInvariant => FeedbackIsHeeded
  <2> SUFFICES ASSUME AnalysesInvariant, NEW s \in Stage, TakesFeedback(s), asked[s] # 0, Quiet(s), ~ halted
               PROVE  docs[s] # <<>> /\ Last(docs[s]).feedback >= asked[s]
    BY DEF FeedbackIsHeeded
  <2>1. Idle(s) /\ ~ Queued(s) /\ ~ Ordered(s) BY DEF Quiet, Idle, Queued, Ordered, Jobs, Orders
  <2>2. Heeded(s, asked[s]) BY <2>1 DEF AnalysesInvariant, FeedbackInvariant, FeedbackUnderWay
  <2> QED BY <2>2 DEF Heeded, NewestFeedback, Last
<1> QED BY <1>1, AnalysesInvariantHolds, PTL

(* When nothing is left to run, the stage is at a status from which a client  *)
(* can go on, unless the engine has halted, as many calls failed as a job has *)
(* attempts, or more workers died than BullMQ forgives a job: whatever jobs   *)
(* of whatever stages wrote the one status of the row (updateMany of each     *)
(* processor), in whatever order.                                             *)
THEOREM RestIsAnsweredHolds == Spec => []RestIsAnswered
<1>1. AnalysesInvariant => RestIsAnswered
  <2> SUFFICES ASSUME AnalysesInvariant, row.stage \in Stage, orders = EmptyBag, \A s \in Stage : Quiet(s)
               PROVE  \/ row.status \in {"ready", "blocked"} \/ halted
                      \/ faults >= JobAttempts \/ crashes > MaxStalledCount
    BY DEF RestIsAnswered
  <2>1. Orders = {} BY DEF Orders, BagToSet, EmptyBag, SetToBag
  <2>2. \A s \in Stage : ~ Queued(s) /\ ~ Ordered(s) /\ ~ WritesStatus(s)
    BY DEF Quiet, At, Queued, Ordered, WritesStatus, Jobs, Orders
  <2>3. HaltPending => halted BY <2>1 DEF HaltPending
  <2> QED BY <2>2, <2>3 DEF AnalysesInvariant, RestInvariant, AnswerUnderWay
<1> QED BY <1>1, AnalysesInvariantHolds, PTL

(* Where the newest run of the timeline completed, the task rows are those of *)
(* the newest timeline and hold every task of the text it was made from       *)
(* (saveTasks of timeline-analysis.processor.ts).                             *)
THEOREM TasksMatchTimelineHolds == Spec => []TasksMatchTimeline
<1>1. TypeOK /\ TasksInvariant /\ [Next]_vars => TasksInvariant' BY TasksStep
<1>2. AnalysesInvariant => TypeOK BY DEF AnalysesInvariant
<1>3. TasksInvariant => TasksMatchTimeline
  BY DEF TasksInvariant, TimelineStands, Matches, Covered, TasksMatchTimeline, Last
<1> QED BY <1>1, <1>2, <1>3, TasksInit, AnalysesInvariantHolds, PTL DEF Spec
===============================================================================
