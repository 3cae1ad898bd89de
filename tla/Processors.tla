------------------------------ MODULE Processors ------------------------------
(***************************************************************************)
(* What the job processors of the worker (apps/worker/src/processors) have *)
(* in common: BullMQ hands each queue's jobs to its processor one at a     *)
(* time, the processor reads the Workflow row first and keeps what it saw  *)
(* for the rest of the run, and a job whose processor throws is offered    *)
(* again while it has attempts left.                                       *)
(***************************************************************************)
EXTENDS WorkflowStore

VARIABLE worker   \* for each job name, what its processor is doing

IdleWorker ==
  [pc |-> "idle", patchSet |-> NoPatchSet, left |-> 0, stalls |-> 0,
   sawStage |-> "feasibility", sawStatus |-> "pending", made |-> 0, flag |-> FALSE]

ProcessorPc ==
  {"idle", "start", "run", "ready", "emit", "caught", "throw",  \* analyses, ingest
   "clear", "record", "event", "conclude", "fail",              \* evaluate_policy
   "skip", "skipReady", "validate", "push", "wait",             \* sandbox_validation
   "open", "applied"}                                           \* apply_patches

At(n, pc) == worker[n].pc = pc
Goto(n, pc) == worker' = [worker EXCEPT ![n].pc = pc]
Saw(n, s) == worker[n].sawStage = s

(* The worker takes a job and the processor reads the Workflow row *)
TakeJob(n) ==
  /\ At(n, "idle")
  /\ \E i \in Takeable(jobQ[n]) :
       /\ jobQ' = [jobQ EXCEPT ![n] = Without(@, i)]
       /\ worker' = [worker EXCEPT ![n] =
            [IdleWorker EXCEPT !.pc = "start", !.patchSet = jobQ[n][i].patchSet,
                               !.left = jobQ[n][i].left, !.stalls = jobQ[n][i].stalls,
                               !.sawStage = stage, !.sawStatus = stageStatus]]
  /\ UNCHANGED <<rowVars, decisions, artifacts, patchSets, approved, orchQ, boundVars>>

(* The evaluate, sandbox and apply processors, the first write: pending       *)
(* becomes processing if the row they READ was at their stage and pending.    *)
BeginStage(n, s, pc) ==
  /\ At(n, "start")
  /\ stageStatus' = IF Saw(n, s) /\ worker[n].sawStatus = "pending"
                      THEN "processing" ELSE stageStatus
  /\ Goto(n, pc)
  /\ UNCHANGED <<state, stage, decisions, artifacts, patchSets, approved, queueVars, boundVars>>

(* The processor returns after emitting its event *)
EmitAndReturn(n, ev) ==
  /\ EmitFromWorker(ev)
  /\ worker' = [worker EXCEPT ![n] = IdleWorker]
  /\ UNCHANGED <<rowVars, decisions, artifacts, patchSets, approved, jobQ, boundVars>>

OfferAgain(n, left, stalls) ==
  jobQ' = [jobQ EXCEPT ![n] =
    Append(@, [patchSet |-> worker[n].patchSet, left |-> left, fresh |-> FALSE, stalls |-> stalls])]

(* The processor throws: the queue offers the job again, or drops it *)
Throw(n) ==
  /\ IF worker[n].left > 1 THEN OfferAgain(n, worker[n].left - 1, worker[n].stalls) ELSE UNCHANGED jobQ
  /\ worker' = [worker EXCEPT ![n] = IdleWorker]

(* E_JOB_FAILED is emitted for this attempt, whether or not another follows *)
EmitFailureAndThrow(n) ==
  /\ At(n, "throw")
  /\ Throw(n)
  /\ EmitFromWorker(OfStage("E_JOB_FAILED", StageName[n]))
  /\ UNCHANGED <<rowVars, decisions, artifacts, patchSets, approved, boundVars>>

(* An external call (LLM, GitHub, database) throws inside the try block *)
CallFails(n, pcs, handler) ==
  /\ worker[n].pc \in pcs
  /\ faults' = faults + 1
  /\ Goto(n, handler)
  /\ UNCHANGED <<rowVars, decisions, artifacts, patchSets, approved, queueVars, crashes>>

(* A database call throws before the try block: nothing is emitted.          *)
(* evaluate_policy has no awaited step but startRun ahead of its try block.   *)
FailBeforeTry(n) ==
  /\ worker[n].pc \in {"start", "skip", "skipReady"}
  /\ faults' = faults + 1
  /\ Throw(n)
  /\ UNCHANGED <<rowVars, decisions, artifacts, patchSets, approved, orchQ, crashes>>

(* The worker process dies.  The stalled job is offered again with the same  *)
(* attempts, or dropped where it has stalled too often.                      *)
CrashWorker(n) ==
  /\ ~ At(n, "idle")
  /\ crashes' = crashes + 1
  /\ IF worker[n].stalls < MaxStalledCount
       THEN OfferAgain(n, worker[n].left, worker[n].stalls + 1) ELSE UNCHANGED jobQ
  /\ worker' = [worker EXCEPT ![n] = IdleWorker]
  /\ UNCHANGED <<rowVars, decisions, artifacts, patchSets, approved, orchQ, faults>>
=============================================================================
