----------------------------- MODULE Orchestrator -----------------------------
(***************************************************************************)
(* The orchestrate processor and OrchestratorService.handleEvent           *)
(* (apps/worker/src/processors/orchestrate.processor.ts,                   *)
(*  apps/worker/src/orchestrator/{orchestrator.service,state-writer}.ts).  *)
(*                                                                         *)
(* An orchestrator takes one event and runs handleEvent on it: it reads    *)
(* the workflow's state, then the context, computes the transition, writes *)
(* the new state if it differs from the one it READ, and enqueues the jobs *)
(* one by one.  Each of these is an await: API handlers and processors run *)
(* between any two of them.                                                *)
(***************************************************************************)
EXTENDS WorkflowStore

CONSTANT Orchestrators   \* worker processes that serve the orchestrate queue

VARIABLE orch            \* for each orchestrator, where its handleEvent is

NoEvent == Plain("E_WORKFLOW_CREATED")
IdleOrch == [pc |-> "idle", ev |-> NoEvent, left |-> 0, stalls |-> 0,
             seen |-> "INTAKE", next |-> "INTAKE", jobs |-> {}]

(* OrchestrateProcessor.process, and the first read of handleEvent *)
TakeEvent(o) ==
  /\ orch[o].pc = "idle"
  /\ \E i \in Takeable(orchQ) :
       /\ orchQ' = Without(orchQ, i)
       /\ orch' = [orch EXCEPT ![o] =
            [IdleOrch EXCEPT !.pc = "decide", !.ev = orchQ[i].ev,
                             !.left = orchQ[i].left, !.stalls = orchQ[i].stalls,
                             !.seen = state]]
  /\ UNCHANGED <<rowVars, decisions, artifacts, patchSets, approved, jobQ, boundVars>>

(* loadTransitionContext and transition() *)
DecideTransition(o) ==
  /\ orch[o].pc = "decide"
  /\ LET res == Transition(orch[o].seen, orch[o].ev, TransitionContext)
     IN orch' = [orch EXCEPT ![o].pc = "commit", ![o].next = res.next,
                             ![o].jobs = res.jobs]
  /\ UNCHANGED <<rowVars, decisions, artifacts, patchSets, approved, queueVars, boundVars>>

(* writeTransitionResult: compares with the state read, not the state stored *)
WriteTransitionResult(o) ==
  /\ orch[o].pc = "commit"
  /\ state' = IF orch[o].next # orch[o].seen THEN orch[o].next ELSE state
  /\ orch' = [orch EXCEPT ![o].pc = "enqueue"]
  /\ UNCHANGED <<stage, stageStatus, decisions, artifacts, patchSets, approved,
                 queueVars, boundVars>>

(* enqueueJob: result.enqueue lists the patch sets in creation order *)
EnqueueJob(o) ==
  /\ orch[o].pc = "enqueue"
  /\ \E j \in orch[o].jobs :
       /\ \A k \in orch[o].jobs : j.patchSet <= k.patchSet
       /\ jobQ' = [jobQ EXCEPT ![j.name] =
            Append(@, [patchSet |-> j.patchSet, left |-> JobAttempts, fresh |-> TRUE, stalls |-> 0])]
       /\ orch' = [orch EXCEPT ![o].jobs = @ \ {j}]
  /\ UNCHANGED <<rowVars, decisions, artifacts, patchSets, approved, orchQ, boundVars>>

(* completeRun, return: the event is acknowledged *)
FinishEvent(o) ==
  /\ orch[o].pc = "enqueue" /\ orch[o].jobs = {}
  /\ orch' = [orch EXCEPT ![o] = IdleOrch]
  /\ UNCHANGED <<rowVars, decisions, artifacts, patchSets, approved, queueVars, boundVars>>

(* A database or Redis call throws: failRun, rethrow.  BullMQ offers the     *)
(* event again while it has attempts left and drops it otherwise.            *)
FailEvent(o) ==
  /\ orch[o].pc # "idle"
  /\ faults' = faults + 1
  /\ orchQ' = IF orch[o].left > 1
                THEN Append(orchQ, [ev |-> orch[o].ev, left |-> orch[o].left - 1,
                                    fresh |-> FALSE, stalls |-> orch[o].stalls])
                ELSE orchQ
  /\ orch' = [orch EXCEPT ![o] = IdleOrch]
  /\ UNCHANGED <<rowVars, decisions, artifacts, patchSets, approved, jobQ, crashes>>

(* The worker process dies: the event it held is offered again, or dropped.  *)
CrashOrchestrator(o) ==
  /\ orch[o].pc # "idle"
  /\ crashes' = crashes + 1
  /\ orchQ' = IF orch[o].stalls < MaxStalledCount
                THEN Append(orchQ, [ev |-> orch[o].ev, left |-> orch[o].left,
                                    fresh |-> FALSE, stalls |-> orch[o].stalls + 1])
                ELSE orchQ
  /\ orch' = [orch EXCEPT ![o] = IdleOrch]
  /\ UNCHANGED <<rowVars, decisions, artifacts, patchSets, approved, jobQ, faults>>

HandleEvent(o) ==
  \/ TakeEvent(o) \/ DecideTransition(o) \/ WriteTransitionResult(o)
  \/ EnqueueJob(o) \/ FinishEvent(o)
=============================================================================
