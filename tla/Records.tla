------------------------------- MODULE Records --------------------------------
(***************************************************************************)
(* The rows of one workflow as the services of packages/core see them:     *)
(* checkpoints, diagnosis and webhooks read and write the same tables from *)
(* calls that overlap, while the workflow itself moves on.  Rows carry the *)
(* time at which they were created (createdAt), which is also their id.    *)
(***************************************************************************)
EXTENDS Integers, FiniteSets, Sequences

CONSTANTS
  Callers,        \* who may be in a call of a service at the same time
  Deliveries,     \* webhook deliveries, Delivery[d] their content
  Commits,
  States,         \* the workflow's states in the checked instances
  Starts,         \* the workflow rows a run starts from
  MaxCalls, MaxWork, MaxFaults, MaxEvents  \* bounds: the last on work and faults together

ASSUME RecordsAssumption == MaxCalls \in Nat /\ MaxWork \in Nat /\ MaxFaults \in Nat /\ MaxEvents \in Nat
                            /\ Starts \subseteq [state : States, base : Commits]

VARIABLES
  workflow,     \* columns state and baseSha
  rows,         \* WorkflowEvent, Artifact, PatchSet and WorkflowRun rows
  checkpoints,  \* Checkpoint rows
  pullRequest,  \* PullRequest.status, or "none"
  approvals,    \* patch sets whose fix proposal has an Approval row
  proposals,    \* FixProposals returned to callers, by patch set
  hooks,        \* hooks[d]: the GitHubWebhook row of delivery d
  calls,        \* calls[c]: where caller c is in its call, with its locals
  clock,        \* the time of the last insert
  begun, work, faults,  \* counted against their bounds
  marked, matched, recorded, dropped  \* history: fix sets ever approved, deliveries ever matched, those
                \* whose result process() recorded, whether a checkpoint was deleted on demand

vars == <<workflow, rows, checkpoints, pullRequest, approvals, proposals, hooks, calls, clock,
          begun, work, faults, marked, matched, recorded, dropped>>

RowKind == {"event", "artifact", "patchSet", "run"}
IdsOf(kind) == {r.at : r \in {s \in rows : s.kind = kind}}

NoCheckpoint == [at |-> 0, auto |-> TRUE, state |-> "", base |-> "", lists |-> {}]
Idle == [pc |-> "idle", auto |-> TRUE, state |-> "", base |-> "", listed |-> {}, target |-> NoCheckpoint,
         preserve |-> {}, fixes |-> 0, set |-> 0, delivery |-> ""]

At(c, pc) == calls[c].pc = pc
Goto(c, pc) == [calls[c] EXCEPT !.pc = pc]
Moves(c, call) == calls' = [calls EXCEPT ![c] = call]
Ends(c) == Moves(c, Idle)

Row(at, kind, status, about) == [at |-> at, kind |-> kind, status |-> status, about |-> about]
Insert(kind, status, about) ==
  /\ clock' = clock + 1
  /\ rows' = rows \cup {Row(clock + 1, kind, status, about)}
SameRows == UNCHANGED <<rows, clock>>

(* A call of a service begins.                                                *)
Called(c) == At(c, "idle") /\ begun < MaxCalls /\ begun' = begun + 1

(* Some calls were made one after the other before: a run failed, a checkpoint *)
(* may have been taken, the failure was diagnosed and a fix proposed, and the *)
(* deliveries may be stored.                                                  *)
EarlierRows(base) ==
  {Row(1, "run", "failed", ""), Row(4, "artifact", "none", ""), Row(5, "event", "none", ""),
   Row(6, "patchSet", "proposed", base), Row(7, "event", "none", "")}
CheckpointOf(w, auto) == [at |-> 2, auto |-> auto, state |-> w.state, base |-> w.base, lists |-> {1}]

Init ==
  /\ workflow \in Starts
  /\ checkpoints \in {{}} \cup {{CheckpointOf(workflow, auto)} : auto \in BOOLEAN}
  /\ rows = EarlierRows(workflow.base) \cup {Row(3, "event", "none", "") : k \in checkpoints}
  /\ clock = 7 /\ proposals = {6} /\ approvals = {}
  /\ pullRequest \in {"none", "open"}
  /\ \E h \in {"absent", "stored"} : hooks = [d \in Deliveries |-> h]
  /\ calls = [c \in Callers |-> Idle]
  /\ begun = 0 /\ work = 0 /\ faults = 0
  /\ marked = {} /\ matched = {} /\ recorded = {} /\ dropped = FALSE
===============================================================================
