----------------------------- MODULE Checkpoints ------------------------------
(* CheckpointService (checkpoint-service.ts), one await per step.              *)
EXTENDS Records, FiniteSetsExt

CONSTANTS
  MaxCheckpoints,  \* maxCheckpointsPerWorkflow
  RestoreOptions   \* the kinds of rows a caller asks to preserve

ASSUME CheckpointsAssumption ==
  MaxCheckpoints \in Nat \ {0} /\ RestoreOptions \subseteq SUBSET {"event", "artifact", "patchSet"}

-----------------------------------------------------------------------------
(* createAutoCheckpoint, createPreOpCheckpoint, createManualCheckpoint: the    *)
(* workflow is read for the label, for the state and for the snapshot.        *)
BeginCheckpoint(c) ==
  /\ Called(c)
  /\ \E auto \in BOOLEAN : Moves(c, [Idle EXCEPT !.pc = "state", !.auto = auto])
  /\ SameRows /\ UNCHANGED <<workflow, checkpoints>>

ReadState(c) ==
  /\ At(c, "state") /\ Moves(c, [Goto(c, "snapshot") EXCEPT !.state = workflow.state])
  /\ SameRows /\ UNCHANGED <<workflow, checkpoints>>

(* captureSnapshot reads the base and lists, query by query, the artifacts,    *)
(* the patch sets, the latest events (all of them here) and the last run.     *)
CaptureSnapshot(c) ==
  /\ At(c, "snapshot") /\ Moves(c, [Goto(c, "listArtifacts") EXCEPT !.base = workflow.base])
  /\ SameRows /\ UNCHANGED <<workflow, checkpoints>>

Listings == <<[pc |-> "listArtifacts", kind |-> "artifact"], [pc |-> "listSets", kind |-> "patchSet"],
              [pc |-> "listEvents", kind |-> "event"], [pc |-> "listRuns", kind |-> "run"], [pc |-> "create", kind |-> ""]>>

Listing(kind) == IF kind = "run" /\ IdsOf(kind) # {} THEN {Max(IdsOf(kind))} ELSE IdsOf(kind)

ListRows(c) ==
  /\ \E i \in 1..4 :
       /\ At(c, Listings[i].pc)
       /\ Moves(c, [Goto(c, Listings[i + 1].pc) EXCEPT !.listed = @ \cup Listing(Listings[i].kind)])
  /\ SameRows /\ UNCHANGED <<workflow, checkpoints>>

(* checkpoint.create, at a time later than every listing                      *)
CreateCheckpoint(c) ==
  /\ At(c, "create")
  /\ checkpoints' = checkpoints \cup
       {[at |-> clock + 1, auto |-> calls[c].auto, state |-> calls[c].state, base |-> calls[c].base, lists |-> calls[c].listed]}
  /\ clock' = clock + 1 /\ UNCHANGED rows
  /\ Moves(c, [Goto(c, "created") EXCEPT !.listed = {}]) /\ UNCHANGED workflow

CheckpointCreated(c) ==
  /\ At(c, "created") /\ Insert("event", "none", "")
  /\ Moves(c, Goto(c, "prune")) /\ UNCHANGED <<workflow, checkpoints>>

Newer(k) == {j \in checkpoints : j.at > k.at}
Older(k) == {j \in checkpoints : j.at < k.at}

\* Mutant: one checkpoint too many is kept.
OverMaxCountLate(k) == Cardinality(Newer(k)) > MaxCheckpoints

OverMaxCount(k) == Cardinality(Newer(k)) >= MaxCheckpoints

\* Mutant: manual checkpoints are pruned too.
PrunableManual(k, tooOld) == Older(k) # {} /\ (OverMaxCount(k) \/ tooOld)

(* keepFirstCheckpoint, preserveManualCheckpoints, then count or age.         *)
Prunable(k, tooOld) == Older(k) # {} /\ k.auto /\ (OverMaxCount(k) \/ tooOld)

(* pruneCheckpoints reads them all, then deletes by id.                       *)
ListCheckpoints(c) ==
  /\ At(c, "prune")
  /\ \E cutoff \in {0} \cup {k.at : k \in checkpoints} :
       Moves(c, [Goto(c, "delete") EXCEPT !.listed = {k.at : k \in {j \in checkpoints : Prunable(j, j.at <= cutoff)}}])
  /\ SameRows /\ UNCHANGED <<workflow, checkpoints>>

DeletePruned(c) ==
  /\ At(c, "delete") /\ Ends(c)
  /\ checkpoints' = {k \in checkpoints : k.at \notin calls[c].listed}
  /\ SameRows /\ UNCHANGED workflow

DeleteCheckpoint(c) ==
  /\ Called(c)
  /\ \E k \in checkpoints : checkpoints' = checkpoints \ {k}
  /\ dropped' = TRUE /\ SameRows /\ UNCHANGED <<workflow, calls>>

-----------------------------------------------------------------------------
(* restore: what was created after the checkpoint is deleted, kind by kind,   *)
(* unless it is to be preserved; then the state and the base are written.     *)
BeginRestore(c) ==
  /\ Called(c)
  /\ \E k \in checkpoints, preserve \in RestoreOptions :
       Moves(c, [Idle EXCEPT !.pc = "event", !.target = k, !.preserve = preserve])
  /\ SameRows /\ UNCHANGED <<workflow, checkpoints>>

CleanupOrder == <<"event", "artifact", "patchSet", "run", "update">>
NextKind(kind) == CleanupOrder[(CHOOSE i \in 1..4 : CleanupOrder[i] = kind) + 1]

\* Mutant: the comparison is the wrong way round.
DeletedByEarlier(c, r) == r.kind = calls[c].pc /\ r.kind \notin calls[c].preserve /\ r.at < calls[c].target.at

(* createdAt: { gt: checkpointTime }                                          *)
DeletedBy(c, r) == r.kind = calls[c].pc /\ r.kind \notin calls[c].preserve /\ r.at > calls[c].target.at

CleanupAfterCheckpoint(c) ==
  /\ calls[c].pc \in RowKind
  /\ rows' = {r \in rows : ~ DeletedBy(c, r)}
  /\ Moves(c, Goto(c, NextKind(calls[c].pc)))
  /\ UNCHANGED <<workflow, checkpoints, clock>>

(* workflow.update *)
RestoreWorkflow(c) ==
  /\ At(c, "update")
  /\ workflow' = [state |-> calls[c].target.state, base |-> calls[c].target.base]
  /\ Moves(c, Goto(c, "restored")) /\ SameRows /\ UNCHANGED checkpoints

CheckpointRestored(c) ==
  /\ At(c, "restored") /\ Insert("event", "none", "")
  /\ Ends(c) /\ UNCHANGED <<workflow, checkpoints>>

CheckpointStep(c) ==
  /\ \/ (BeginCheckpoint(c) \/ BeginRestore(c)) /\ UNCHANGED dropped
     \/ DeleteCheckpoint(c)
     \/ /\ \/ ReadState(c) \/ CaptureSnapshot(c) \/ ListRows(c) \/ CreateCheckpoint(c) \/ CheckpointCreated(c)
           \/ ListCheckpoints(c) \/ DeletePruned(c)
           \/ CleanupAfterCheckpoint(c) \/ RestoreWorkflow(c) \/ CheckpointRestored(c)
        /\ UNCHANGED <<begun, dropped>>
  /\ UNCHANGED <<pullRequest, approvals, proposals, hooks, work, faults, marked, matched, recorded>>
===============================================================================
