------------------------------ MODULE Deliveries ------------------------------
(* WebhookService (webhook-service.ts) and Gate3Service (gate3.ts), one await  *)
(* per step.  Both are called with the same deliveries.                       *)
EXTENDS Records

CONSTANT Delivery  \* Delivery[d]: [type, completed, head, conclusion]

ASSUME DeliveriesAssumption == \A d \in Deliveries : Delivery[d].type \in {"check_suite", "pull_request"}

(* isCICompletionEvent, and 'closed' of a pull request                        *)
IsCICompletion(d) == Delivery[d].type = "check_suite" /\ Delivery[d].completed
IsClosing(d) == Delivery[d].type = "pull_request" /\ Delivery[d].completed

(* extractCIConclusion                                                        *)
ExtractedConclusion(d) ==
  IF Delivery[d].conclusion \in {"success", "failure", "cancelled"} THEN Delivery[d].conclusion ELSE "none"

NothingElse == UNCHANGED <<rows, clock, pullRequest, hooks, matched, recorded>>

-----------------------------------------------------------------------------
(* ingest: find the delivery, then create it; deliveryId is unique.           *)
Ingest(c, d) ==
  /\ Called(c)
  /\ IF hooks[d] = "absent" THEN Moves(c, [Idle EXCEPT !.pc = "store", !.delivery = d]) ELSE UNCHANGED calls
  /\ NothingElse

Stored(d) == IF hooks[d] = "absent" THEN [hooks EXCEPT ![d] = "stored"] ELSE hooks

Store(c) ==
  /\ At(c, "store") /\ hooks' = Stored(calls[c].delivery) /\ Ends(c)
  /\ UNCHANGED <<rows, clock, pullRequest, matched, recorded>>

-----------------------------------------------------------------------------
(* process: nothing keeps two calls from working on one delivery at a time.   *)
Waiting(d) == hooks[d] = "stored"

Process(c, d) ==
  /\ Called(c)
  /\ IF Waiting(d) THEN Moves(c, [Idle EXCEPT !.pc = "match", !.delivery = d]) ELSE UNCHANGED calls
  /\ NothingElse

(* pullRequest.findFirst: for CI the open one of a workflow whose baseSha is  *)
(* the delivery's head, for a closed pull request its number and the same.    *)
MatchedStep(d) ==
  IF workflow.base # Delivery[d].head \/ pullRequest = "none" THEN "markProcessed"
  ELSE IF IsCICompletion(d) /\ pullRequest = "open" THEN "ciEvent"
  ELSE IF IsClosing(d) THEN "merge" ELSE "markProcessed"

MatchDelivery(c) ==
  /\ At(c, "match") /\ LET d == calls[c].delivery IN
       /\ Moves(c, Goto(c, MatchedStep(d)))
       /\ matched' = IF MatchedStep(d) = "markProcessed" THEN matched ELSE matched \cup {d}
  /\ UNCHANGED <<rows, clock, pullRequest, hooks, recorded>>

Records(d) == recorded' = recorded \cup {d}

\* Mutant: without a conclusion there is nothing to record.
RecordCompletionIfConcluded(c) ==
  /\ At(c, "ciEvent")
  /\ LET d == calls[c].delivery IN
     IF ExtractedConclusion(d) = "none" THEN UNCHANGED <<rows, clock, recorded>>
     ELSE Insert("event", ExtractedConclusion(d), d) /\ Records(d)
  /\ Moves(c, Goto(c, "markProcessed")) /\ UNCHANGED <<pullRequest, hooks, matched>>

RecordCompletion(c) ==
  /\ At(c, "ciEvent")
  /\ LET d == calls[c].delivery IN Insert("event", ExtractedConclusion(d), d) /\ Records(d)
  /\ Moves(c, Goto(c, "markProcessed")) /\ UNCHANGED <<pullRequest, hooks, matched>>

(* payload.pull_request.state is what the delivery calls its conclusion here. *)
IsMerge(d) == Delivery[d].conclusion = "merged"

ClosePullRequest(c) ==
  /\ At(c, "merge")
  /\ LET d == calls[c].delivery IN
     IF IsMerge(d) THEN pullRequest' = "merged" /\ Moves(c, Goto(c, "mergeEvent")) /\ UNCHANGED recorded
     ELSE pullRequest' = "closed" /\ Moves(c, Goto(c, "markProcessed")) /\ Records(d)
  /\ UNCHANGED <<rows, clock, hooks, matched>>

RecordMerge(c) ==
  /\ At(c, "mergeEvent")
  /\ Insert("event", "merged", calls[c].delivery) /\ Records(calls[c].delivery)
  /\ Moves(c, Goto(c, "markProcessed")) /\ UNCHANGED <<pullRequest, hooks, matched>>

MarkProcessed(c) ==
  /\ At(c, "markProcessed") /\ hooks' = [hooks EXCEPT ![calls[c].delivery] = "processed"] /\ Ends(c)
  /\ UNCHANGED <<rows, clock, pullRequest, matched, recorded>>

-----------------------------------------------------------------------------
(* processCIEvent of Gate 3: the workflow is found by its open pull request,  *)
(* by its base or that of one of its patch sets, or else by its state; the    *)
(* gate passes on success alone; the evidence is an event and an artifact,    *)
(* beside the event of process() and once more for each call.                 *)
BasesOfSets == {r.about : r \in {s \in rows : s.kind = "patchSet"}}
ConcernsWorkflow(d) ==
  \/ pullRequest = "open" /\ Delivery[d].head \in {workflow.base} \cup BasesOfSets
  \/ workflow.base = Delivery[d].head /\ workflow.state \in {"PR_OPEN", "VERIFYING_CI"}
GatePassed(d) == Delivery[d].conclusion = "success"

ProcessCIEvent(c, d) ==
  /\ Called(c) /\ Delivery[d].type = "check_suite"
  /\ IF ConcernsWorkflow(d) THEN Moves(c, [Idle EXCEPT !.pc = "ciEvidence", !.delivery = d]) ELSE UNCHANGED calls
  /\ NothingElse

RecordEvidence(c) ==
  /\ At(c, "ciEvidence")
  /\ Insert("event", IF GatePassed(calls[c].delivery) THEN "passed" ELSE "not passed", calls[c].delivery)
  /\ Moves(c, Goto(c, "ciArtifact")) /\ UNCHANGED <<pullRequest, hooks, matched, recorded>>

StoreEvidence(c) ==
  /\ At(c, "ciArtifact") /\ Insert("artifact", "none", calls[c].delivery) /\ Ends(c)
  /\ UNCHANGED <<pullRequest, hooks, matched, recorded>>

DeliveryStep(c) ==
  /\ \/ \E d \in Deliveries : Ingest(c, d) \/ Process(c, d) \/ ProcessCIEvent(c, d)
     \/ /\ \/ Store(c) \/ MatchDelivery(c) \/ RecordCompletion(c) \/ ClosePullRequest(c) \/ RecordMerge(c)
           \/ MarkProcessed(c) \/ RecordEvidence(c) \/ StoreEvidence(c)
        /\ UNCHANGED begun
  /\ UNCHANGED <<workflow, checkpoints, approvals, proposals, work, faults, marked, dropped>>
===============================================================================
