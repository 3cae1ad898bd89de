------------------------------ MODULE Proposals -------------------------------
(***************************************************************************)
(* One call of proposal-service.ts: agents are selected (registry.ts), asked *)
(* for patches one strategy's way, their patch sets merged, judged by Gate 2 *)
(* and stored.  Agents are external: Offers says what they may return.  The  *)
(* registry may be changed between any two awaits of the call.               *)
(***************************************************************************)
EXTENDS Integers, SequencesExt

CONSTANTS
  Agents, Files, Tasks,
  Profile,      \* Profile[a]: an agent's type, its answer to validate() and what raises it
  TypeOfFile,   \* the group groupFilesByType puts a file in
  Target,       \* context.task.targetFiles
  Offers(_),    \* sequences of patches an agent may return when asked about these files
  Policies,     \* policies to judge by: policy[f] is the rule file f falls under
  Registry,     \* the entries the call starts with, in the order of the Map
  Priorities,   \* what setPriority is called with
  MaxAgents,    \* selectMultiple's limit
  MaxPatches, MaxAdmin, MaxFaults   \* bounds

(* A patch lists files, and its diff, with a git header or not, changes some. *)
Patch == [task : Tasks, files : SUBSET Files, diff : Seq(Files) \ {<<>>}, headed : BOOLEAN]

ASSUME ProposalsAssumption ==
  /\ \A files \in SUBSET Range(Target) : Offers(files) \subseteq Seq(Patch)
  /\ Target \in Seq(Files) /\ MaxAgents \in Nat /\ MaxPatches \in Nat /\ MaxAdmin \in Nat /\ MaxFaults \in Nat
  /\ Priorities \subseteq Nat
  /\ Policies \subseteq [Files -> {"frozen", "secret", "dependency", "free"}]

VARIABLES
  registry,    \* AgentRegistry.agents
  policy,      \* policyConfig
  call,        \* where the call is, with its locals
  sets,        \* PatchSet rows with their patches
  violations,  \* PolicyViolation rows [set, file]
  events,      \* WorkflowEvent rows [type, set]
  admin, faults

vars == <<registry, policy, call, sets, violations, events, admin, faults>>

Ways == {"agent", "auto", "parallel", "sequential", "priority", "specialized"}
Alone(c) == c.way \in {"agent", "auto"}
Groups == <<"frontend", "backend", "test", "docs", "other">>

-----------------------------------------------------------------------------
(* registry.ts *)

EntryOf(a) == {i \in DOMAIN registry : registry[i].agent = a}

(* A stable sort, highest key first; key[i] is the key of s[i].               *)
Ranked(s, key) ==
  LET before(i, j) == key[i] > key[j] \/ (key[i] = key[j] /\ i < j)
      order == SetToSortSeq(DOMAIN s, before)
  IN [k \in DOMAIN s |-> s[order[k]]]

GetAll ==
  LET on == SelectSeq(registry, LAMBDA e : e.enabled)
      byPriority == Ranked(on, [i \in DOMAIN on |-> on[i].priority])
  IN [k \in DOMAIN on |-> byPriority[k].agent]

GetByType(type) == SelectSeq(GetAll, LAMBDA a : Profile[a].type = type)

(* Hundredths of a percent, for the factors 1.2, 1.1 and 1.1.                 *)
Whole == 100000
Confidence(a) ==
  LET boost(c, when, tenths) == IF when THEN Min({Whole, (c * tenths) \div 10}) ELSE c
      p == Profile[a]
  IN boost(boost(boost(p.confidence, p.preferred, 12), p.language, 11), p.pattern, 11)

(* findCandidates and the sort of select and selectMultiple                   *)
Candidates ==
  LET able == SelectSeq(GetAll, LAMBDA a : Profile[a].handles)
  IN Ranked(able, [i \in DOMAIN able |-> Confidence(able[i])])
Selected(max) == SubSeq(Candidates, 1, Min({max, Len(Candidates)}))

-----------------------------------------------------------------------------
(* What the gate sees, and the merge. *)

Listing(patches, f) == {i \in DOMAIN patches : f \in patches[i].files}

\* Mutant: the gate reads the diff of the first patch.
JudgedFirst(patches) ==
  UNION {IF i > 1 THEN {} ELSE IF patches[i].headed THEN Range(patches[i].diff) ELSE {patches[i].diff[1]}
           : i \in DOMAIN patches}

(* The gate reads the diffs joined to one text: a part with a git header is   *)
(* seen whole; parts without one count for the file that is open already, and *)
(* open one only at the very beginning.                                       *)
Judged(patches) ==
  UNION {IF patches[i].headed THEN Range(patches[i].diff)
         ELSE IF i = 1 THEN {patches[i].diff[1]} ELSE {} : i \in DOMAIN patches}

(* Added lines are looked for under git headers.                              *)
ReadLines(patches) == UNION {Range(patches[i].diff) : i \in {j \in DOMAIN patches : patches[j].headed}}

Blocked(patches) == {f \in Judged(patches) : policy[f] = "frozen"}
                      \cup {f \in ReadLines(patches) : policy[f] = "secret"}
Warned(patches) == {f \in Judged(patches) : policy[f] = "dependency"}

(* detectConflicts: files that are listed more than once, by whomever.        *)
Conflicts(patches) == {f \in Files : Cardinality(Listing(patches, f)) > 1}

\* Mutant: files in conflict are left out.
KeptUndisputed(p, merged, conflicts) == {f \in p.files : f \notin conflicts /\ Listing(merged, f) = {}}

(* The part of patch p's files that goes into the merged set.                 *)
Kept(p, merged, conflicts) == {f \in p.files : f \in conflicts => Listing(merged, f) = {}}

(* mergePatchSetsWithResolution: a patch of a task that is handled, or with no *)
(* file left, is skipped; a patch that lost files keeps its diff.             *)
Merged(patches) ==
  LET merge[k \in 0..Len(patches)] ==
        IF k = 0 THEN <<>>
        ELSE LET done == merge[k - 1]
                 p == patches[k]
                 kept == Kept(p, done, Conflicts(patches))
             IN IF kept = {} \/ \E i \in DOMAIN done : done[i].task = p.task THEN done
                ELSE Append(done, [p EXCEPT !.files = kept])
  IN merge[Len(patches)]

-----------------------------------------------------------------------------
(* proposed: the patches of the successful proposals, in order; patches: those *)
(* of the set that is judged                                                  *)
Idle == [pc |-> "idle", way |-> "agent", turns |-> <<>>, handled |-> {}, succeeded |-> FALSE,
         proposed |-> <<>>, patches |-> <<>>, store |-> {}]
At(pc) == call.pc = pc
Goto(pc) == [call EXCEPT !.pc = pc]
Ends == call' = Goto("ended")
Unstored == UNCHANGED <<sets, violations, events, admin, faults>>

Init ==
  /\ registry = Registry
  /\ policy \in Policies
  /\ call = Idle
  /\ sets = <<>>
  /\ violations = {}
  /\ events = {}
  /\ admin = 0
  /\ faults = 0

(* setEnabled, setPriority and unregister, by whoever holds the registry.     *)
Administer(entries) ==
  /\ admin < MaxAdmin /\ call.pc \in {"idle", "selected", "asking"}
  /\ admin' = admin + 1
  /\ registry' = entries
  /\ UNCHANGED <<policy, call, sets, violations, events, faults>>

SetEnabled(i, on) == Administer([registry EXCEPT ![i].enabled = on])
SetPriority(i, p) == Administer([registry EXCEPT ![i].priority = p])
Unregister(i) == Administer(RemoveAt(registry, i))

(* generateAndSubmit is called with an agent's id, coordinate with a strategy; *)
(* autoGenerateAndSubmit goes on with the id of the best candidate.           *)
BeginWith(a) == call' = [Idle EXCEPT !.pc = "selected", !.way = "agent", !.turns = <<a>>]
BeginAuto ==
  call' = IF Candidates = <<>> THEN [Idle EXCEPT !.pc = "ended", !.way = "auto"]
          ELSE [Idle EXCEPT !.pc = "selected", !.way = "auto", !.turns = Selected(1)]

(* Priority coordination sorts again, by the confidence without the boosts.   *)
BeginTogether(way) ==
  /\ way \in {"parallel", "sequential", "priority"}
  /\ call' = [Idle EXCEPT !.pc = "asking", !.way = way,
                          !.turns = LET chosen == Selected(MaxAgents) IN
                                      IF way = "priority"
                                        THEN Ranked(chosen, [i \in DOMAIN chosen |-> Profile[chosen[i]].confidence])
                                        ELSE chosen]
FilesOf(type) == {f \in Range(Target) : TypeOfFile[f] = type}
BeginSpecialized ==
  call' = [Idle EXCEPT !.pc = "asking", !.way = "specialized",
                       !.turns = SelectSeq(Groups, LAMBDA g : FilesOf(g) # {})]

Begin ==
  /\ At("idle")
  /\ (\E a \in Agents : BeginWith(a)) \/ BeginAuto \/ (\E w \in Ways : BeginTogether(w)) \/ BeginSpecialized
  /\ UNCHANGED <<registry, policy>> /\ Unstored

(* The id is looked up again, enabled or not.                                 *)
FindAgent ==
  /\ At("selected")
  /\ call' = IF EntryOf(call.turns[1]) = {} THEN Goto("ended") ELSE Goto("asking")
  /\ UNCHANGED <<registry, policy>> /\ Unstored

(* The files the next agent is asked about, and the agent: its turn names it, *)
(* or the group it is the first one for.                                      *)
Given ==
  CASE call.way = "priority" -> Range(Target) \ call.handled
    [] call.way = "specialized" -> FilesOf(call.turns[1])
    [] OTHER -> Range(Target)

Asked == IF call.way # "specialized" THEN <<call.turns[1]>> ELSE GetByType(call.turns[1])

(* Priority coordination breaks off when every file is handled.               *)
Exhausted == call.turns = <<>> \/ (call.way = "priority" /\ Given = {})
MayAsk == At("asking") /\ ~ Exhausted

Answered(success, patches) ==
  /\ call' = [call EXCEPT !.turns = Tail(@), !.succeeded = @ \/ success, !.proposed = @ \o patches,
                          !.handled = @ \cup UNION {patches[i].files : i \in DOMAIN patches}]
  /\ UNCHANGED <<registry, policy>> /\ Unstored

Proposes ==
  /\ MayAsk /\ Asked # <<>>
  /\ \E patches \in Offers(Given) :
       Len(call.proposed) + Len(patches) <= MaxPatches /\ Answered(TRUE, patches)

ProposesNothing == MayAsk /\ Asked # <<>> /\ Answered(FALSE, <<>>)

(* No agent of this type: the group is passed over.                           *)
PassesOver ==
  /\ MayAsk /\ Asked = <<>>
  /\ call' = [call EXCEPT !.turns = Tail(@)]
  /\ UNCHANGED <<registry, policy>> /\ Unstored

(* An agent or the database throws: the call ends with the exception, and what *)
(* the other agents returned is lost, in parallel coordination too.           *)
Throws ==
  /\ call.pc \in {"asking", "judged", "created"} /\ faults < MaxFaults
  /\ faults' = faults + 1
  /\ call' = [Idle EXCEPT !.pc = "ended", !.way = call.way]
  /\ UNCHANGED <<registry, policy, sets, violations, events, admin>>

(* finalizeMultiAgentResult, and submitProposal's look at its one proposal.   *)
Finalize ==
  /\ At("asking") /\ Exhausted
  /\ call' = IF ~ call.succeeded THEN Goto("ended")
             ELSE [Goto("judged") EXCEPT !.patches = IF Alone(call) THEN call.proposed ELSE Merged(call.proposed)]
  /\ UNCHANGED <<registry, policy>> /\ Unstored

(* A blocked proposal leaves an event when it is an agent's own, and nothing  *)
(* when it was merged.                                                        *)
Refuse ==
  /\ At("judged") /\ Blocked(call.patches) # {}
  /\ events' = IF Alone(call) THEN events \cup {[type |-> "PROPOSAL_REJECTED", set |-> 0]} ELSE events
  /\ Ends
  /\ UNCHANGED <<registry, policy, sets, violations, admin, faults>>

Create ==
  /\ At("judged") /\ Blocked(call.patches) = {}
  /\ sets' = Append(sets, [patches |-> call.patches])
  /\ call' = [Goto("created") EXCEPT !.store = IF Alone(call) THEN Warned(call.patches) ELSE {}]
  /\ UNCHANGED <<registry, policy, violations, events, admin, faults>>

(* Gate2Service.evaluateAndPersist: one insert after the other.               *)
StoreViolation ==
  /\ At("created")
  /\ \E f \in call.store :
       /\ violations' = violations \cup {[set |-> Len(sets), file |-> f]}
       /\ call' = [call EXCEPT !.store = @ \ {f}]
  /\ UNCHANGED <<registry, policy, sets, events, admin, faults>>

\* Mutant: a single warning is not worth a row.
AllStoredButOne == Cardinality(call.store) <= 1

AllStored == call.store = {}

RecordProposal ==
  /\ At("created") /\ AllStored
  /\ events' = events \cup {[type |-> "PROPOSAL_GENERATED", set |-> Len(sets)]}
  /\ Ends
  /\ UNCHANGED <<registry, policy, sets, violations, admin, faults>>

Admin == \E i \in DOMAIN registry :
  (\E on \in BOOLEAN : SetEnabled(i, on)) \/ (\E p \in Priorities : SetPriority(i, p)) \/ Unregister(i)

Next == Begin \/ FindAgent \/ Proposes \/ ProposesNothing \/ PassesOver \/ Throws \/ Finalize \/ Refuse
          \/ Create \/ StoreViolation \/ RecordProposal \/ Admin
Spec == Init /\ [][Next]_vars

-----------------------------------------------------------------------------
(* No stored set changes what the policy forbids, as far as its diffs can be  *)
(* told apart: whichever agents, strategy and merge it came from, a part of   *)
(* it with a git header changes no frozen file and adds no secret, and its    *)
(* first part, headed or not, begins with no frozen file.                     *)
ReadableDiffsAreClean ==
  \A s \in DOMAIN sets : \A i \in DOMAIN sets[s].patches :
    LET p == sets[s].patches[i]
    IN /\ p.headed => \A f \in Range(p.diff) : policy[f] \notin {"frozen", "secret"}
       /\ i = 1 => policy[p.diff[1]] # "frozen"

(* Nobody's work is lost but to a conflict: when no two proposed patches share *)
(* a task, each file that was proposed is in the merged set, in the patch of  *)
(* the agent that proposed it first.                                          *)
ConflictsGoToFirst ==
  LET proposed == call.proposed
      own == \A i, j \in DOMAIN proposed : proposed[i].task = proposed[j].task => i = j
  IN (~ Alone(call) /\ call.patches # <<>> /\ own) =>
       \A f \in Files : LET at == Listing(proposed, f) IN at # {} =>
         \E i \in DOMAIN call.patches : f \in call.patches[i].files /\ call.patches[i].task = proposed[Min(at)].task

(* An agent's own proposal that was announced has a row for every warning the *)
(* gate raised, whatever failed on the way.                                   *)
WarningsAreStored ==
  \A e \in events : (e.type = "PROPOSAL_GENERATED" /\ Alone(call)) =>
    \A f \in Warned(sets[e.set].patches) : [set |-> e.set, file |-> f] \in violations
=============================================================================
